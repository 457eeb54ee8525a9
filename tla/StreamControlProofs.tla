------------------------- MODULE StreamControlProofs --------------------------
(***************************************************************************)
(* Proofs that the control frames and the flow control of a stream keep    *)
(* their invariants, for any window, any amount of data, any number of     *)
(* packets and every way of ending the stream.                             *)
(***************************************************************************)
EXTENDS StreamControl, TLAPS, FiniteSetTheorems

(* What is sent stays within the limit, and the end of stream is sent after *)
(* all of it.  Only an acknowledged reset or an acknowledged end of stream  *)
(* destroys the sending side, so the receiving side is destroyed by then.   *)
SenderShape ==
    /\ snd.size_inflight <= snd.max_stream_data
    /\ snd.fin_sent => snd.size_inflight = MaxData
    /\ ~snd.alive => rcv.state = "destroyed"

(* What is received was sent, and the announced limit is never beyond the   *)
(* window of what the application has read.                                 *)
ReceiverShape ==
    /\ rcv.top <= snd.size_inflight
    /\ rcv.eos => snd.fin_sent
    /\ rcv.max_committed <= rcv.data_off + Window
    /\ snd.max_stream_data <= rcv.max_committed
    /\ rcv.state # "destroyed" => rcv.max_acked <= snd.max_stream_data

(* A reset carries the final size, which does not change any more; a limit  *)
(* on its way was announced, is the only one of its packet, and is known to *)
(* the sender once it has arrived, while anybody cares.                     *)
FrameShape ==
    /\ \A s \in SenderSlots : \A f \in pkt[s].frames : f.type = "RESET_STREAM" =>
          /\ snd.reset # "none" /\ f.val = snd.size_inflight
          /\ pkt[s].net = "received" => rcv.state = "destroyed"
    /\ \A s \in ReceiverSlots : \A f \in pkt[s].frames : f.type = "MAX_STREAM_DATA" =>
          /\ \A g \in pkt[s].frames : g.type = "MAX_STREAM_DATA" => g = f
          /\ f.val <= rcv.max_committed
          /\ pkt[s].net = "received" /\ rcv.state # "destroyed" => f.val <= snd.max_stream_data

(* PendingIsListed, also for a receiving stream that no frame has opened.   *)
Listed ==
    /\ snd.alive /\ snd.blocked = "send" => snd.linked
    /\ rcv.state # "destroyed" /\ rcv.stop = "send" => rcv.linked

(* The slots that num_inflight counts. *)
Counted == {s \in ReceiverSlots : pkt[s].map = "inflight" /\ Has(s, "MAX_STREAM_DATA")}

Inv == /\ TypeOK
       /\ ~closed
       /\ SenderShape
       /\ ReceiverShape
       /\ FrameShape
       /\ Listed
       /\ MaxInflightCounted

-------------------------------------------------------------------------------
(* The parts of the two streams that scheduling does not touch. *)
SameSender(a, b) ==
    /\ a.alive = b.alive /\ a.size_inflight = b.size_inflight /\ a.shut = b.shut
    /\ a.fin_sent = b.fin_sent /\ a.max_stream_data = b.max_stream_data /\ a.reset = b.reset

SameReceiver(a, b) ==
    /\ a.state = b.state /\ a.top = b.top /\ a.eos = b.eos /\ a.data_off = b.data_off
    /\ a.max_committed = b.max_committed /\ a.max_acked = b.max_acked
    /\ a.num_inflight = b.num_inflight /\ a.force_send = b.force_send /\ a.stop = b.stop

(* resched_stream_data schedules a STREAM_DATA_BLOCKED frame or does        *)
(* nothing.                                                                 *)
LEMMA ReschedFields ==
    ASSUME NEW a \in Sender
    PROVE  /\ Resched(a) \in Sender
           /\ SameSender(Resched(a), a)
           /\ (a.blocked = "send" => a.linked) => (Resched(a).blocked = "send" => Resched(a).linked)
BY DEF Resched, Sender, SenderState, SameSender

(* Sched links the stream or does nothing. *)
LEMMA SchedFields ==
    ASSUME NEW b \in Receiver
    PROVE  /\ Sched(b) \in Receiver
           /\ SameReceiver(Sched(b), b)
           /\ b.linked => Sched(b).linked
BY DEF Sched, Receiver, SameReceiver

(* A packet is forgotten when nobody can say anything about it any more,    *)
(* and is not changed otherwise.                                            *)
LEMMA SettleFields ==
    ASSUME NEW p \in Packet
    PROVE  /\ Settle(p) \in Packet
           /\ Settle(p) = p \/ (p.map = "gone" /\ p.net # "transit" /\ Settle(p) = NoPacket)
BY DEF Settle, Packet, NoPacket

LEMMA NoPacketType == NoPacket \in Packet
BY DEF NoPacket, Packet

(* Val picks a frame of the packet. *)
LEMMA ValOfFrame ==
    ASSUME NEW s, NEW t, Has(s, t)
    PROVE  \E f \in pkt[s].frames : f.type = t /\ f.val = Val(s, t)
BY DEF Has, Val

LEMMA InitInv == Init => Inv
<1> SUFFICES ASSUME Init PROVE Inv
  OBVIOUS
<1> USE StreamControlAssumption
<1> DEFINE a0 == [alive |-> TRUE, size_inflight |-> 0, shut |-> FALSE,
                  fin_sent |-> FALSE, max_stream_data |-> Window,
                  blocked |-> "none", reset |-> "none", linked |-> FALSE]
<1>1. a0 \in Sender /\ snd = Resched(a0)
  BY DEF Init, Sender, SenderState
<1>2. /\ snd \in Sender /\ snd.alive /\ snd.size_inflight = 0 /\ ~snd.fin_sent
      /\ snd.max_stream_data = Window /\ snd.reset = "none"
      /\ snd.blocked = "send" => snd.linked
  BY <1>1, ReschedFields DEF SameSender
<1>3. TypeOK
  <2>1. rcv \in Receiver
    BY DEF Init, Receiver, SenderState
  <2>2. pkt \in [Slots -> Packet] /\ closed \in BOOLEAN
    BY NoPacketType DEF Init
  <2> QED
    BY <1>2, <2>1, <2>2 DEF TypeOK
<1>4. \A s \in Slots : pkt[s].frames = {} /\ pkt[s].map = "gone"
  BY DEF Init, NoPacket
<1>5. MaxInflightCounted
  <2>1. {s \in ReceiverSlots : pkt[s].map = "inflight" /\ Has(s, "MAX_STREAM_DATA")} = {}
    BY <1>4 DEF Slots
  <2> QED
    BY <2>1, FS_EmptySet DEF MaxInflightCounted, Init
<1> QED
  BY <1>2, <1>3, <1>4, <1>5 DEF Init, Inv, SenderShape, ReceiverShape, FrameShape, Listed, Slots

(* The count of limits in flight depends on the slot that changes. *)
LEMMA CountedChange ==
    ASSUME TypeOK, NEW s \in Slots, NEW q \in Packet, pkt' = [pkt EXCEPT ![s] = q]
    PROVE  LET holds(p) == p.map = "inflight" /\ \E f \in p.frames : f.type = "MAX_STREAM_DATA"
           IN  /\ Cardinality(Counted) \in Nat
               /\ s \notin ReceiverSlots \/ holds(q) = holds(pkt[s])
                     => Cardinality(Counted') = Cardinality(Counted)
               /\ s \in ReceiverSlots /\ holds(q) /\ ~holds(pkt[s])
                     => Cardinality(Counted') = Cardinality(Counted) + 1
               /\ s \in ReceiverSlots /\ ~holds(q) /\ holds(pkt[s])
                     => Cardinality(Counted') = Cardinality(Counted) - 1
<1> DEFINE holds(p) == p.map = "inflight" /\ \E f \in p.frames : f.type = "MAX_STREAM_DATA"
<1>1. IsFiniteSet(Counted) /\ Counted \subseteq ReceiverSlots
  BY StreamControlAssumption, FS_Subset DEF Counted
<1>2. Counted = {r \in ReceiverSlots : holds(pkt[r])}
  BY DEF Counted, Has
<1>3. Counted' = {r \in ReceiverSlots : holds(pkt'[r])}
  BY DEF Counted, Has
<1>4. \A r \in Slots : pkt'[r] = IF r = s THEN q ELSE pkt[r]
  BY DEF TypeOK
<1>5. ReceiverSlots \subseteq Slots
  BY DEF Slots
<1> HIDE DEF holds
<1>6. ASSUME s \notin ReceiverSlots \/ holds(q) = holds(pkt[s])
      PROVE  Counted' = Counted
  BY <1>2, <1>3, <1>4, <1>5, <1>6
<1>7. ASSUME s \in ReceiverSlots, holds(q), ~holds(pkt[s])
      PROVE  s \notin Counted /\ Counted' = Counted \cup {s}
  BY <1>2, <1>3, <1>4, <1>5, <1>7
<1>8. ASSUME s \in ReceiverSlots, ~holds(q), holds(pkt[s])
      PROVE  s \in Counted /\ Counted' = Counted \ {s}
  BY <1>2, <1>3, <1>4, <1>5, <1>8
<1>9. Cardinality(Counted) \in Nat
  BY <1>1, FS_CardinalityType
<1>10. ASSUME s \in ReceiverSlots, holds(q), ~holds(pkt[s])
       PROVE  Cardinality(Counted') = Cardinality(Counted) + 1
  BY <1>1, <1>7, <1>10, FS_AddElement
<1>11. ASSUME s \in ReceiverSlots, ~holds(q), holds(pkt[s])
       PROVE  Cardinality(Counted') = Cardinality(Counted) - 1
  BY <1>1, <1>8, <1>11, FS_RemoveElement
<1> QED
  BY <1>6, <1>9, <1>10, <1>11 DEF holds

(* The sending application and the send loop: packets and receiver stay. *)
LEMMA SenderStep ==
    ASSUME Inv, UNCHANGED <<rcv, pkt, closed>>, snd' \in Sender,
           snd'.max_stream_data = snd.max_stream_data,
           snd.size_inflight <= snd'.size_inflight,
           snd'.size_inflight <= snd.max_stream_data,
           snd.reset # "none" => snd'.reset # "none" /\ snd'.size_inflight = snd.size_inflight,
           snd.fin_sent => snd'.fin_sent,
           snd'.fin_sent => snd'.size_inflight = MaxData,
           ~snd'.alive => rcv.state = "destroyed",
           snd'.alive /\ snd'.blocked = "send" => snd'.linked
    PROVE  Inv'
<1> USE StreamControlAssumption
<1>1. TypeOK'
  BY DEF Inv, TypeOK
<1>2. SenderShape' /\ Listed' /\ ~closed'
  BY DEF Inv, SenderShape, Listed
<1>3. ReceiverShape'
  BY <1>1 DEF Inv, TypeOK, ReceiverShape, Sender, Receiver
<1>4. FrameShape'
  BY DEF Inv, FrameShape
<1>5. MaxInflightCounted'
  BY DEF Inv, MaxInflightCounted, Has
<1> QED
  BY <1>1, <1>2, <1>3, <1>4, <1>5 DEF Inv

(* The receiving application and data that arrives: packets and sender stay. *)
LEMMA ReceiverStep ==
    ASSUME Inv, UNCHANGED <<snd, pkt>>, closed' = FALSE, rcv' \in Receiver,
           rcv'.max_committed = rcv.max_committed, rcv'.max_acked = rcv.max_acked,
           rcv'.num_inflight = rcv.num_inflight, rcv.data_off <= rcv'.data_off,
           rcv'.top <= snd.size_inflight, rcv'.eos => snd.fin_sent,
           rcv.state = "destroyed" => rcv'.state = "destroyed",
           rcv'.state # "destroyed" /\ rcv'.stop = "send" => rcv'.linked
    PROVE  Inv'
<1> USE StreamControlAssumption
<1>1. TypeOK'
  BY DEF Inv, TypeOK
<1>2. SenderShape' /\ Listed' /\ ~closed'
  BY DEF Inv, SenderShape, Listed
<1>3. ReceiverShape'
  BY <1>1 DEF Inv, TypeOK, ReceiverShape, Sender, Receiver
<1>4. FrameShape'
  BY DEF Inv, FrameShape
<1>5. MaxInflightCounted'
  BY DEF Inv, MaxInflightCounted, Has
<1> QED
  BY <1>1, <1>2, <1>3, <1>4, <1>5 DEF Inv

LEMMA ShutdownInv == Inv /\ Shutdown => Inv'
<1> SUFFICES ASSUME Inv, Shutdown PROVE Inv'
  OBVIOUS
<1> DEFINE a == [snd EXCEPT !.shut = TRUE]
<1>1. /\ a \in Sender /\ a.alive = snd.alive /\ a.size_inflight = snd.size_inflight
      /\ a.fin_sent = snd.fin_sent /\ a.max_stream_data = snd.max_stream_data
      /\ a.reset = snd.reset /\ a.blocked = snd.blocked /\ a.linked = snd.linked
  BY DEF Inv, TypeOK, Sender
<1>2. snd' = Resched(a) /\ snd.alive /\ UNCHANGED <<rcv, pkt, closed>>
  BY DEF Shutdown
<1> HIDE DEF a
<1>3. snd' \in Sender /\ SameSender(snd', a) /\ (snd'.blocked = "send" => snd'.linked)
  BY <1>1, <1>2, ReschedFields DEF Inv, Listed
<1>4. snd.size_inflight \in 0 .. MaxData /\ snd'.size_inflight = snd.size_inflight
  BY <1>1, <1>3 DEF Inv, TypeOK, Sender, SameSender
<1> QED
  BY <1>1, <1>2, <1>3, <1>4, SenderStep, StreamControlAssumption DEF Inv, SenderShape, SameSender

LEMMA ResetInv == Inv /\ Reset => Inv'
<1> SUFFICES ASSUME Inv, Reset PROVE Inv'
  OBVIOUS
<1>1. /\ snd' \in Sender /\ snd'.alive /\ snd'.size_inflight = snd.size_inflight
      /\ snd'.fin_sent = snd.fin_sent /\ snd'.max_stream_data = snd.max_stream_data
      /\ snd'.reset = "send" /\ snd'.linked
  BY DEF Inv, TypeOK, Sender, SenderState, Reset, ResetStream
<1>2. snd.size_inflight \in 0 .. MaxData /\ UNCHANGED <<rcv, pkt, closed>>
  BY DEF Inv, TypeOK, Sender, Reset
<1> QED
  BY <1>1, <1>2, SenderStep, StreamControlAssumption DEF Inv, SenderShape

LEMMA SendStreamInv ==
    ASSUME Inv, NEW n \in 0 .. MaxData, SendStream(n)
    PROVE  Inv'
<1> DEFINE a == [snd EXCEPT !.size_inflight = n, !.fin_sent = snd.shut /\ n = MaxData]
<1>1. /\ a \in Sender /\ a.alive = snd.alive /\ a.size_inflight = n
      /\ a.fin_sent = (snd.shut /\ n = MaxData) /\ a.max_stream_data = snd.max_stream_data
      /\ a.reset = snd.reset /\ a.blocked = snd.blocked /\ a.linked = snd.linked
  BY DEF Inv, TypeOK, Sender
<1>2. /\ snd' = Resched(a) /\ snd.alive /\ snd.reset = "none"
      /\ UNCHANGED <<rcv, pkt, closed>>
  BY DEF SendStream
<1>3. /\ snd.size_inflight <= n /\ n <= snd.max_stream_data /\ ~snd.fin_sent
  BY StreamControlAssumption
     DEF SendStream, StreamLimit, Inv, TypeOK, Sender, SenderShape
<1> HIDE DEF a
<1>4. snd' \in Sender /\ SameSender(snd', a) /\ (snd'.blocked = "send" => snd'.linked)
  BY <1>1, <1>2, ReschedFields DEF Inv, Listed
<1> QED
  BY <1>1, <1>2, <1>3, <1>4, SenderStep DEF SameSender

LEMMA AllAckedInv == Inv /\ AllAcked => Inv'
<1> SUFFICES ASSUME Inv, AllAcked PROVE Inv'
  OBVIOUS
<1>1. /\ snd' \in Sender /\ ~snd'.alive /\ snd'.size_inflight = snd.size_inflight
      /\ snd'.fin_sent = snd.fin_sent /\ snd'.max_stream_data = snd.max_stream_data
      /\ snd'.reset = snd.reset
  BY DEF Inv, TypeOK, Sender, AllAcked, Destroyed
<1>2. /\ snd.size_inflight \in 0 .. MaxData /\ UNCHANGED <<rcv, pkt, closed>>
      /\ rcv.state = "destroyed"
  BY DEF Inv, TypeOK, Sender, AllAcked
<1> QED
  BY <1>1, <1>2, SenderStep, StreamControlAssumption DEF Inv, SenderShape

(* A frame that was sent is within the window, so it is not refused. *)
LEMMA ReceiveStreamInv ==
    ASSUME Inv, NEW n \in 0 .. MaxData, NEW fin \in BOOLEAN, NEW whole \in BOOLEAN,
           ReceiveStream(n, fin, whole)
    PROVE  Inv'
<1> USE StreamControlAssumption
<1> DEFINE b == Opened(rcv)
           r == [b EXCEPT !.top = IF n > @ THEN n ELSE @, !.eos = @ \/ fin]
<1>1. /\ b \in Receiver /\ b.state # "destroyed" /\ b.top = rcv.top /\ b.eos = rcv.eos
      /\ b.data_off = rcv.data_off /\ b.max_committed = rcv.max_committed
      /\ b.max_acked = rcv.max_acked /\ b.num_inflight = rcv.num_inflight
      /\ b.stop = rcv.stop /\ b.linked = rcv.linked
  BY DEF Inv, TypeOK, Receiver, Opened, ReceiveStream
<1>2. n <= snd.size_inflight /\ (fin => snd.fin_sent) /\ UNCHANGED <<snd, pkt>>
  BY DEF ReceiveStream
<1>3. n - b.data_off <= Window
  BY <1>1, <1>2 DEF Inv, TypeOK, Sender, Receiver, SenderShape, ReceiverShape
<1>4. closed' = FALSE /\ rcv' = IF whole THEN Finished(r) ELSE Sched(r)
  <2>1. /\ closed' = (n - b.data_off > Window)
        /\ rcv' = IF n - b.data_off > Window THEN b ELSE IF whole THEN Finished(r) ELSE Sched(r)
    BY DEF ReceiveStream
  <2>2. (n - b.data_off > Window) = FALSE
    BY <1>1, <1>3 DEF Receiver
  <2> QED
    BY <2>1, <2>2, Zenon
<1>5. /\ r \in Receiver /\ r.state = b.state /\ r.top = (IF n > b.top THEN n ELSE b.top)
      /\ r.eos = (b.eos \/ fin) /\ r.data_off = b.data_off
      /\ r.max_committed = b.max_committed /\ r.max_acked = b.max_acked
      /\ r.num_inflight = b.num_inflight /\ r.stop = b.stop /\ r.linked = b.linked
  BY <1>1 DEF Receiver
<1> HIDE DEF b, r
<1>6. /\ rcv' \in Receiver /\ rcv'.top = r.top /\ rcv'.eos = r.eos
      /\ rcv'.data_off = r.data_off /\ rcv'.max_committed = r.max_committed
      /\ rcv'.max_acked = r.max_acked /\ rcv'.num_inflight = r.num_inflight
      /\ rcv'.state # "destroyed" /\ rcv'.stop = "send" => rcv'.linked
  <2>1. CASE whole
    BY <2>1, <1>4, <1>5 DEF Finished, Receiver
  <2>2. CASE ~whole
    BY <2>2, <1>1, <1>4, <1>5, SchedFields DEF SameReceiver, Inv, Listed, ReceiveStream
  <2> QED
    BY <2>1, <2>2
<1>7. rcv'.top <= snd.size_inflight /\ (rcv'.eos => snd.fin_sent)
  BY <1>1, <1>2, <1>5, <1>6 DEF Inv, TypeOK, Sender, Receiver, ReceiverShape
<1>8. rcv.state # "destroyed"
  BY DEF ReceiveStream
<1>9. rcv.data_off <= rcv'.data_off
  BY <1>1, <1>5, <1>6 DEF Receiver
<1> QED
  BY <1>1, <1>2, <1>4, <1>5, <1>6, <1>7, <1>8, <1>9, ReceiverStep

LEMMA ConsumeInv ==
    ASSUME Inv, NEW n \in 1 .. MaxData, Consume(n)
    PROVE  Inv'
<1> USE StreamControlAssumption
<1> DEFINE b == [rcv EXCEPT !.data_off = n]
<1>1. /\ b \in Receiver /\ b.state = rcv.state /\ b.top = rcv.top /\ b.eos = rcv.eos
      /\ b.data_off = n /\ b.max_committed = rcv.max_committed
      /\ b.max_acked = rcv.max_acked /\ b.num_inflight = rcv.num_inflight
      /\ b.stop = rcv.stop /\ b.linked = rcv.linked
  BY DEF Inv, TypeOK, Receiver
<1>2. /\ rcv' = Sched(b) /\ n > rcv.data_off /\ rcv.state = "open"
      /\ UNCHANGED <<snd, pkt>> /\ closed' = FALSE
  BY DEF Consume, Inv, TypeOK
<1> HIDE DEF b
<1>3. rcv' \in Receiver /\ SameReceiver(rcv', b) /\ (rcv.linked => rcv'.linked)
  BY <1>1, <1>2, SchedFields
<1>4. rcv.data_off <= rcv'.data_off
  BY <1>1, <1>2, <1>3 DEF SameReceiver, Inv, TypeOK, Receiver
<1> QED
  BY <1>1, <1>2, <1>3, <1>4, ReceiverStep DEF SameReceiver, Inv, Listed, ReceiverShape

LEMMA RequestStopInv == Inv /\ RequestStop => Inv'
<1> SUFFICES ASSUME Inv, RequestStop PROVE Inv'
  OBVIOUS
<1>1. /\ rcv' \in Receiver /\ rcv'.state = rcv.state /\ rcv'.top = rcv.top
      /\ rcv'.eos = rcv.eos /\ rcv'.data_off = rcv.data_off
      /\ rcv'.max_committed = rcv.max_committed /\ rcv'.max_acked = rcv.max_acked
      /\ rcv'.num_inflight = rcv.num_inflight /\ rcv'.linked
  BY DEF Inv, TypeOK, Receiver, SenderState, RequestStop
<1>2. rcv.data_off \in 0 .. MaxData /\ UNCHANGED <<snd, pkt>> /\ closed' = FALSE
  BY DEF Inv, TypeOK, Receiver, RequestStop
<1>3. rcv.data_off <= rcv'.data_off
  BY <1>1, <1>2, StreamControlAssumption
<1>4. rcv'.top <= snd.size_inflight /\ (rcv'.eos => snd.fin_sent)
  BY <1>1 DEF Inv, ReceiverShape
<1> QED
  BY <1>1, <1>2, <1>3, <1>4, ReceiverStep

(* A packet with new frames of the sender takes a free slot. *)
LEMMA SendSenderControlInv ==
    ASSUME Inv, NEW s \in SenderSlots, SendSenderControl(s)
    PROVE  Inv'
<1> USE StreamControlAssumption
<1>1. PICK fs \in SUBSET SenderFrames :
        /\ fs = {} => SenderFrames = {}
        /\ LET sent(t) == \E f \in fs : f.type = t
           IN  snd' = [snd EXCEPT !.reset   = IF sent("RESET_STREAM") THEN "unacked" ELSE @,
                                  !.blocked = IF sent("STREAM_DATA_BLOCKED") THEN "unacked" ELSE @,
                                  !.linked  = fs # SenderFrames]
        /\ pkt' = IF fs = {} THEN pkt ELSE [pkt EXCEPT ![s] = Record(fs)]
  BY DEF SendSenderControl
<1>2. pkt[s] = NoPacket /\ rcv' = rcv /\ closed' = closed /\ s \in Slots
  BY DEF SendSenderControl, Slots
<1>3. SenderFrames \subseteq Frame
  BY DEF SenderFrames, Frame, Inv, TypeOK, Sender
<1>4. Record(fs) \in Packet
  BY <1>3 DEF Record, Packet
<1>5. /\ snd' \in Sender /\ snd'.alive = snd.alive /\ snd'.size_inflight = snd.size_inflight
      /\ snd'.fin_sent = snd.fin_sent /\ snd'.max_stream_data = snd.max_stream_data
      /\ snd.reset # "none" => snd'.reset # "none"
  BY <1>1 DEF Inv, TypeOK, Sender, SenderState
<1>6. snd'.blocked = "send" => snd'.linked
  <2> SUFFICES ASSUME snd'.blocked = "send" PROVE snd'.linked
    OBVIOUS
  <2>1. ~(\E f \in fs : f.type = "STREAM_DATA_BLOCKED") /\ snd.blocked = "send"
    BY <1>1 DEF Inv, TypeOK, Sender
  <2>2. [type |-> "STREAM_DATA_BLOCKED", val |-> snd.max_stream_data] \in SenderFrames
    BY <2>1 DEF SenderFrames
  <2>3. fs # SenderFrames
    BY <2>1, <2>2
  <2> QED
    BY <1>1, <2>3 DEF Inv, TypeOK, Sender
<1>7. TypeOK'
  BY <1>1, <1>2, <1>4, <1>5 DEF Inv, TypeOK
<1>8. SenderShape' /\ ReceiverShape' /\ Listed' /\ ~closed'
  BY <1>2, <1>5, <1>6 DEF Inv, SenderShape, ReceiverShape, Listed
<1>9. FrameShape'
  <2>1. ASSUME NEW f \in fs, f.type = "RESET_STREAM"
        PROVE  snd.reset = "send" /\ f.val = snd.size_inflight
    BY <2>1 DEF SenderFrames
  <2>2. \A r \in Slots : pkt'[r] = pkt[r] \/ (r = s /\ pkt'[r] = Record(fs))
    BY <1>1, <1>2 DEF Inv, TypeOK
  <2>3. Record(fs).frames = fs /\ Record(fs).net = "transit"
    BY DEF Record
  <2>4. s \notin ReceiverSlots
    OBVIOUS
  <2> QED
    BY <1>2, <1>5, <2>1, <2>2, <2>3, <2>4 DEF Inv, FrameShape, Slots
<1>10. MaxInflightCounted'
  <2>1. Cardinality(Counted') = Cardinality(Counted)
    <3>1. CASE fs = {}
      BY <1>1, <3>1 DEF Counted, Has
    <3>2. CASE fs # {}
      BY <1>1, <1>2, <1>4, <3>2, CountedChange DEF Inv
    <3> QED
      BY <3>1, <3>2
  <2> QED
    BY <1>2, <2>1 DEF Inv, MaxInflightCounted, Counted
<1> QED
  BY <1>7, <1>8, <1>9, <1>10 DEF Inv

(* quicly_maxsender_record remembers the new limit and counts the frame. *)
LEMMA MaxRecordedFields ==
    ASSUME NEW b \in Receiver
    PROVE  LET r == MaxRecorded(b)
           IN  /\ r \in Receiver /\ r.state = b.state /\ r.top = b.top /\ r.eos = b.eos
               /\ r.data_off = b.data_off /\ r.max_acked = b.max_acked /\ r.stop = b.stop
               /\ r.max_committed = b.data_off + Window /\ r.num_inflight = b.num_inflight + 1
<1> USE StreamControlAssumption
<1>1. b.data_off + Window \in Nat /\ b.num_inflight + 1 \in Nat
  BY DEF Receiver
<1> QED
  BY <1>1 DEF Receiver, MaxRecorded

(* A packet with new frames of the receiver takes a free slot; a new limit  *)
(* is counted and is not smaller than the last one.                         *)
LEMMA SendReceiverControlInv ==
    ASSUME Inv, NEW s \in ReceiverSlots, SendReceiverControl(s)
    PROVE  Inv'
<1> USE StreamControlAssumption
<1> DEFINE b(fs) == IF \E f \in fs : f.type = "MAX_STREAM_DATA" THEN MaxRecorded(rcv) ELSE rcv
<1>1. PICK fs \in SUBSET ReceiverFrames :
        /\ fs = {} => ReceiverFrames = {}
        /\ rcv' = [b(fs) EXCEPT !.stop   = IF \E f \in fs : f.type = "STOP_SENDING"
                                             THEN "unacked" ELSE @,
                                !.linked = fs # ReceiverFrames]
        /\ pkt' = IF fs = {} THEN pkt ELSE [pkt EXCEPT ![s] = Record(fs)]
  BY DEF SendReceiverControl
<1> DEFINE max == \E f \in fs : f.type = "MAX_STREAM_DATA"
<1>2. pkt[s] = NoPacket /\ snd' = snd /\ closed' = closed /\ s \in Slots
  BY DEF SendReceiverControl, Slots
<1>3. ReceiverFrames \subseteq Frame
  BY DEF ReceiverFrames, Frame, Inv, TypeOK, Receiver
<1>4. Record(fs) \in Packet
  BY <1>3 DEF Record, Packet
<1>5. /\ b(fs) \in Receiver /\ b(fs).state = rcv.state /\ b(fs).top = rcv.top
      /\ b(fs).eos = rcv.eos /\ b(fs).data_off = rcv.data_off
      /\ b(fs).max_acked = rcv.max_acked /\ b(fs).stop = rcv.stop
      /\ b(fs).max_committed = IF max THEN rcv.data_off + Window ELSE rcv.max_committed
      /\ b(fs).num_inflight = IF max THEN rcv.num_inflight + 1 ELSE rcv.num_inflight
  <2>1. rcv \in Receiver
    BY DEF Inv, TypeOK
  <2>2. CASE max
    <3>1. b(fs) = MaxRecorded(rcv)
      BY <2>2
    <3> HIDE DEF b, max
    <3> QED
      BY <2>1, <2>2, <3>1, MaxRecordedFields
  <2>3. CASE ~max
    <3>1. b(fs) = rcv
      BY <2>3
    <3> HIDE DEF b, max
    <3> QED
      BY <2>1, <2>3, <3>1 DEF Receiver
  <2> QED
    BY <2>2, <2>3
<1> HIDE DEF b
<1>6. /\ rcv' \in Receiver /\ rcv'.state = rcv.state /\ rcv'.top = rcv.top
      /\ rcv'.eos = rcv.eos /\ rcv'.data_off = rcv.data_off /\ rcv'.max_acked = rcv.max_acked
      /\ rcv'.max_committed = b(fs).max_committed /\ rcv'.num_inflight = b(fs).num_inflight
  BY <1>1, <1>5 DEF Receiver, SenderState
<1>7. rcv'.stop = "send" => rcv'.linked
  <2> SUFFICES ASSUME rcv'.stop = "send" PROVE rcv'.linked
    OBVIOUS
  <2>1. ~(\E f \in fs : f.type = "STOP_SENDING") /\ rcv.stop = "send"
    BY <1>1, <1>5 DEF Receiver
  <2>2. [type |-> "STOP_SENDING", val |-> 0] \in ReceiverFrames
    BY <2>1 DEF ReceiverFrames
  <2>3. fs # ReceiverFrames
    BY <2>1, <2>2
  <2> QED
    BY <1>1, <1>5, <2>3 DEF Receiver
<1>8. TypeOK'
  BY <1>1, <1>2, <1>4, <1>6 DEF Inv, TypeOK
<1>9. rcv.max_committed <= rcv'.max_committed /\ rcv'.max_committed <= rcv.data_off + Window
  BY <1>5, <1>6 DEF Inv, TypeOK, Receiver, ReceiverShape
<1>10. SenderShape' /\ Listed' /\ ~closed'
  BY <1>2, <1>6, <1>7 DEF Inv, SenderShape, Listed
<1>11. ReceiverShape'
  BY <1>2, <1>6, <1>9 DEF Inv, TypeOK, Sender, Receiver, ReceiverShape
<1>12. FrameShape'
  <2>1. ASSUME NEW f \in fs, f.type = "MAX_STREAM_DATA"
        PROVE  f.val <= rcv'.max_committed
    <3>1. f.val = rcv.data_off + Window
      BY <2>1 DEF ReceiverFrames
    <3> QED
      BY <1>5, <1>6, <2>1, <3>1 DEF Inv, TypeOK, Receiver
  <2>2. \A r \in Slots : pkt'[r] = pkt[r] \/ (r = s /\ pkt'[r] = Record(fs))
    BY <1>1, <1>2 DEF Inv, TypeOK
  <2>3. Record(fs).frames = fs /\ Record(fs).net = "transit"
    BY DEF Record
  <2>4. \A r \in ReceiverSlots : \A f \in pkt[r].frames :
           f.type = "MAX_STREAM_DATA" => f.val <= rcv'.max_committed
    BY <1>6, <1>9 DEF Inv, TypeOK, Slots, Packet, Frame, FrameShape, Receiver
  <2>5. s \notin SenderSlots
    OBVIOUS
  <2>6. \A f, g \in fs : f.type = "MAX_STREAM_DATA" /\ g.type = "MAX_STREAM_DATA" => g = f
    BY DEF ReceiverFrames
  <2> QED
    BY <1>2, <1>6, <2>1, <2>2, <2>3, <2>4, <2>5, <2>6 DEF Inv, FrameShape, Slots
<1>13. MaxInflightCounted'
  <2>1. Cardinality(Counted) \in Nat
    BY StreamControlAssumption, FS_Subset, FS_CardinalityType DEF Counted
  <2>2. Cardinality(Counted') = IF max THEN Cardinality(Counted) + 1 ELSE Cardinality(Counted)
    <3>1. CASE fs = {}
      BY <1>1, <3>1 DEF Counted, Has
    <3>2. CASE fs # {}
      <4>1. /\ Record(fs).frames = fs /\ Record(fs).map = "inflight"
            /\ NoPacket.map # "inflight"
        BY DEF Record, NoPacket
      <4> QED
        BY <1>1, <1>2, <1>4, <3>2, <4>1, CountedChange DEF Inv
    <3> QED
      BY <3>1, <3>2
  <2> QED
    BY <1>5, <1>6, <2>1, <2>2 DEF Inv, MaxInflightCounted, Counted
<1> QED
  BY <1>8, <1>10, <1>11, <1>12, <1>13 DEF Inv

(* A packet that is dropped, by the network or from the sentmap: nobody is  *)
(* told, and it is not counted among the limits in flight if it was not.    *)
LEMMA PacketStep ==
    ASSUME Inv, NEW s \in Slots, NEW q \in Packet,
           pkt' = [pkt EXCEPT ![s] = Settle(q)], UNCHANGED <<snd, rcv, closed>>,
           q.frames = pkt[s].frames, q.net # "received" \/ q.net = pkt[s].net,
           q.map = "inflight" <=> pkt[s].map = "inflight"
    PROVE  Inv'
<1> USE StreamControlAssumption
<1>1. /\ Settle(q) \in Packet /\ NoPacket.frames = {} /\ NoPacket.map = "gone"
      /\ Settle(q) = q \/ (q.map = "gone" /\ Settle(q) = NoPacket)
  BY SettleFields DEF NoPacket
<1>2. \A r \in Slots : pkt'[r] = IF r = s THEN Settle(q) ELSE pkt[r]
  BY DEF Inv, TypeOK
<1>3. TypeOK' /\ SenderShape' /\ ReceiverShape' /\ Listed' /\ ~closed'
  BY <1>1 DEF Inv, TypeOK, SenderShape, ReceiverShape, Listed
<1>4. FrameShape'
  BY <1>1, <1>2 DEF Inv, FrameShape, Slots
<1>5. Cardinality(Counted') = Cardinality(Counted)
  <2> DEFINE holds(p) == p.map = "inflight" /\ \E f \in p.frames : f.type = "MAX_STREAM_DATA"
  <2>1. holds(Settle(q)) = holds(pkt[s])
    BY <1>1
  <2> HIDE DEF holds
  <2> QED
    BY <1>1, <2>1, CountedChange DEF Inv, holds
<1>6. MaxInflightCounted'
  BY <1>5 DEF Inv, MaxInflightCounted, Counted
<1> QED
  BY <1>3, <1>4, <1>6 DEF Inv

LEMMA LoseInv ==
    ASSUME Inv, NEW s \in Slots, Lose(s)
    PROVE  Inv'
<1> DEFINE q == [pkt[s] EXCEPT !.net = "none"]
<1>1. pkt[s] \in Packet
  BY DEF Inv, TypeOK
<1>2. q \in Packet /\ q.frames = pkt[s].frames /\ q.net = "none" /\ q.map = pkt[s].map
  BY <1>1 DEF Packet
<1>3. pkt' = [pkt EXCEPT ![s] = Settle(q)] /\ UNCHANGED <<snd, rcv, closed>>
  BY DEF Lose
<1> HIDE DEF q
<1> QED
  BY <1>2, <1>3, PacketStep

LEMMA ExpireInv ==
    ASSUME Inv, NEW s \in Slots, Expire(s)
    PROVE  Inv'
<1> DEFINE q == [pkt[s] EXCEPT !.map = "gone"]
<1>1. pkt[s] \in Packet /\ pkt[s].map = "lost"
  BY DEF Inv, TypeOK, Expire
<1>2. q \in Packet /\ q.frames = pkt[s].frames /\ q.net = pkt[s].net /\ q.map = "gone"
  BY <1>1 DEF Packet
<1>3. pkt' = [pkt EXCEPT ![s] = Settle(q)] /\ UNCHANGED <<snd, rcv, closed>>
  BY DEF Expire
<1> HIDE DEF q
<1> QED
  BY <1>1, <1>2, <1>3, PacketStep

(* What Arrived makes of the packets. *)
LEMMA ArrivedFields ==
    ASSUME Inv, NEW s \in Slots, Arrived(s)
    PROVE  /\ pkt' \in [Slots -> Packet]
           /\ \A r \in Slots : r # s => pkt'[r] = pkt[r]
           /\ \/ pkt'[s].frames = {}
              \/ pkt'[s].frames = pkt[s].frames /\ pkt'[s].net = "received"
           /\ Cardinality(Counted') = Cardinality(Counted)
<1> DEFINE q == [pkt[s] EXCEPT !.net = "received"]
<1>1. pkt[s] \in Packet
  BY DEF Inv, TypeOK
<1>2. q \in Packet /\ q.frames = pkt[s].frames /\ q.net = "received" /\ q.map = pkt[s].map
  BY <1>1 DEF Packet
<1>3. pkt' = [pkt EXCEPT ![s] = Settle(q)]
  BY DEF Arrived
<1> HIDE DEF q
<1>4. /\ Settle(q) \in Packet /\ NoPacket.frames = {} /\ NoPacket.map = "gone"
      /\ Settle(q) = q \/ (q.map = "gone" /\ Settle(q) = NoPacket)
  BY <1>2, SettleFields DEF NoPacket
<1>5. Cardinality(Counted') = Cardinality(Counted)
  BY <1>2, <1>3, <1>4, CountedChange DEF Inv
<1> QED
  BY <1>2, <1>3, <1>4, <1>5 DEF Inv, TypeOK

(* RESET_STREAM and STREAM_DATA_BLOCKED arrive.  A reset carries the final  *)
(* size, so that it is not refused, and destroys the receiving side.        *)
LEMMA ReceiveSenderControlInv ==
    ASSUME Inv, NEW s \in SenderSlots, ReceiveSenderControl(s)
    PROVE  Inv'
<1> USE StreamControlAssumption
<1> DEFINE reset == Has(s, "RESET_STREAM") /\ rcv.state # "destroyed"
           b == IF reset THEN Opened(rcv) ELSE rcv
           v == Val(s, "RESET_STREAM")
<1>1. s \in Slots /\ s \notin ReceiverSlots /\ snd' = snd /\ Arrived(s)
  BY DEF ReceiveSenderControl, Slots
<1>2. /\ b \in Receiver /\ b.top = rcv.top /\ b.eos = rcv.eos
      /\ b.data_off = rcv.data_off /\ b.max_committed = rcv.max_committed
      /\ b.max_acked = rcv.max_acked /\ b.num_inflight = rcv.num_inflight
      /\ b.stop = rcv.stop /\ b.linked = rcv.linked
      /\ ~reset => b = rcv
  BY DEF Inv, TypeOK, Receiver, Opened
<1>3. closed' = FALSE
  <2>1. closed' = (reset /\ ResetRefused(b, v))
    BY DEF ReceiveSenderControl
  <2>2. ASSUME reset PROVE ~ResetRefused(b, v)
    <3>1. v = snd.size_inflight
      BY <2>2, ValOfFrame DEF Inv, FrameShape
    <3> QED
      BY <1>2, <3>1 DEF ResetRefused, Inv, TypeOK, Sender, Receiver, SenderShape, ReceiverShape
  <2> QED
    BY <2>1, <2>2
<1>4. rcv' = IF reset THEN Finished(b)
             ELSE IF Has(s, "STREAM_DATA_BLOCKED") THEN BlockedReceived(b) ELSE b
  BY <1>3 DEF ReceiveSenderControl
<1> HIDE DEF b
<1>5. /\ rcv' \in Receiver /\ rcv'.top = rcv.top /\ rcv'.eos = rcv.eos
      /\ rcv'.data_off = rcv.data_off /\ rcv'.max_committed = rcv.max_committed
      /\ rcv'.max_acked = rcv.max_acked /\ rcv'.num_inflight = rcv.num_inflight
      /\ rcv'.stop = rcv.stop /\ (rcv.linked => rcv'.linked \/ rcv'.state = "destroyed")
      /\ IF reset THEN rcv'.state = "destroyed" ELSE rcv'.state = rcv.state
  <2>1. CASE reset
    BY <2>1, <1>2, <1>4 DEF Finished, Receiver
  <2>2. CASE ~reset /\ Has(s, "STREAM_DATA_BLOCKED") /\ rcv.state = "open"
    <3> DEFINE c == [rcv EXCEPT !.force_send = TRUE]
    <3>1. /\ c \in Receiver /\ c.top = rcv.top /\ c.eos = rcv.eos
          /\ c.data_off = rcv.data_off /\ c.max_committed = rcv.max_committed
          /\ c.max_acked = rcv.max_acked /\ c.num_inflight = rcv.num_inflight
          /\ c.stop = rcv.stop /\ c.linked = rcv.linked /\ c.state = rcv.state
      BY DEF Inv, TypeOK, Receiver
    <3>2. rcv' = Sched(c)
      BY <2>2, <1>2, <1>4 DEF BlockedReceived
    <3> HIDE DEF c
    <3> QED
      BY <2>2, <3>1, <3>2, SchedFields DEF SameReceiver
  <2>3. CASE ~reset /\ (~Has(s, "STREAM_DATA_BLOCKED") \/ rcv.state # "open")
    <3>1. rcv' = rcv
      BY <2>3, <1>2, <1>4 DEF BlockedReceived
    <3> QED
      BY <2>3, <3>1 DEF Inv, TypeOK
  <2> QED
    BY <2>1, <2>2, <2>3
<1>6. rcv'.state # "destroyed" => rcv.state # "destroyed"
  BY <1>5
<1>7. pkt' \in [Slots -> Packet] /\ Cardinality(Counted') = Cardinality(Counted)
  BY <1>1, ArrivedFields
<1>8. TypeOK'
  BY <1>1, <1>3, <1>5, <1>7 DEF Inv, TypeOK
<1>9. SenderShape' /\ ReceiverShape' /\ Listed'
  BY <1>1, <1>5, <1>6 DEF Inv, SenderShape, ReceiverShape, Listed
<1>10. FrameShape'
  <2>1. \A r \in ReceiverSlots : pkt'[r] = pkt[r]
    BY <1>1, ArrivedFields DEF Slots
  <2>2. \A r \in SenderSlots : pkt'[r] = pkt[r] \/ pkt'[r].frames = {}
                                  \/ (r = s /\ pkt'[r].frames = pkt[s].frames)
    BY <1>1, ArrivedFields DEF Slots
  <2>3. Has(s, "RESET_STREAM") => rcv'.state = "destroyed"
    BY <1>5
  <2> QED
    BY <1>1, <1>5, <1>6, <2>1, <2>2, <2>3 DEF Inv, FrameShape, Has
<1>11. MaxInflightCounted'
  BY <1>5, <1>6, <1>7 DEF Inv, MaxInflightCounted, Counted
<1> QED
  BY <1>3, <1>8, <1>9, <1>10, <1>11 DEF Inv

(* STOP_SENDING and MAX_STREAM_DATA arrive.  The limit is the one announced *)
(* last or an older one.                                                    *)
LEMMA LimitReceivedFields ==
    ASSUME NEW a \in Sender, NEW v \in Nat, a.blocked = "send" => a.linked
    PROVE  LET r == LimitReceived(a, v)
           IN  /\ r \in Sender /\ r.alive = a.alive /\ r.size_inflight = a.size_inflight
               /\ r.fin_sent = a.fin_sent /\ r.reset = a.reset
               /\ r.max_stream_data = IF v <= a.max_stream_data THEN a.max_stream_data ELSE v
               /\ r.blocked = "send" => r.linked
<1> DEFINE u == [a EXCEPT !.max_stream_data = v, !.blocked = "none"]
<1>1. /\ u \in Sender /\ u.alive = a.alive /\ u.size_inflight = a.size_inflight
      /\ u.fin_sent = a.fin_sent /\ u.reset = a.reset
      /\ u.max_stream_data = v /\ u.blocked = "none"
  BY DEF Sender, SenderState
<1>2. LimitReceived(a, v) = IF v <= a.max_stream_data THEN a
                            ELSE IF a.reset = "none" THEN Resched(u) ELSE u
  BY DEF LimitReceived
<1> HIDE DEF u
<1>3. CASE v <= a.max_stream_data
  BY <1>2, <1>3
<1>4. CASE ~(v <= a.max_stream_data) /\ a.reset = "none"
  BY <1>1, <1>2, <1>4, ReschedFields DEF SameSender
<1>5. CASE ~(v <= a.max_stream_data) /\ a.reset # "none"
  BY <1>1, <1>2, <1>5
<1> QED
  BY <1>3, <1>4, <1>5

LEMMA ReceiveReceiverControlInv ==
    ASSUME Inv, NEW s \in ReceiverSlots, ReceiveReceiverControl(s)
    PROVE  Inv'
<1> USE StreamControlAssumption
<1> DEFINE a == IF Has(s, "STOP_SENDING") THEN StopReceived(snd) ELSE snd
           v == Val(s, "MAX_STREAM_DATA")
<1>1. s \in Slots /\ s \notin SenderSlots /\ rcv' = rcv /\ closed' = closed /\ Arrived(s)
  BY DEF ReceiveReceiverControl, Slots
<1>2. snd' = IF ~snd.alive THEN snd
             ELSE IF Has(s, "MAX_STREAM_DATA") THEN LimitReceived(a, v) ELSE a
  BY DEF ReceiveReceiverControl
<1>3. /\ a \in Sender /\ a.alive = snd.alive /\ a.size_inflight = snd.size_inflight
      /\ a.fin_sent = snd.fin_sent /\ a.max_stream_data = snd.max_stream_data
      /\ snd.reset # "none" => a.reset # "none"
      /\ snd.alive => (a.blocked = "send" => a.linked)
  BY DEF Inv, TypeOK, Listed, Sender, SenderState, StopReceived, ResetStream
<1>4. ASSUME Has(s, "MAX_STREAM_DATA")
      PROVE  /\ v \in Nat /\ v <= rcv.max_committed
             /\ \A f \in pkt[s].frames : f.type = "MAX_STREAM_DATA" => f.val = v
  <2>1. PICK f \in pkt[s].frames : f.type = "MAX_STREAM_DATA" /\ f.val = v
    BY <1>4, ValOfFrame
  <2>2. f \in Frame
    BY <1>1 DEF Inv, TypeOK, Packet
  <2> QED
    BY <2>1, <2>2 DEF Inv, FrameShape, Frame
<1> HIDE DEF a, v
<1>5. /\ snd' \in Sender /\ snd'.alive = snd.alive /\ snd'.size_inflight = snd.size_inflight
      /\ snd'.fin_sent = snd.fin_sent /\ (snd.reset # "none" => snd'.reset # "none")
      /\ snd.max_stream_data <= snd'.max_stream_data
      /\ snd'.max_stream_data <= rcv.max_committed
      /\ snd.alive /\ Has(s, "MAX_STREAM_DATA") => v <= snd'.max_stream_data
      /\ snd'.alive /\ snd'.blocked = "send" => snd'.linked
  <2>1. CASE ~snd.alive
    BY <2>1, <1>2 DEF Inv, TypeOK, Sender, ReceiverShape
  <2>2. CASE snd.alive /\ Has(s, "MAX_STREAM_DATA")
    <3>1. snd' = LimitReceived(a, v)
      BY <2>2, <1>2
    <3>2. snd.max_stream_data \in Nat /\ snd.max_stream_data <= rcv.max_committed
      BY DEF Inv, TypeOK, Sender, ReceiverShape
    <3>3. /\ snd' \in Sender /\ snd'.alive = a.alive /\ snd'.size_inflight = a.size_inflight
          /\ snd'.fin_sent = a.fin_sent /\ snd'.reset = a.reset
          /\ snd'.max_stream_data = IF v <= a.max_stream_data THEN a.max_stream_data ELSE v
          /\ snd'.blocked = "send" => snd'.linked
      BY <2>2, <3>1, <1>3, <1>4, LimitReceivedFields
    <3>4. /\ snd.max_stream_data <= snd'.max_stream_data /\ v <= snd'.max_stream_data
          /\ snd'.max_stream_data <= rcv.max_committed
      BY <2>2, <3>2, <3>3, <1>3, <1>4
    <3> QED
      BY <3>3, <3>4, <1>3
  <2>3. CASE snd.alive /\ ~Has(s, "MAX_STREAM_DATA")
    <3>1. snd' = a
      BY <2>3, <1>2
    <3>2. /\ snd.max_stream_data <= snd'.max_stream_data
          /\ snd'.max_stream_data <= rcv.max_committed
      BY <3>1, <1>3 DEF Inv, TypeOK, Sender, ReceiverShape
    <3> QED
      BY <2>3, <3>1, <3>2, <1>3
  <2> QED
    BY <2>1, <2>2, <2>3
<1>6. pkt' \in [Slots -> Packet] /\ Cardinality(Counted') = Cardinality(Counted)
  BY <1>1, ArrivedFields
<1>7. TypeOK' /\ ~closed' /\ Listed'
  BY <1>1, <1>5, <1>6 DEF Inv, TypeOK, Listed
<1>8. SenderShape'
  BY <1>1, <1>5 DEF Inv, TypeOK, Sender, SenderShape
<1>9. ReceiverShape'
  BY <1>1, <1>5 DEF Inv, TypeOK, Sender, Receiver, ReceiverShape
<1>10. FrameShape'
  <2>1. \A r \in SenderSlots : pkt'[r] = pkt[r]
    BY <1>1, ArrivedFields DEF Slots
  <2>2. \A r \in ReceiverSlots : pkt'[r] = pkt[r] \/ pkt'[r].frames = {}
                                    \/ (r = s /\ pkt'[r].frames = pkt[s].frames)
    BY <1>1, ArrivedFields DEF Slots
  <2>3. ASSUME NEW f \in pkt[s].frames, f.type = "MAX_STREAM_DATA", rcv.state # "destroyed"
        PROVE  f.val <= snd'.max_stream_data
    BY <1>4, <1>5, <2>3 DEF Has, Inv, SenderShape
  <2>4. ASSUME NEW r \in ReceiverSlots, NEW f \in pkt[r].frames, f.type = "MAX_STREAM_DATA",
               pkt[r].net = "received", rcv.state # "destroyed"
        PROVE  f.val <= snd'.max_stream_data
    <3>1. f.val \in Nat /\ f.val <= snd.max_stream_data
      BY <2>4 DEF Inv, TypeOK, FrameShape, Packet, Frame, Slots
    <3> QED
      BY <1>5, <3>1 DEF Inv, TypeOK, Sender
  <2> QED
    BY <1>1, <1>5, <2>1, <2>2, <2>3, <2>4 DEF Inv, FrameShape
<1>11. MaxInflightCounted'
  BY <1>1, <1>6 DEF Inv, MaxInflightCounted, Counted
<1> QED
  BY <1>7, <1>8, <1>9, <1>10, <1>11 DEF Inv

(* What the acknowledgement or the loss of a packet makes of the sender.    *)
LEMMA SenderNotifiedFields ==
    ASSUME Inv, NEW s \in SenderSlots, NEW acked \in BOOLEAN, snd.alive,
           acked => pkt[s].net = "received"
    PROVE  LET r == SenderNotified(s, acked)
           IN  /\ r \in Sender /\ r.size_inflight = snd.size_inflight
               /\ r.fin_sent = snd.fin_sent /\ r.max_stream_data = snd.max_stream_data
               /\ snd.reset # "none" => r.reset # "none"
               /\ ~r.alive => rcv.state = "destroyed"
               /\ r.alive /\ r.blocked = "send" => r.linked
<1> DEFINE a == IF Has(s, "RESET_STREAM") THEN ResetNotified(snd, acked) ELSE snd
           v == Val(s, "STREAM_DATA_BLOCKED")
<1>1. snd \in Sender /\ (snd.blocked = "send" => snd.linked)
  BY DEF Inv, TypeOK, Listed
<1>2. /\ a \in Sender /\ a.size_inflight = snd.size_inflight
      /\ a.fin_sent = snd.fin_sent /\ a.max_stream_data = snd.max_stream_data
      /\ snd.reset # "none" => a.reset # "none"
      /\ a.blocked = snd.blocked /\ (a.alive => a.linked = snd.linked)
      /\ ~a.alive => acked /\ Has(s, "RESET_STREAM")
  <2>1. CASE Has(s, "RESET_STREAM") /\ acked
    BY <1>1, <2>1 DEF ResetNotified, Destroyed, Sender, SenderState
  <2>2. CASE Has(s, "RESET_STREAM") /\ ~acked
    BY <1>1, <2>2 DEF ResetNotified, Sender, SenderState
  <2>3. CASE ~Has(s, "RESET_STREAM")
    BY <1>1, <2>3
  <2> QED
    BY <2>1, <2>2, <2>3
<1>3. SenderNotified(s, acked) =
        IF a.alive /\ Has(s, "STREAM_DATA_BLOCKED") THEN BlockedNotified(a, v, acked) ELSE a
  BY DEF SenderNotified
<1> HIDE DEF a, v
<1>4. ~a.alive => rcv.state = "destroyed"
  BY <1>2 DEF Inv, FrameShape, Has
<1>5. CASE a.alive /\ Has(s, "STREAM_DATA_BLOCKED")
  <2> DEFINE r == BlockedNotified(a, v, acked)
  <2>1. r = SenderNotified(s, acked)
    BY <1>3, <1>5
  <2>2. /\ r \in Sender /\ r.size_inflight = a.size_inflight /\ r.alive = a.alive
        /\ r.fin_sent = a.fin_sent /\ r.max_stream_data = a.max_stream_data
        /\ r.reset = a.reset
        /\ (a.blocked = "send" => a.linked) => (r.blocked = "send" => r.linked)
    BY <1>2 DEF BlockedNotified, Sender, SenderState
  <2> HIDE DEF r
  <2> QED
    BY <1>1, <1>2, <1>4, <1>5, <2>1, <2>2
<1>6. CASE ~(a.alive /\ Has(s, "STREAM_DATA_BLOCKED"))
  BY <1>1, <1>2, <1>3, <1>4, <1>6
<1> QED
  BY <1>5, <1>6

(* A limit in flight is one of those that num_inflight counts. *)
LEMMA CountedIsPositive ==
    ASSUME Inv, NEW s \in Counted, rcv.state # "destroyed"
    PROVE  rcv.num_inflight \in Nat \ {0}
<1>1. IsFiniteSet(Counted)
  BY StreamControlAssumption, FS_Subset DEF Counted
<1>2. IsFiniteSet(Counted \ {s}) /\ Cardinality(Counted \ {s}) = Cardinality(Counted) - 1
  BY <1>1, FS_RemoveElement
<1>3. Cardinality(Counted \ {s}) \in Nat /\ Cardinality(Counted) \in Nat
  BY <1>1, <1>2, FS_CardinalityType
<1>4. rcv.num_inflight = Cardinality(Counted)
  BY DEF Inv, MaxInflightCounted, Counted
<1> QED
  BY <1>2, <1>3, <1>4

(* What it makes of the receiver: an acknowledged limit is known to the     *)
(* sender, and a frame is taken out of the count once.                      *)
LEMMA ReceiverNotifiedFields ==
    ASSUME Inv, NEW s \in ReceiverSlots, NEW acked \in BOOLEAN, rcv.state # "destroyed",
           acked => pkt[s].net = "received",
           ~acked => pkt[s].map = "inflight"
    PROVE  LET r == ReceiverNotified(s, acked)
           IN  /\ r \in Receiver /\ r.state = rcv.state /\ r.top = rcv.top /\ r.eos = rcv.eos
               /\ r.data_off = rcv.data_off /\ r.max_committed = rcv.max_committed
               /\ r.max_acked <= snd.max_stream_data
               /\ r.num_inflight = IF s \in Counted THEN rcv.num_inflight - 1
                                   ELSE rcv.num_inflight
               /\ r.stop = "send" => r.linked
<1> USE StreamControlAssumption
<1> DEFINE b == IF Has(s, "STOP_SENDING") THEN StopNotified(rcv, acked) ELSE rcv
           v == Val(s, "MAX_STREAM_DATA")
           inflight == pkt[s].map = "inflight"
<1>1. rcv \in Receiver /\ (rcv.stop = "send" => rcv.linked) /\ snd \in Sender
  BY DEF Inv, TypeOK, Listed
<1>2. /\ b \in Receiver /\ b.state = rcv.state /\ b.top = rcv.top /\ b.eos = rcv.eos
      /\ b.data_off = rcv.data_off /\ b.max_committed = rcv.max_committed
      /\ b.max_acked = rcv.max_acked /\ b.num_inflight = rcv.num_inflight
      /\ b.stop = "send" => b.linked
  <2>1. CASE Has(s, "STOP_SENDING") /\ acked
    BY <1>1, <2>1 DEF StopNotified, Receiver, SenderState
  <2>2. CASE Has(s, "STOP_SENDING") /\ ~acked
    BY <1>1, <2>2 DEF StopNotified, Receiver, SenderState
  <2>3. CASE ~Has(s, "STOP_SENDING")
    BY <1>1, <2>3
  <2> QED
    BY <2>1, <2>2, <2>3
<1>3. ReceiverNotified(s, acked) =
        IF Has(s, "MAX_STREAM_DATA") THEN MaxNotified(b, v, inflight, acked) ELSE b
  BY DEF ReceiverNotified
<1>4. s \in Counted <=> inflight /\ Has(s, "MAX_STREAM_DATA")
  BY DEF Counted
<1>5. rcv.max_acked <= snd.max_stream_data
  BY DEF Inv, ReceiverShape
<1>6. ASSUME Has(s, "MAX_STREAM_DATA")
      PROVE  v \in Nat /\ (acked => v <= snd.max_stream_data)
  <2>1. PICK f \in pkt[s].frames : f.type = "MAX_STREAM_DATA" /\ f.val = v
    BY <1>6, ValOfFrame
  <2>2. f \in Frame
    BY DEF Inv, TypeOK, Packet, Slots
  <2> QED
    BY <2>1, <2>2 DEF Inv, FrameShape, Frame
<1> HIDE DEF b, v, inflight
<1>7. CASE ~Has(s, "MAX_STREAM_DATA")
  BY <1>2, <1>3, <1>4, <1>5, <1>7
<1>8. CASE Has(s, "MAX_STREAM_DATA") /\ acked
  <2> DEFINE r == MaxAcked(b, v, inflight)
  <2>1. r = ReceiverNotified(s, acked)
    BY <1>3, <1>8 DEF MaxNotified
  <2>2. inflight => b.num_inflight - 1 \in Nat
    BY <1>2, <1>4, <1>8, CountedIsPositive
  <2>3. /\ r \in Receiver /\ r.state = b.state /\ r.top = b.top /\ r.eos = b.eos
        /\ r.data_off = b.data_off /\ r.max_committed = b.max_committed
        /\ r.max_acked = IF v > b.max_acked THEN v ELSE b.max_acked
        /\ r.num_inflight = IF inflight THEN b.num_inflight - 1 ELSE b.num_inflight
        /\ r.stop = b.stop /\ r.linked = b.linked
    BY <1>2, <1>6, <1>8, <2>2 DEF MaxAcked, Receiver
  <2> HIDE DEF r
  <2> QED
    BY <1>2, <1>4, <1>5, <1>6, <1>8, <2>1, <2>3
<1>9. CASE Has(s, "MAX_STREAM_DATA") /\ ~acked
  <2> DEFINE c == MaxLost(b)
  <2>1. ReceiverNotified(s, acked) = Sched(c)
    BY <1>3, <1>9 DEF MaxNotified
  <2>2. s \in Counted /\ b.num_inflight - 1 \in Nat
    BY <1>2, <1>4, <1>9, CountedIsPositive DEF inflight
  <2>3. /\ c \in Receiver /\ c.state = b.state /\ c.top = b.top /\ c.eos = b.eos
        /\ c.data_off = b.data_off /\ c.max_committed = b.max_committed
        /\ c.max_acked = b.max_acked /\ c.num_inflight = b.num_inflight - 1
        /\ c.stop = b.stop /\ c.linked = b.linked
    BY <1>2, <2>2 DEF MaxLost, Receiver
  <2> HIDE DEF c
  <2>4. /\ Sched(c) \in Receiver /\ SameReceiver(Sched(c), c)
        /\ c.linked => Sched(c).linked
    BY <2>3, SchedFields
  <2> QED
    BY <1>2, <1>5, <2>1, <2>2, <2>3, <2>4 DEF SameReceiver
<1> QED
  BY <1>7, <1>8, <1>9

(* A packet is acknowledged or declared lost: it is not in flight any more, *)
(* and its frames are notified if the stream still exists.                  *)
LEMMA NotifyStep ==
    ASSUME Inv, NEW s \in Slots, NEW acked \in BOOLEAN, NEW q \in Packet,
           Notify(s, acked), pkt' = [pkt EXCEPT ![s] = q], closed' = closed,
           acked => pkt[s].net = "received", ~acked => pkt[s].map = "inflight",
           q.map # "inflight", q.frames = {} \/ (q.frames = pkt[s].frames /\ q.net = pkt[s].net)
    PROVE  Inv'
<1> USE StreamControlAssumption
<1>1. /\ snd' \in Sender /\ snd'.size_inflight = snd.size_inflight
      /\ snd'.fin_sent = snd.fin_sent /\ snd'.max_stream_data = snd.max_stream_data
      /\ snd.reset # "none" => snd'.reset # "none"
      /\ ~snd'.alive => rcv.state = "destroyed"
      /\ snd'.alive /\ snd'.blocked = "send" => snd'.linked
  <2>1. CASE s \in SenderSlots /\ snd.alive
    <3>1. snd' = SenderNotified(s, acked)
      BY <2>1 DEF Notify
    <3> QED
      BY <2>1, <3>1, SenderNotifiedFields
  <2>2. CASE ~(s \in SenderSlots /\ snd.alive)
    <3>1. snd' = snd
      BY <2>2 DEF Notify
    <3> QED
      BY <3>1 DEF Inv, TypeOK, SenderShape, Listed
  <2> QED
    BY <2>1, <2>2
<1>2. /\ rcv' \in Receiver /\ rcv'.state = rcv.state /\ rcv'.top = rcv.top
      /\ rcv'.eos = rcv.eos /\ rcv'.data_off = rcv.data_off
      /\ rcv'.max_committed = rcv.max_committed
      /\ rcv.state # "destroyed" =>
            /\ rcv'.max_acked <= snd.max_stream_data
            /\ rcv'.num_inflight = IF s \in Counted THEN rcv.num_inflight - 1
                                   ELSE rcv.num_inflight
            /\ rcv'.stop = "send" => rcv'.linked
  <2>1. CASE s \in ReceiverSlots /\ rcv.state # "destroyed"
    <3>1. rcv' = ReceiverNotified(s, acked)
      BY <2>1 DEF Notify
    <3> QED
      BY <2>1, <3>1, ReceiverNotifiedFields
  <2>2. CASE ~(s \in ReceiverSlots /\ rcv.state # "destroyed")
    <3>1. rcv' = rcv
      BY <2>2 DEF Notify
    <3>2. rcv.state # "destroyed" => s \notin Counted
      BY <2>2 DEF Counted
    <3> QED
      BY <3>1, <3>2 DEF Inv, TypeOK, ReceiverShape, Listed
  <2> QED
    BY <2>1, <2>2
<1>3. TypeOK' /\ Listed' /\ ~closed'
  BY <1>1, <1>2 DEF Inv, TypeOK, Listed
<1>4. SenderShape' /\ ReceiverShape'
  BY <1>1, <1>2 DEF Inv, SenderShape, ReceiverShape
<1>5. FrameShape'
  <2>1. \A r \in Slots : pkt'[r] = IF r = s THEN q ELSE pkt[r]
    BY DEF Inv, TypeOK
  <2> QED
    BY <1>1, <1>2, <2>1 DEF Inv, FrameShape, Slots
<1>6. MaxInflightCounted'
  <2>1. Cardinality(Counted') =
          IF s \in Counted THEN Cardinality(Counted) - 1 ELSE Cardinality(Counted)
    <3>1. s \in Counted <=> /\ s \in ReceiverSlots /\ pkt[s].map = "inflight"
                            /\ \E f \in pkt[s].frames : f.type = "MAX_STREAM_DATA"
      BY DEF Counted, Has
    <3> QED
      BY <3>1, CountedChange DEF Inv
  <2> QED
    BY <1>2, <2>1 DEF Inv, MaxInflightCounted, Counted
<1> QED
  BY <1>3, <1>4, <1>5, <1>6 DEF Inv

LEMMA OnAckInv ==
    ASSUME Inv, NEW s \in Slots, OnAck(s)
    PROVE  Inv'
<1>1. /\ Notify(s, TRUE) /\ pkt' = [pkt EXCEPT ![s] = NoPacket] /\ closed' = closed
      /\ pkt[s].net = "received"
  BY DEF OnAck
<1>2. NoPacket \in Packet /\ NoPacket.map # "inflight" /\ NoPacket.frames = {}
  BY NoPacketType DEF NoPacket
<1> QED
  BY <1>1, <1>2, NotifyStep

LEMMA DeclareLostInv ==
    ASSUME Inv, NEW s \in Slots, DeclareLost(s)
    PROVE  Inv'
<1> DEFINE q == [pkt[s] EXCEPT !.map = "lost"]
<1>1. /\ Notify(s, FALSE) /\ pkt' = [pkt EXCEPT ![s] = q] /\ closed' = closed
      /\ pkt[s].map = "inflight"
  BY DEF DeclareLost
<1>2. pkt[s] \in Packet
  BY DEF Inv, TypeOK
<1>3. q \in Packet /\ q.map = "lost" /\ q.frames = pkt[s].frames /\ q.net = pkt[s].net
  BY <1>2 DEF Packet
<1> HIDE DEF q
<1> QED
  BY <1>1, <1>3, NotifyStep

-------------------------------------------------------------------------------
(* The invariant is inductive: every handler of control frames, of          *)
(* acknowledgements and of losses keeps it.                                 *)
THEOREM Inductive == Spec => []Inv
<1>1. Inv /\ [Next]_vars => Inv'
  <2> SUFFICES ASSUME Inv, [Next]_vars PROVE Inv'
    OBVIOUS
  <2>1. CASE Shutdown
    BY <2>1, ShutdownInv
  <2>2. CASE Reset
    BY <2>2, ResetInv
  <2>3. CASE \E n \in 0 .. MaxData : SendStream(n)
    BY <2>3, SendStreamInv
  <2>4. CASE AllAcked
    BY <2>4, AllAckedInv
  <2>5. CASE \E n \in 0 .. MaxData, fin, whole \in BOOLEAN : ReceiveStream(n, fin, whole)
    BY <2>5, ReceiveStreamInv
  <2>6. CASE \E n \in 1 .. MaxData : Consume(n)
    BY <2>6, ConsumeInv
  <2>7. CASE RequestStop
    BY <2>7, RequestStopInv
  <2>8. CASE \E s \in SenderSlots : SendSenderControl(s)
    BY <2>8, SendSenderControlInv
  <2>9. CASE \E s \in ReceiverSlots : SendReceiverControl(s)
    BY <2>9, SendReceiverControlInv
  <2>10. CASE \E s \in Slots : Lose(s)
    BY <2>10, LoseInv
  <2>11. CASE \E s \in SenderSlots : ReceiveSenderControl(s)
    BY <2>11, ReceiveSenderControlInv
  <2>12. CASE \E s \in ReceiverSlots : ReceiveReceiverControl(s)
    BY <2>12, ReceiveReceiverControlInv
  <2>13. CASE \E s \in Slots : OnAck(s)
    BY <2>13, OnAckInv
  <2>14. CASE \E s \in Slots : DeclareLost(s)
    BY <2>14, DeclareLostInv
  <2>15. CASE \E s \in Slots : Expire(s)
    BY <2>15, ExpireInv
  <2>16. CASE UNCHANGED vars
    BY <2>16 DEF vars, Inv, TypeOK, SenderShape, ReceiverShape, FrameShape, Listed,
                 MaxInflightCounted, Has
  <2> QED
    BY <2>1, <2>2, <2>3, <2>4, <2>5, <2>6, <2>7, <2>8, <2>9, <2>10, <2>11, <2>12, <2>13,
       <2>14, <2>15, <2>16 DEF Next
<1> QED
  BY <1>1, InitInv, PTL DEF Spec

(* Every variable keeps its type; in particular num_inflight never becomes  *)
(* negative (the assertions at maxsender.h:120 and :129).                   *)
THEOREM TypeCorrect == Spec => []TypeOK
<1>1. Inv => TypeOK
  BY DEF Inv
<1> QED
  BY <1>1, Inductive, PTL

(* However late STREAM and RESET_STREAM frames are, the receiver never      *)
(* closes the connection with FLOW_CONTROL_ERROR or FINAL_SIZE_ERROR.       *)
THEOREM NobodyIsAccused == Spec => []NoFalseAccusation
<1>1. Inv => NoFalseAccusation
  BY DEF Inv, NoFalseAccusation
<1> QED
  BY <1>1, Inductive, PTL

(* quicly_maxsender_t counts the MAX_STREAM_DATA frames that are in flight, *)
(* whichever are lost and acknowledged late.                                *)
THEOREM InflightIsCounted == Spec => []MaxInflightCounted
<1>1. Inv => MaxInflightCounted
  BY DEF Inv
<1> QED
  BY <1>1, Inductive, PTL

(* The limit the receiver believes acknowledged is known to the sender, the *)
(* sender's was announced, and what is sent stays within it.                *)
THEOREM LimitsAlwaysAgree == Spec => []LimitsAgree
<1>1. Inv => LimitsAgree
  BY DEF Inv, SenderShape, ReceiverShape, LimitsAgree
<1> QED
  BY <1>1, Inductive, PTL

(* A STREAM_DATA_BLOCKED or STOP_SENDING frame that is to be sent is on the *)
(* list of streams with control frames.                                     *)
THEOREM PendingIsAlwaysListed == Spec => []PendingIsListed
<1>1. Inv => PendingIsListed
  BY DEF Inv, Listed, PendingIsListed
<1> QED
  BY <1>1, Inductive, PTL

===============================================================================
