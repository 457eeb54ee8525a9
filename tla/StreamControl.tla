---------------------------- MODULE StreamControl ----------------------------
(***************************************************************************)
(* The control frames of one unidirectional stream: RESET_STREAM and       *)
(* STREAM_DATA_BLOCKED of the sending endpoint, STOP_SENDING and           *)
(* MAX_STREAM_DATA of the receiving one, the lists of streams that have    *)
(* such frames to send (pending_link.control), the stream's flow control   *)
(* and its destruction.  On a bidirectional stream an endpoint plays both  *)
(* roles; nothing here depends on the other direction, except that its     *)
(* frames would share the list.                                            *)
(*                                                                         *)
(* STREAM frames are delivered in any order and more than once; their      *)
(* retransmission is the subject of module Stream, from which this module  *)
(* only takes that what was sent is received in the end unless the stream  *)
(* is reset.  The application has MaxData bytes to write and writes them   *)
(* when it opens the stream.                                               *)
(***************************************************************************)
EXTENDS Integers, FiniteSets

CONSTANTS MaxData,        \* bound: bytes the application writes
          Window,         \* _recv_aux.window, in bytes
          SenderSlots,    \* bound: control packets of the sender at one time
          ReceiverSlots,  \* bound: control packets of the receiver
          Endings         \* how the applications may end the stream

ASSUME StreamControlAssumption ==
    /\ MaxData \in Nat /\ Window \in Nat \ {0}
    /\ SenderSlots \cap ReceiverSlots = {} /\ IsFiniteSet(ReceiverSlots)
    /\ Endings \subseteq {"shutdown", "reset", "stop"}

VARIABLES
    snd,    \* the sending endpoint's stream
    rcv,    \* the receiving endpoint's stream
    pkt,    \* sentmap entries and datagrams that carry control frames
    closed  \* the connection has failed

vars  == <<snd, rcv, pkt, closed>>
Slots == SenderSlots \cup ReceiverSlots

SenderState == {"none", "send", "unacked", "acked"}  \* quicly_sender_state_t

Sender ==
    [alive : BOOLEAN,             \* the stream exists
     size_inflight : 0 .. MaxData, shut : BOOLEAN, fin_sent : BOOLEAN,
     max_stream_data : Nat, blocked : SenderState, reset : SenderState,
     linked : BOOLEAN]            \* in pending_streams.control

Receiver ==
    [state : {"unopened", "open", "destroyed"},
     top : 0 .. MaxData,          \* end of the last received range
     eos : BOOLEAN,               \* the final size is known
     data_off : 0 .. MaxData,
     max_committed : Nat, max_acked : Nat, num_inflight : Nat, force_send : BOOLEAN,
     stop : SenderState, linked : BOOLEAN]

Frame == [type : {"RESET_STREAM", "STREAM_DATA_BLOCKED", "STOP_SENDING", "MAX_STREAM_DATA"},
          val : Nat]

Packet == [map : {"inflight", "lost", "gone"}, net : {"transit", "received", "none"},
           frames : SUBSET Frame]

NoPacket == [map |-> "gone", net |-> "none", frames |-> {}]

(* A slot is free again when neither the sentmap nor the network has it. *)
Settle(p) == IF p.map = "gone" /\ p.net # "transit" THEN NoPacket ELSE p

Record(fs) == [map |-> "inflight", net |-> "transit", frames |-> fs]

-------------------------------------------------------------------------------
(* The sending endpoint. *)

(* resched_stream_data: the scheduler asks quicly_stream_can_send, which    *)
(* schedules STREAM_DATA_BLOCKED when there is data beyond the limit.       *)
Resched(a) ==
    IF /\ a.size_inflight < MaxData /\ a.size_inflight >= a.max_stream_data
       /\ a.blocked = "none"
      THEN [a EXCEPT !.blocked = "send", !.linked = TRUE]
      ELSE a

(* quicly_reset_stream *)
ResetStream(a) == [a EXCEPT !.reset = "send", !.linked = TRUE]

Destroyed(a) == [a EXCEPT !.alive = FALSE, !.linked = FALSE]

(* quicly_streambuf_egress_shutdown, then sync_sendbuf *)
Shutdown ==
    /\ "shutdown" \in Endings
    /\ ~closed /\ snd.alive /\ snd.reset = "none" /\ ~snd.shut
    /\ snd' = Resched([snd EXCEPT !.shut = TRUE])
    /\ UNCHANGED <<rcv, pkt, closed>>

(* the application resets the stream; its precondition is asserted *)
Reset ==
    /\ "reset" \in Endings
    /\ ~closed /\ snd.alive /\ snd.reset = "none"
    /\ snd' = ResetStream(snd)
    /\ UNCHANGED <<rcv, pkt, closed>>

(* Mutant: the cap by max_stream_data is dropped. *)
StreamLimitIgnored(a) == MaxData

StreamLimit(a) == IF a.max_stream_data < MaxData THEN a.max_stream_data ELSE MaxData

(* quicly_send_stream up to offset n, then the scheduler's update *)
SendStream(n) ==
    /\ ~closed /\ snd.alive /\ snd.reset = "none"
    /\ \/ n > snd.size_inflight /\ n <= StreamLimit(snd)
       \/ n = snd.size_inflight /\ n = MaxData /\ snd.shut /\ ~snd.fin_sent
    /\ snd' = Resched([snd EXCEPT !.size_inflight = n,
                                  !.fin_sent = snd.shut /\ n = MaxData])
    /\ UNCHANGED <<rcv, pkt, closed>>

(* the frames send_control_frames_of_stream has for the sending side *)
SenderFrames ==
    (IF snd.reset = "send"
       THEN {[type |-> "RESET_STREAM", val |-> snd.size_inflight]} ELSE {})
    \cup
    (IF snd.blocked = "send"
       THEN {[type |-> "STREAM_DATA_BLOCKED", val |-> snd.max_stream_data]} ELSE {})

(* A list of frames may be cut short by a full packet; RESET_STREAM comes   *)
(* first, and the stream stays listed when something could not be sent.     *)
SendSenderControl(s) ==
    /\ ~closed /\ snd.linked /\ pkt[s] = NoPacket
    /\ \E fs \in SUBSET SenderFrames :
         /\ \A f \in SenderFrames \ fs : f.type = "STREAM_DATA_BLOCKED"
         /\ fs = {} => SenderFrames = {}
         /\ LET sent(t) == \E f \in fs : f.type = t
            IN  snd' = [snd EXCEPT !.reset   = IF sent("RESET_STREAM") THEN "unacked" ELSE @,
                                   !.blocked = IF sent("STREAM_DATA_BLOCKED") THEN "unacked" ELSE @,
                                   !.linked  = fs # SenderFrames]
         /\ pkt' = IF fs = {} THEN pkt ELSE [pkt EXCEPT ![s] = Record(fs)]
    /\ UNCHANGED <<rcv, closed>>

(* all of the stream is acknowledged: on_ack_stream_ack_one destroys it *)
AllAcked ==
    /\ ~closed /\ snd.alive /\ snd.reset = "none"
    /\ snd.fin_sent /\ rcv.eos /\ rcv.state = "destroyed"
    /\ snd' = Destroyed(snd)
    /\ UNCHANGED <<rcv, pkt, closed>>

-------------------------------------------------------------------------------
(* The receiving endpoint. *)

(* Mutant: when nothing is in flight the value committed last counts. *)
ShouldSendMaxFromCommitted(b) ==
    ~b.eos /\ (b.force_send \/ b.max_committed <= b.data_off + (Window * 512) \div 1024)

(* should_send_max_stream_data, quicly_maxsender_should_send_max *)
ShouldSendMax(b) ==
    /\ ~b.eos
    /\ \/ b.force_send
       \/ (IF b.num_inflight # 0 THEN b.max_committed ELSE b.max_acked)
            <= b.data_off + (Window * 512) \div 1024

Sched(b) == IF ShouldSendMax(b) THEN [b EXCEPT !.linked = TRUE] ELSE b

(* open_stream, by the first frame of the stream *)
Opened(b) == IF b.state = "unopened" THEN [b EXCEPT !.state = "open"] ELSE b

Finished(b) == [b EXCEPT !.state = "destroyed", !.linked = FALSE]

(* apply_stream_frame for a frame that ends at offset n, with the end of    *)
(* stream if fin; whole says that no gap is left.  The stream is destroyed  *)
(* when all of it has been received.                                        *)
ReceiveStream(n, fin, whole) ==
    /\ ~closed /\ rcv.state # "destroyed"
    /\ snd.size_inflight >= n
    /\ fin => snd.fin_sent /\ n = MaxData
    /\ n > 0 \/ fin
    /\ LET b == Opened(rcv)
           r == [b EXCEPT !.top = IF n > @ THEN n ELSE @, !.eos = @ \/ fin]
           refused == n - b.data_off > Window
       IN  /\ whole => r.eos /\ r.top = MaxData
           /\ closed' = refused
           /\ rcv' = IF refused THEN b ELSE IF whole THEN Finished(r) ELSE Sched(r)
    /\ UNCHANGED <<snd, pkt>>

(* quicly_stream_sync_recvbuf: the application has taken the data up to n *)
Consume(n) ==
    /\ ~closed /\ rcv.state = "open"
    /\ n > rcv.data_off /\ n <= rcv.top
    /\ rcv' = Sched([rcv EXCEPT !.data_off = n])
    /\ UNCHANGED <<snd, pkt, closed>>

(* quicly_request_stop *)
RequestStop ==
    /\ "stop" \in Endings
    /\ ~closed /\ rcv.state = "open"
    /\ ~rcv.eos /\ rcv.stop = "none"
    /\ rcv' = [rcv EXCEPT !.stop = "send", !.linked = TRUE]
    /\ UNCHANGED <<snd, pkt, closed>>

ReceiverFrames ==
    (IF rcv.stop = "send" THEN {[type |-> "STOP_SENDING", val |-> 0]} ELSE {})
    \cup
    (IF ShouldSendMax(rcv)
       THEN {[type |-> "MAX_STREAM_DATA", val |-> rcv.data_off + Window]} ELSE {})

(* Mutant: the value sent is taken for one that was acknowledged. *)
MaxRecordedAsAcked(b) ==
    [b EXCEPT !.max_committed = b.data_off + Window, !.force_send = FALSE,
              !.num_inflight = @ + 1, !.max_acked = b.data_off + Window]

(* quicly_maxsender_record *)
MaxRecorded(b) ==
    [b EXCEPT !.max_committed = b.data_off + Window, !.force_send = FALSE,
              !.num_inflight = @ + 1]

(* send_control_frames_of_stream: STOP_SENDING first, then MAX_STREAM_DATA *)
SendReceiverControl(s) ==
    /\ ~closed /\ rcv.linked /\ pkt[s] = NoPacket
    /\ \E fs \in SUBSET ReceiverFrames :
         /\ \A f \in ReceiverFrames \ fs : f.type = "MAX_STREAM_DATA"
         /\ fs = {} => ReceiverFrames = {}
         /\ LET sent(t) == \E f \in fs : f.type = t
                b == IF sent("MAX_STREAM_DATA") THEN MaxRecorded(rcv) ELSE rcv
            IN  rcv' = [b EXCEPT !.stop   = IF sent("STOP_SENDING") THEN "unacked" ELSE @,
                                 !.linked = fs # ReceiverFrames]
         /\ pkt' = IF fs = {} THEN pkt ELSE [pkt EXCEPT ![s] = Record(fs)]
    /\ UNCHANGED <<snd, closed>>

-------------------------------------------------------------------------------
(* Control frames arrive. *)

Has(s, t) == \E f \in pkt[s].frames : f.type = t
Val(s, t) == (CHOOSE f \in pkt[s].frames : f.type = t).val

Lose(s) ==
    /\ ~closed /\ pkt[s].net = "transit"
    /\ pkt' = [pkt EXCEPT ![s] = Settle([@ EXCEPT !.net = "none"])]
    /\ UNCHANGED <<snd, rcv, closed>>

Arrived(s) == pkt' = [pkt EXCEPT ![s] = Settle([@ EXCEPT !.net = "received"])]

(* handle_reset_stream_frame and quicly_recvstate_reset: the errors *)
ResetRefused(b, final) ==
    final > b.data_off + Window \/ (b.eos /\ final # MaxData) \/ final < b.top

(* handle_stream_data_blocked_frame, quicly_maxsender_request_transmit; it  *)
(* does not open a stream                                                   *)
BlockedReceived(b) ==
    IF b.state = "open" THEN Sched([b EXCEPT !.force_send = TRUE]) ELSE b

(* The frames of a packet are handled in turn.  The receive side of the     *)
(* stream is complete after a reset, so that the stream is destroyed.       *)
ReceiveSenderControl(s) ==
    /\ ~closed /\ pkt[s].net = "transit"
    /\ LET reset == Has(s, "RESET_STREAM") /\ rcv.state # "destroyed"
           b     == IF reset THEN Opened(rcv) ELSE rcv
       IN  /\ closed' = (reset /\ ResetRefused(b, Val(s, "RESET_STREAM")))
           /\ rcv' = IF closed' THEN b
                     ELSE IF reset THEN Finished(b)
                     ELSE IF Has(s, "STREAM_DATA_BLOCKED") THEN BlockedReceived(b)
                     ELSE b
    /\ Arrived(s)
    /\ UNCHANGED snd

(* handle_stop_sending_frame: a stream still open for sending is reset *)
StopReceived(a) == IF ~a.shut /\ a.reset = "none" THEN ResetStream(a) ELSE a

(* handle_max_stream_data_frame: a limit that is not larger is ignored *)
LimitReceived(a, v) ==
    LET raised == [a EXCEPT !.max_stream_data = v, !.blocked = "none"]
    IN  IF v <= a.max_stream_data THEN a
        ELSE IF a.reset = "none" THEN Resched(raised) ELSE raised

ReceiveReceiverControl(s) ==
    /\ ~closed /\ pkt[s].net = "transit"
    /\ LET a == IF Has(s, "STOP_SENDING") THEN StopReceived(snd) ELSE snd
       IN  snd' = IF ~snd.alive THEN snd
                  ELSE IF Has(s, "MAX_STREAM_DATA") THEN LimitReceived(a, Val(s, "MAX_STREAM_DATA"))
                  ELSE a
    /\ Arrived(s)
    /\ UNCHANGED <<rcv, closed>>

-------------------------------------------------------------------------------
(* Acknowledgements and losses: quicly_sentmap_update notifies the frames   *)
(* of a packet when it is acknowledged, and when it is first declared lost  *)
(* (or marked by a PTO).                                                    *)

(* on_ack_reset_stream; an acknowledged reset destroys the stream, the loss *)
(* of one changes the state of the frame and nothing else                   *)
ResetNotified(a, acked) ==
    IF acked THEN Destroyed([a EXCEPT !.reset = "acked"]) ELSE [a EXCEPT !.reset = "send"]

(* Mutant: a lost STREAM_DATA_BLOCKED is not put back on the list. *)
BlockedNotifiedUnlisted(a, v, acked) ==
    IF v # a.max_stream_data THEN a
    ELSE IF acked THEN [a EXCEPT !.blocked = "acked"]
    ELSE IF a.blocked = "unacked" THEN [a EXCEPT !.blocked = "send"] ELSE a

(* on_ack_stream_data_blocked_frame: news of an older limit is ignored *)
BlockedNotified(a, v, acked) ==
    IF v # a.max_stream_data THEN a
    ELSE IF acked THEN [a EXCEPT !.blocked = "acked"]
    ELSE IF a.blocked = "unacked" THEN [a EXCEPT !.blocked = "send", !.linked = TRUE] ELSE a

(* what the frames of packet s, in the order they were written, make of the *)
(* sender                                                                   *)
SenderNotified(s, acked) ==
    LET a == IF Has(s, "RESET_STREAM") THEN ResetNotified(snd, acked) ELSE snd
    IN  IF a.alive /\ Has(s, "STREAM_DATA_BLOCKED")
          THEN BlockedNotified(a, Val(s, "STREAM_DATA_BLOCKED"), acked) ELSE a

(* on_ack_stop_sending *)
StopNotified(b, acked) ==
    IF acked THEN [b EXCEPT !.stop = "acked"] ELSE [b EXCEPT !.stop = "send", !.linked = TRUE]

(* Mutant: a late ACK, after the loss was counted, is counted again. *)
MaxAckedLate(b, v, inflight) ==
    [b EXCEPT !.max_acked = IF v > @ THEN v ELSE @, !.num_inflight = @ - 1]

(* quicly_maxsender_acked: inflight is sent->inflight *)
MaxAcked(b, v, inflight) ==
    [b EXCEPT !.max_acked = IF v > @ THEN v ELSE @,
              !.num_inflight = IF inflight THEN @ - 1 ELSE @]

(* quicly_maxsender_lost *)
MaxLost(b) == [b EXCEPT !.num_inflight = @ - 1]

(* on_ack_max_stream_data *)
MaxNotified(b, v, inflight, acked) ==
    IF acked THEN MaxAcked(b, v, inflight) ELSE Sched(MaxLost(b))

ReceiverNotified(s, acked) ==
    LET b == IF Has(s, "STOP_SENDING") THEN StopNotified(rcv, acked) ELSE rcv
    IN  IF Has(s, "MAX_STREAM_DATA")
          THEN MaxNotified(b, Val(s, "MAX_STREAM_DATA"), pkt[s].map = "inflight", acked) ELSE b

(* the frames of packet s are notified, if the stream still exists *)
Notify(s, acked) ==
    /\ snd' = IF s \in SenderSlots /\ snd.alive THEN SenderNotified(s, acked) ELSE snd
    /\ rcv' = IF s \in ReceiverSlots /\ rcv.state # "destroyed" THEN ReceiverNotified(s, acked) ELSE rcv

OnAck(s) ==
    /\ ~closed /\ pkt[s].map # "gone" /\ pkt[s].net = "received"
    /\ Notify(s, TRUE)
    /\ pkt' = [pkt EXCEPT ![s] = NoPacket]
    /\ UNCHANGED closed

DeclareLost(s) ==
    /\ ~closed /\ pkt[s].map = "inflight"
    /\ Notify(s, FALSE)
    /\ pkt' = [pkt EXCEPT ![s].map = "lost"]
    /\ UNCHANGED closed

(* the entry of a lost packet is discarded; its frames are not notified *)
Expire(s) ==
    /\ ~closed /\ pkt[s].map = "lost"
    /\ pkt' = [pkt EXCEPT ![s] = Settle([@ EXCEPT !.map = "gone"])]
    /\ UNCHANGED <<snd, rcv, closed>>

-------------------------------------------------------------------------------
Init ==
    /\ snd = Resched([alive |-> TRUE, size_inflight |-> 0, shut |-> FALSE,
                      fin_sent |-> FALSE, max_stream_data |-> Window,
                      blocked |-> "none", reset |-> "none", linked |-> FALSE])
    /\ rcv = [state |-> "unopened", top |-> 0, eos |-> FALSE, data_off |-> 0,
              max_committed |-> Window, max_acked |-> Window, num_inflight |-> 0,
              force_send |-> FALSE, stop |-> "none", linked |-> FALSE]
    /\ pkt = [s \in Slots |-> NoPacket]
    /\ closed = FALSE

Next ==
    \/ Shutdown
    \/ Reset
    \/ \E n \in 0 .. MaxData : SendStream(n)
    \/ AllAcked
    \/ \E n \in 0 .. MaxData, fin, whole \in BOOLEAN : ReceiveStream(n, fin, whole)
    \/ \E n \in 1 .. MaxData : Consume(n)
    \/ RequestStop
    \/ \E s \in SenderSlots : SendSenderControl(s)
    \/ \E s \in ReceiverSlots : SendReceiverControl(s)
    \/ \E s \in Slots : Lose(s)
    \/ \E s \in SenderSlots : ReceiveSenderControl(s)
    \/ \E s \in ReceiverSlots : ReceiveReceiverControl(s)
    \/ \E s \in Slots : OnAck(s)
    \/ \E s \in Slots : DeclareLost(s)
    \/ \E s \in Slots : Expire(s)

Spec == Init /\ [][Next]_vars

(* The send loops run while they have something to send (a slot is free in  *)
(* the end, for entries expire), the receiving application reads, data that *)
(* was sent arrives unless the stream is reset (module Stream), the loss    *)
(* timer fires, no datagram travels for ever, and a frame that is sent      *)
(* again and again gets through while its sentmap entry is kept (four PTOs, *)
(* loss.c:24-52).  Acknowledgements need not get through.                   *)
Kept(s, t) == pkt[s].map # "gone" /\ Has(s, t)

Fairness ==
    /\ WF_vars(\E n \in 0 .. MaxData : SendStream(n))
    /\ WF_vars(ReceiveStream(snd.size_inflight, FALSE, FALSE))
    /\ WF_vars(Consume(rcv.top))
    /\ WF_vars(\E s \in SenderSlots : SendSenderControl(s))
    /\ WF_vars(\E s \in ReceiverSlots : SendReceiverControl(s))
    /\ \A s \in Slots : WF_vars(DeclareLost(s) \/ Expire(s) \/ Lose(s))
    /\ SF_vars(\E s \in SenderSlots :
                   Kept(s, "STREAM_DATA_BLOCKED") /\ ReceiveSenderControl(s))
    /\ SF_vars(\E s \in ReceiverSlots :
                   Kept(s, "MAX_STREAM_DATA") /\ ReceiveReceiverControl(s))

FairSpec == Spec /\ Fairness

-------------------------------------------------------------------------------
(* Every variable has its type. *)
TypeOK ==
    /\ snd \in Sender /\ rcv \in Receiver
    /\ pkt \in [Slots -> Packet] /\ closed \in BOOLEAN

(* Two endpoints that follow the code never accuse each other: no STREAM or *)
(* RESET_STREAM frame, however late, is answered with FLOW_CONTROL_ERROR or *)
(* FINAL_SIZE_ERROR (quicly.c:2346, :6220, recvstate.c:99-102).             *)
NoFalseAccusation == ~closed

(* num_inflight is the number of MAX_STREAM_DATA frames that the sentmap    *)
(* will report on, so that it is not 0 when one of them is acknowledged or  *)
(* lost (the assertions at maxsender.h:120 and :129).                       *)
MaxInflightCounted ==
    rcv.state # "destroyed" =>
        rcv.num_inflight =
            Cardinality({s \in ReceiverSlots : pkt[s].map = "inflight" /\ Has(s, "MAX_STREAM_DATA")})

(* The two views of the limit agree: what the receiver takes for known to   *)
(* the sender is known to it, what the sender may use was announced, and    *)
(* the sender stays within it (maxsender.h:92-121, quicly.c:4507-4509).     *)
LimitsAgree ==
    /\ rcv.state # "destroyed" => rcv.max_acked <= snd.max_stream_data
    /\ snd.max_stream_data <= rcv.max_committed
    /\ snd.size_inflight <= snd.max_stream_data

(* A STREAM_DATA_BLOCKED or STOP_SENDING frame that is to be sent is always *)
(* on the list send_stream_control_frames works through.                    *)
PendingIsListed ==
    /\ snd.alive /\ snd.blocked = "send" => snd.linked
    /\ rcv.state = "open" /\ rcv.stop = "send" => rcv.linked

(* The same for every control frame of the stream, RESET_STREAM included:   *)
(* the list is documented as the "list of streams with pending control data *)
(* (e.g., RESET_STREAM)" (quicly.c:405-407).                                *)
PendingControlIsListed ==
    /\ PendingIsListed
    /\ snd.alive /\ snd.reset = "send" => snd.linked

(* Flow control never blocks a stream for good: whatever limits and         *)
(* blocked-notices are lost, everything is sent in the end unless the       *)
(* stream is reset.                                                         *)
FlowControlProgress == <>(snd.size_inflight = MaxData \/ snd.reset # "none")
===============================================================================
