----------------------------- MODULE StreamProofs -----------------------------
(***************************************************************************)
(* Proofs that the stream machinery of module Stream keeps its invariants  *)
(* and implements ReliableStream, for any number of packets, any amount of *)
(* data and any state limits.                                              *)
(***************************************************************************)
EXTENDS Stream, TLAPS, WellFoundedInduction, SequenceTheorems

(* Offsets of data the receiver has, whether or not the ranges were cleared *)
(* when the transfer completed.                                             *)
Got == IF recv_done THEN 0 .. eos - 1 ELSE received

(* How pending relates to what has been sent and written. *)
PendingShape ==
    /\ size_inflight <= written
    /\ IsOpen => \/ size_inflight < written /\ size_inflight .. UINT64_MAX - 1 \subseteq pending
                 \/ size_inflight = written /\ pending \subseteq 0 .. size_inflight - 1
    /\ ~IsOpen => /\ final_size = written
                  /\ pending \subseteq 0 .. final_size
                  /\ size_inflight .. final_size - 1 \subseteq pending

(* A packet carries bytes that have been sent, read from their own place in *)
(* the send buffer, and FIN only at the final size; if it has been received *)
(* then so have its bytes, and its FIN.                                     *)
PacketShape ==
    \A s \in Slots :
        /\ pkt[s].src = pkt[s].off
        /\ pkt[s].off + pkt[s].len <= size_inflight
        /\ pkt[s].fin => pkt[s].off + pkt[s].len = final_size
        /\ pkt[s].net = "received" =>
              /\ pkt[s].off .. pkt[s].off + pkt[s].len - 1 \subseteq Got
              /\ pkt[s].fin => eos = final_size

(* What is acknowledged has been received; it is disjoint from pending. *)
AckedShape ==
    /\ acked \cap pending = {}
    /\ \A x \in acked : \/ x \in Got
                        \/ x = final_size /\ eos = final_size
    /\ shifted <= SentUpto(acked)
    /\ ~closed => shifted = SentUpto(acked)

(* The receiver's state. *)
ReceiverShape ==
    /\ eos # UINT64_MAX => eos = final_size /\ eos <= size_inflight
    /\ received \subseteq 0 .. size_inflight - 1
    /\ recv_done => eos # UINT64_MAX
    /\ ~closed /\ eos # UINT64_MAX /\ 0 .. eos - 1 \subseteq received => recv_done
    /\ data_off <= Contiguous
    /\ ~closed => \A x \in Got : rbuf[x] = x
    /\ out = [i \in 1 .. data_off |-> i - 1]

IInv == /\ TypeOK
        /\ PendingShape
        /\ PacketShape
        /\ AckedShape
        /\ ReceiverShape
        /\ NothingForgotten

-------------------------------------------------------------------------------
(* The first gap of a set of offsets exists, and is unique. *)
LEMMA FirstEndProp ==
    ASSUME NEW S, S \subseteq Offsets
    PROVE  /\ FirstEnd(S) \in 0 .. UINT64_MAX
           /\ FirstEnd(S) \notin S
           /\ \A m \in 0 .. FirstEnd(S) - 1 : m \in S
<1> DEFINE T == {n \in Nat : n \notin S}
<1>1. UINT64_MAX \in T
    BY ConstantsAssumption DEF UINT64_MAX, Offsets
<1>2. PICK n \in T : \A y \in T : ~(<<y, n>> \in OpToRel(<, Nat))
    BY <1>1, NatLessThanWellFounded, WFMin, Zenon
<1>3. \A m \in 0 .. n - 1 : m \in S
    <2>1. \A x, y \in Nat : y < x => <<y, x>> \in OpToRel(<, Nat)
        BY DEF OpToRel
    <2>2. \A y \in T : ~(y < n)
        BY <1>2, <2>1
    <2> QED
        BY <2>2
<1>4. n \in 0 .. UINT64_MAX
    BY <1>1, <1>3, ConstantsAssumption DEF UINT64_MAX, Offsets
<1>5. \E k \in 0 .. UINT64_MAX : k \notin S /\ \A m \in 0 .. k - 1 : m \in S
    BY <1>3, <1>4
<1> QED
    BY <1>5 DEF FirstEnd

LEMMA FirstEndUnique ==
    ASSUME NEW S, S \subseteq Offsets, NEW n \in Nat,
           n \notin S, \A m \in 0 .. n - 1 : m \in S
    PROVE  n = FirstEnd(S)
    BY FirstEndProp, ConstantsAssumption DEF UINT64_MAX

LEMMA FirstEndMonotone ==
    ASSUME NEW S, NEW T, S \subseteq T, T \subseteq Offsets
    PROVE  FirstEnd(S) <= FirstEnd(T)
<1>1. S \subseteq Offsets
    OBVIOUS
<1> QED
    BY <1>1, FirstEndProp, ConstantsAssumption DEF UINT64_MAX

-------------------------------------------------------------------------------
(* Facts about the sender's state that several steps use. *)
LEMMA AckedBounds ==
    ASSUME IInv
    PROVE  /\ FirstEnd(acked) \in 0 .. UINT64_MAX
           /\ \A m \in 0 .. FirstEnd(acked) - 1 : m \in acked
           /\ FirstEnd(acked) \notin acked
           /\ \A x \in acked : x < written \/ (x = final_size /\ ~IsOpen)
           /\ IsOpen => FirstEnd(acked) <= written
           /\ ~IsOpen => FirstEnd(acked) <= written + 1
           /\ SentUpto(acked) \in 0 .. written
<1>1. acked \subseteq Offsets
    BY DEF IInv, TypeOK
<1>2. \A x \in Got : x \in 0 .. written - 1
    BY ConstantsAssumption
    DEF IInv, TypeOK, PendingShape, ReceiverShape, Got, IsOpen, UINT64_MAX, DataOffs
<1>3. \A x \in acked : x < written \/ (x = final_size /\ ~IsOpen)
    BY <1>1, <1>2, ConstantsAssumption
    DEF IInv, AckedShape, TypeOK, IsOpen, Offsets, UINT64_MAX
<1>4. /\ FirstEnd(acked) \in 0 .. UINT64_MAX
      /\ \A m \in 0 .. FirstEnd(acked) - 1 : m \in acked
      /\ FirstEnd(acked) \notin acked
    BY <1>1, FirstEndProp
<1>5. written \in 0 .. MaxData /\ (~IsOpen => final_size = written)
    BY DEF IInv, TypeOK, PendingShape
<1>6. IsOpen => FirstEnd(acked) <= written
    <2> SUFFICES ASSUME IsOpen, FirstEnd(acked) > written PROVE FALSE
        BY <1>4, <1>5, ConstantsAssumption DEF UINT64_MAX
    <2>1. written \in acked
        BY <1>4, <1>5
    <2> QED
        BY <2>1, <1>3, <1>5
<1>7. ~IsOpen => FirstEnd(acked) <= written + 1
    <2> SUFFICES ASSUME ~IsOpen, FirstEnd(acked) > written + 1 PROVE FALSE
        BY <1>4, <1>5, ConstantsAssumption DEF UINT64_MAX
    <2>1. written + 1 \in acked
        BY <1>4, <1>5
    <2> QED
        BY <2>1, <1>3, <1>5
<1>8. SentUpto(acked) \in 0 .. written
    BY <1>4, <1>5, <1>6, <1>7, ConstantsAssumption DEF SentUpto, IsOpen, UINT64_MAX
<1> QED
    BY <1>3, <1>4, <1>6, <1>7, <1>8

(* What has been received without a gap is a prefix of Got. *)
LEMMA ContiguousBounds ==
    ASSUME IInv
    PROVE  /\ Contiguous \in 0 .. written
           /\ \A x \in 0 .. Contiguous - 1 : x \in Got
           /\ \A n \in Nat : 0 .. n - 1 \subseteq Got => n <= Contiguous
<1>1. CASE recv_done
    BY <1>1, ConstantsAssumption
    DEF IInv, TypeOK, PendingShape, ReceiverShape, Got, Contiguous, IsOpen, UINT64_MAX
<1>2. CASE ~recv_done
    <2>1. /\ received \subseteq Offsets
          /\ \A x \in received : x \in 0 .. written - 1
          /\ written \in Nat
        BY ConstantsAssumption
        DEF IInv, TypeOK, PendingShape, ReceiverShape, DataOffs, Offsets, UINT64_MAX
    <2>2. /\ FirstEnd(received) \in 0 .. UINT64_MAX
          /\ FirstEnd(received) \notin received
          /\ \A m \in 0 .. FirstEnd(received) - 1 : m \in received
        BY <2>1, FirstEndProp
    <2>3. FirstEnd(received) <= written
        <3> SUFFICES ASSUME FirstEnd(received) > written PROVE FALSE
            BY <2>1, <2>2, ConstantsAssumption DEF UINT64_MAX
        <3>1. written \in received
            BY <2>1, <2>2
        <3> QED
            BY <2>1, <3>1
    <2>4. \A n \in Nat : 0 .. n - 1 \subseteq received => n <= FirstEnd(received)
        <3> SUFFICES ASSUME NEW n \in Nat, 0 .. n - 1 \subseteq received,
                            n > FirstEnd(received)
                     PROVE  FALSE
            BY <2>2, ConstantsAssumption DEF UINT64_MAX
        <3> QED
            BY <2>2, ConstantsAssumption DEF UINT64_MAX
    <2> QED
        BY <1>2, <2>1, <2>2, <2>3, <2>4, ConstantsAssumption DEF Got, Contiguous, UINT64_MAX
<1> QED
    BY <1>1, <1>2 DEF IInv, TypeOK
-------------------------------------------------------------------------------
(* One lemma per action: it preserves the inductive invariant. *)

LEMMA InitIInv == Init => IInv
<1> SUFFICES ASSUME Init PROVE IInv
    OBVIOUS
<1>1. FirstEnd({}) = 0
    BY FirstEndUnique DEF Offsets
<1>2. TypeOK
    <2>1. pkt \in [Slots -> Packet]
        BY ConstantsAssumption DEF Init, Packet, NoPacket
    <2>2. rbuf \in [DataOffs -> Int] /\ out \in Seq(Int)
        BY ConstantsAssumption DEF Init, NoByte
    <2>3. /\ acked \subseteq Offsets /\ pending \subseteq Offsets
          /\ received \subseteq DataOffs
        BY DEF Init
    <2>4. /\ size_inflight \in 0 .. MaxData
          /\ final_size \in 0 .. MaxData \cup {UINT64_MAX}
          /\ eos \in 0 .. MaxData \cup {UINT64_MAX}
          /\ written \in 0 .. MaxData /\ shifted \in 0 .. MaxData
          /\ data_off \in 0 .. MaxData
        BY ConstantsAssumption DEF Init
    <2>5. recv_done \in BOOLEAN /\ closed \in BOOLEAN
        BY DEF Init
    <2> QED
        BY <2>1, <2>2, <2>3, <2>4, <2>5 DEF TypeOK
<1>3. PendingShape /\ NothingForgotten
    BY ConstantsAssumption DEF Init, PendingShape, NothingForgotten, IsOpen, UINT64_MAX
<1>4. PacketShape
    BY ConstantsAssumption DEF Init, PacketShape, NoPacket, UINT64_MAX
<1>5. AckedShape
    BY <1>1, ConstantsAssumption DEF Init, AckedShape, SentUpto, UINT64_MAX
<1>6. ReceiverShape
    BY <1>1, ConstantsAssumption DEF Init, ReceiverShape, Contiguous, Got, UINT64_MAX, DataOffs
<1> QED
    BY <1>2, <1>3, <1>4, <1>5, <1>6 DEF IInv

(* Writing or shutting down: the receiver, the packets and what is acked    *)
(* stay; pending grows to cover what the application has added.             *)
LEMMA WriteIInv ==
    ASSUME IInv, NEW n \in 1 .. MaxData, Write(n)
    PROVE  IInv'
<1> USE ConstantsAssumption DEF UINT64_MAX
<1>1. /\ written' = written + n /\ written' \in 0 .. MaxData
      /\ final_size' = final_size /\ final_size = UINT64_MAX
      /\ size_inflight \in 0 .. MaxData /\ written \in 0 .. MaxData
      /\ size_inflight <= written
      /\ pending \subseteq Offsets
      /\ UNCHANGED <<acked, size_inflight, shifted, pkt, receiver, closed>>
    BY DEF Write, IInv, TypeOK, PendingShape, IsOpen
<1>2. /\ pending \subseteq pending'
      /\ pending' \subseteq pending \cup (size_inflight .. UINT64_MAX - 1)
      /\ size_inflight .. UINT64_MAX - 1 \subseteq pending'
    <2>1. pending' = Activate(pending, UINT64_MAX)
        BY <1>1 DEF Write
    <2>2. CASE LastEndIs(pending, UINT64_MAX)
        <3>1. UINT64_MAX - 1 \in pending
            BY <2>2, <1>1 DEF LastEndIs, Offsets
        <3>2. size_inflight .. UINT64_MAX - 1 \subseteq pending
            BY <3>1, <1>1 DEF IInv, PendingShape, IsOpen
        <3> QED
            BY <2>1, <2>2, <3>2 DEF Activate
    <2>3. CASE ~LastEndIs(pending, UINT64_MAX)
        BY <2>1, <2>3 DEF Activate
    <2> QED
        BY <2>2, <2>3
<1>3. TypeOK'
    BY <1>1, <1>2 DEF IInv, TypeOK, Offsets, receiver
<1>4. PendingShape'
    BY <1>1, <1>2 DEF PendingShape, IsOpen
<1>5. PacketShape'
    BY <1>1 DEF IInv, PacketShape, Got, receiver
<1>6. AckedShape'
    <2>1. \A x \in acked : x < size_inflight
        BY <1>1 DEF IInv, TypeOK, AckedShape, ReceiverShape, Got, DataOffs, IsOpen, Offsets
    <2>2. acked \cap pending' = {}
        BY <2>1, <1>1, <1>2 DEF IInv, AckedShape, TypeOK, Offsets
    <2> QED
        BY <2>2, <1>1 DEF IInv, AckedShape, SentUpto, Got, receiver
<1>7. ReceiverShape'
    BY <1>1 DEF IInv, ReceiverShape, Contiguous, Got, receiver
<1>8. NothingForgotten'
    BY <1>1, <1>2 DEF IInv, NothingForgotten, InFlight, IsOpen, Offsets
<1> QED
    BY <1>3, <1>4, <1>5, <1>6, <1>7, <1>8 DEF IInv

LEMMA ShutdownIInv ==
    ASSUME IInv, Shutdown
    PROVE  IInv'
<1> USE ConstantsAssumption DEF UINT64_MAX
<1>1. /\ final_size' = written /\ written' = written /\ final_size = UINT64_MAX
      /\ written \in 0 .. MaxData /\ size_inflight \in 0 .. MaxData
      /\ size_inflight <= written
      /\ pending \subseteq Offsets
      /\ UNCHANGED <<acked, size_inflight, shifted, pkt, receiver, closed>>
    BY DEF Shutdown, IInv, TypeOK, PendingShape, IsOpen
<1>2. /\ pending' \subseteq pending \cup {written}
      /\ pending' \subseteq 0 .. written
      /\ size_inflight .. written \subseteq pending'
      /\ pending \cap (0 .. written - 1) \subseteq pending'
    <2> DEFINE p == IF LastEndIs(pending, UINT64_MAX)
                      THEN pending \cap (0 .. written)
                      ELSE pending \cup (size_inflight .. written)
    <2>1. pending' = Activate(p, written)
        BY <1>1 DEF Shutdown
    <2>2. /\ p \subseteq pending \cup {written}
          /\ p \subseteq 0 .. written
          /\ size_inflight .. written \subseteq p
          /\ pending \cap (0 .. written - 1) \subseteq p
        <3>1. CASE LastEndIs(pending, UINT64_MAX)
            <4>1. UINT64_MAX - 1 \in pending
                BY <3>1, <1>1 DEF LastEndIs, Offsets
            <4>2. size_inflight .. UINT64_MAX - 1 \subseteq pending
                BY <4>1, <1>1 DEF IInv, PendingShape, IsOpen
            <4> QED
                BY <4>2, <3>1, <1>1
        <3>2. CASE ~LastEndIs(pending, UINT64_MAX)
            <4>1. ~(size_inflight .. UINT64_MAX - 1 \subseteq pending)
                <5> SUFFICES ASSUME UINT64_MAX - 1 \in pending PROVE FALSE
                    BY <1>1
                <5> QED
                    BY <3>2, <1>1 DEF LastEndIs, Offsets
            <4>2. size_inflight = written /\ pending \subseteq 0 .. size_inflight - 1
                BY <4>1, <1>1 DEF IInv, PendingShape, IsOpen
            <4> QED
                BY <4>2, <3>2, <1>1
        <3> QED
            BY <3>1, <3>2
    <2>3. Activate(p, written) = p
        <3> HIDE DEF p
        <3>1. p \cup (size_inflight .. (written + 1) - 1) = p
            BY <2>2, <1>1
        <3>2. written # UINT64_MAX
            BY <1>1
        <3> QED
            BY <3>1, <3>2 DEF Activate
    <2> QED
        BY <2>1, <2>2, <2>3
<1>3. TypeOK'
    BY <1>1, <1>2 DEF IInv, TypeOK, Offsets, receiver
<1>4. PendingShape'
    BY <1>1, <1>2 DEF IInv, PendingShape, IsOpen
<1>5. PacketShape'
    BY <1>1 DEF IInv, PacketShape, ReceiverShape, Got, receiver, TypeOK, Packet
<1>6. AckedShape'
    <2>1. \A x \in acked : x < written
        BY <1>1, AckedBounds DEF IsOpen
    <2>2. acked \cap pending' = {}
        BY <2>1, <1>1, <1>2 DEF IInv, AckedShape, TypeOK, Offsets
    <2>3. SentUpto(acked)' = SentUpto(acked)
        BY <1>1, AckedBounds DEF SentUpto, IsOpen
    <2>4. \A x \in acked : x \in Got
        BY <2>1, <1>1 DEF IInv, AckedShape, TypeOK
    <2> QED
        BY <2>2, <2>3, <2>4, <1>1 DEF IInv, AckedShape, Got, receiver
<1>7. ReceiverShape'
    BY <1>1 DEF IInv, ReceiverShape, Contiguous, Got, receiver
<1>8. NothingForgotten'
    BY <1>1, <1>2 DEF IInv, NothingForgotten, InFlight, IsOpen, Offsets
<1> QED
    BY <1>3, <1>4, <1>5, <1>6, <1>7, <1>8 DEF IInv
(* A new frame: it takes its offsets out of pending and puts them in flight. *)
LEMMA SendStreamIInv ==
    ASSUME IInv, NEW s \in Slots, NEW off \in pending, NEW l \in 0 .. MaxData,
           SendStream(s, off, l)
    PROVE  IInv'
<1> USE ConstantsAssumption DEF UINT64_MAX
<1> DEFINE frame == [map |-> "inflight", net |-> "transit", off |-> off,
                     len |-> l, fin |-> (off + l = final_size), src |-> EmitSource(off)]
           inflight == IF size_inflight < off + l THEN off + l ELSE size_inflight
           tail == IF off + l = written THEN inflight .. UINT64_MAX - 1 ELSE {}
<1>1. /\ size_inflight' = inflight
      /\ pending' = (pending \ Sent(frame)) \ tail
      /\ pkt' = [pkt EXCEPT ![s] = frame]
      /\ UNCHANGED <<acked, final_size, written, shifted, receiver, closed>>
      /\ ~closed /\ pkt[s] = NoPacket
      /\ \A x \in pending : off <= x
    BY DEF SendStream, Free
<1>2. /\ size_inflight \in 0 .. MaxData /\ written \in 0 .. MaxData
      /\ size_inflight <= written
      /\ final_size \in 0 .. MaxData \cup {UINT64_MAX}
      /\ pending \subseteq Offsets /\ off \in Nat /\ l \in Nat
      /\ IsOpen => \/ size_inflight < written /\ size_inflight .. UINT64_MAX - 1 \subseteq pending
                   \/ size_inflight = written /\ pending \subseteq 0 .. size_inflight - 1
      /\ ~IsOpen => /\ final_size = written
                    /\ pending \subseteq 0 .. final_size
                    /\ size_inflight .. final_size - 1 \subseteq pending
    BY DEF IInv, TypeOK, PendingShape, Offsets
<1>3. /\ off + l <= written /\ off + l <= final_size
      /\ (off = final_size /\ l = 0) \/ (l > 0 /\ off .. (off + l - 1) \subseteq pending)
    BY <1>2 DEF SendStream, IsOpen
<1>4. /\ Sent(frame) = off .. (off + l + (IF off + l = final_size THEN 1 ELSE 0) - 1)
      /\ frame.off = off /\ frame.len = l /\ frame.fin = (off + l = final_size)
      /\ frame.src = EmitSource(off) /\ frame.map = "inflight" /\ frame.net = "transit"
    BY DEF Sent
<1>5. EmitSource(off) = off
    <2>1. FirstEnd(acked) <= final_size
        <3> SUFFICES ASSUME FirstEnd(acked) > final_size PROVE FALSE
            BY AckedBounds, <1>2
        <3>1. ~IsOpen /\ off \in 0 .. final_size
            BY <1>2, AckedBounds DEF IsOpen
        <3>2. off \in acked
            BY <3>1, <1>2, AckedBounds
        <3> QED
            BY <3>2 DEF IInv, AckedShape
    <2>2. shifted = FirstEnd(acked)
        BY <2>1, <1>1, <1>2, AckedBounds DEF IInv, AckedShape, SentUpto
    <2> QED
        BY <2>2, <1>2, AckedBounds DEF EmitSource
<1>6. inflight \in 0 .. MaxData /\ inflight >= size_inflight /\ off + l <= inflight
      /\ inflight <= written
    BY <1>2, <1>3
<1> HIDE DEF frame
<1>7. TypeOK'
    <2>1. frame \in Packet
        BY <1>2, <1>3, <1>5 DEF frame, Packet
    <2>2. pkt' \in [Slots -> Packet]
        BY <2>1, <1>1 DEF IInv, TypeOK
    <2>3. pending' \subseteq Offsets
        BY <1>1, <1>2
    <2> QED
        BY <1>1, <1>6, <2>2, <2>3 DEF IInv, TypeOK, receiver
<1>8. PendingShape'
    <2>1. CASE IsOpen
        <3>1. Sent(frame) = off .. off + l - 1 /\ l > 0 /\ off .. off + l - 1 \subseteq pending
            BY <2>1, <1>2, <1>3, <1>4 DEF IsOpen
        <3>2. CASE off + l = written
            BY <3>1, <3>2, <2>1, <1>1, <1>2, <1>6 DEF PendingShape, IsOpen, Offsets
        <3>3. CASE off + l # written
            <4>1. CASE size_inflight < written /\ size_inflight .. UINT64_MAX - 1 \subseteq pending
                BY <4>1, <3>1, <3>3, <2>1, <1>1, <1>2, <1>3, <1>6 DEF PendingShape, IsOpen
            <4>2. CASE size_inflight = written /\ pending \subseteq 0 .. size_inflight - 1
                BY <4>2, <3>1, <3>3, <2>1, <1>1, <1>2, <1>3, <1>6 DEF PendingShape, IsOpen
            <4> QED
                BY <4>1, <4>2, <2>1, <1>2
        <3> QED
            BY <3>2, <3>3
    <2>2. CASE ~IsOpen
        BY <2>2, <1>1, <1>2, <1>3, <1>4, <1>6 DEF PendingShape, IsOpen
    <2> QED
        BY <2>1, <2>2
<1>9. PacketShape'
    <2> SUFFICES ASSUME NEW t \in Slots
                 PROVE  /\ pkt'[t].src = pkt'[t].off
                        /\ pkt'[t].off + pkt'[t].len <= size_inflight'
                        /\ pkt'[t].fin => pkt'[t].off + pkt'[t].len = final_size'
                        /\ pkt'[t].net = "received" =>
                             /\ pkt'[t].off .. pkt'[t].off + pkt'[t].len - 1 \subseteq Got'
                             /\ pkt'[t].fin => eos' = final_size'
        BY DEF PacketShape
    <2>1. Got' = Got /\ eos' = eos
        BY <1>1 DEF Got, receiver
    <2>2. CASE t = s
        BY <2>2, <1>1, <1>4, <1>5, <1>6 DEF IInv, TypeOK
    <2>3. CASE t # s
        <3>1. pkt'[t] = pkt[t] /\ pkt[t] \in Packet
            BY <2>3, <1>1 DEF IInv, TypeOK
        <3>2. pkt[t].off + pkt[t].len <= inflight
            BY <3>1, <1>2, <1>6 DEF IInv, PacketShape, Packet
        <3> QED
            BY <3>1, <3>2, <2>1, <1>1 DEF IInv, PacketShape
    <2> QED
        BY <2>2, <2>3
<1>10. AckedShape'
    BY <1>1 DEF IInv, AckedShape, SentUpto, Got, receiver
<1>11. ReceiverShape'
    BY <1>1, <1>2, <1>6 DEF IInv, ReceiverShape, Contiguous, Got, receiver
<1>12. NothingForgotten'
    <2>1. InFlight \subseteq InFlight'
        BY <1>1 DEF InFlight, NoPacket, IInv, TypeOK
    <2>2. Sent(frame) \subseteq InFlight'
        <3>1. pkt'[s] = frame /\ pkt'[s].map = "inflight"
            BY <1>1, <1>4 DEF IInv, TypeOK
        <3> QED
            BY <3>1 DEF InFlight
    <2>3. \A x \in pending : (x < written \/ x = final_size) =>
                             x \in pending' \cup Sent(frame)
        <3>1. CASE off + l = written
            <4>1. \A x \in pending : x < written => x \notin tail
                BY <3>1, <1>2, <1>6
            <4>2. ~IsOpen => written \in Sent(frame)
                BY <3>1, <1>2, <1>3, <1>4
            <4>3. \A x \in pending : x = final_size => ~IsOpen
                BY <1>2 DEF IsOpen, Offsets
            <4> QED
                BY <4>1, <4>2, <4>3, <1>1, <1>2
        <3>2. CASE off + l # written
            BY <3>2, <1>1
        <3> QED
            BY <3>1, <3>2
    <2> QED
        BY <2>1, <2>2, <2>3, <1>1, <1>2 DEF IInv, NothingForgotten, IsOpen
<1> QED
    BY <1>7, <1>8, <1>9, <1>10, <1>11, <1>12 DEF IInv
(* An acknowledged run of frames was received, moves from pending to acked, *)
(* and advances the send buffer as far as the first gap.                    *)
LEMMA OnAckIInv ==
    ASSUME IInv, NEW S \in SUBSET Slots, OnAck(S)
    PROVE  IInv'
<1> USE ConstantsAssumption DEF UINT64_MAX
<1> DEFINE run == UNION {Sent(pkt[s]) : s \in S}
           a == acked \cup run
<1>1. /\ acked' = a /\ pending' = pending \ run
      /\ closed' = StateExhausted(a, pending \ run)
      /\ shifted' = IF closed' THEN shifted ELSE shifted + BytesToShift(a)
      /\ pkt' = [s \in Slots |-> IF s \in S THEN NoPacket ELSE pkt[s]]
      /\ UNCHANGED <<size_inflight, final_size, written, receiver>>
      /\ ~closed
      /\ \A s \in S : pkt[s].net = "received"
    BY DEF OnAck, AckedPending
<1>2. /\ pkt \in [Slots -> Packet] /\ acked \subseteq Offsets
      /\ size_inflight \in 0 .. MaxData /\ written \in 0 .. MaxData
      /\ size_inflight <= written
      /\ final_size \in 0 .. MaxData \cup {UINT64_MAX}
    BY DEF IInv, TypeOK, PendingShape
<1>3. \A x \in run : /\ x \in Offsets
                     /\ x \in Got \/ (x = final_size /\ eos = final_size)
                     /\ x < size_inflight \/ x = final_size
    <2> SUFFICES ASSUME NEW s \in S, NEW x \in Sent(pkt[s])
                 PROVE  /\ x \in Offsets
                        /\ x \in Got \/ (x = final_size /\ eos = final_size)
                        /\ x < size_inflight \/ x = final_size
        OBVIOUS
    <2>1. /\ pkt[s] \in Packet /\ pkt[s].net = "received"
          /\ pkt[s].off + pkt[s].len <= size_inflight
          /\ pkt[s].fin => pkt[s].off + pkt[s].len = final_size /\ eos = final_size
          /\ pkt[s].off .. pkt[s].off + pkt[s].len - 1 \subseteq Got
        BY <1>1, <1>2 DEF IInv, PacketShape
    <2> QED
        BY <2>1, <1>2 DEF Sent, Packet, Offsets
<1> HIDE DEF run
<1>4. a \subseteq Offsets
    BY <1>2, <1>3
<1>5. Got' = Got /\ Contiguous' = Contiguous
    BY <1>1 DEF Got, Contiguous, receiver
<1>6. \A x \in a : x < written \/ (x = final_size /\ ~IsOpen)
    <2>1. \A x \in Got : x \in 0 .. written - 1
        BY <1>2 DEF IInv, TypeOK, PendingShape, ReceiverShape, Got, IsOpen, DataOffs
    <2> QED
        BY <2>1, <1>2, <1>3, <1>4, AckedBounds DEF IsOpen, Offsets
<1>7. SentUpto(a) \in SentUpto(acked) .. written
    <2>0. acked \subseteq a
        OBVIOUS
    <2> HIDE DEF a
    <2>1. /\ FirstEnd(a) \in 0 .. UINT64_MAX
          /\ \A m \in 0 .. FirstEnd(a) - 1 : m \in a
        BY <1>4, FirstEndProp
    <2>2. FirstEnd(acked) <= FirstEnd(a)
        BY <2>0, <1>4, FirstEndMonotone
    <2>3. IsOpen => FirstEnd(a) <= written
        <3> SUFFICES ASSUME IsOpen, FirstEnd(a) > written PROVE FALSE
            BY <2>1, <1>2
        <3>1. written \in a
            BY <2>1, <1>2
        <3> QED
            BY <3>1, <1>6, <1>2
    <2>4. ~IsOpen => final_size = written
        BY DEF IInv, PendingShape
    <2> QED
        BY <2>1, <2>2, <2>3, <2>4, <1>2, AckedBounds DEF SentUpto, IsOpen
<1>8. /\ shifted' \in 0 .. MaxData
      /\ shifted' <= SentUpto(a)
      /\ ~closed' => shifted' = SentUpto(a)
      /\ closed' \in BOOLEAN
    <2>1. shifted = SentUpto(acked) /\ SentUpto(acked) \in Nat
        BY <1>1, AckedBounds DEF IInv, AckedShape
    <2>2. closed' \in BOOLEAN
        BY <1>1 DEF StateExhausted
    <2> QED
        BY <2>1, <2>2, <1>1, <1>2, <1>7 DEF BytesToShift
<1>9. TypeOK'
    <2>1. NoPacket \in Packet
        BY DEF NoPacket, Packet
    <2>2. pkt' \in [Slots -> Packet]
        BY <2>1, <1>1, <1>2
    <2> QED
        BY <2>2, <1>1, <1>4, <1>8 DEF IInv, TypeOK, receiver
<1>10. PendingShape'
    <2>1. \A x \in run : x < size_inflight \/ (x = final_size /\ ~IsOpen)
        BY <1>2, <1>3 DEF IsOpen, Offsets
    <2> QED
        BY <2>1, <1>1, <1>2 DEF IInv, PendingShape, IsOpen, Offsets
<1>11. PacketShape'
    <2> SUFFICES ASSUME NEW t \in Slots
                 PROVE  /\ pkt'[t].src = pkt'[t].off
                        /\ pkt'[t].off + pkt'[t].len <= size_inflight'
                        /\ pkt'[t].fin => pkt'[t].off + pkt'[t].len = final_size'
                        /\ pkt'[t].net = "received" =>
                             /\ pkt'[t].off .. pkt'[t].off + pkt'[t].len - 1 \subseteq Got'
                             /\ pkt'[t].fin => eos' = final_size'
        BY DEF PacketShape
    <2>1. CASE t \in S
        BY <2>1, <1>1, <1>2 DEF NoPacket
    <2>2. CASE t \notin S
        <3>1. pkt'[t] = pkt[t]
            BY <2>2, <1>1
        <3> QED
            BY <3>1, <1>1, <1>5 DEF IInv, PacketShape, receiver
    <2> QED
        BY <2>1, <2>2
<1>12. AckedShape'
    <2>1. SentUpto(acked)' = SentUpto(a)
        BY <1>1 DEF SentUpto
    <2>2. \A x \in acked' : x \in Got' \/ (x = final_size' /\ eos' = final_size')
        BY <1>1, <1>3, <1>5 DEF IInv, AckedShape, receiver
    <2>3. acked' \cap pending' = {}
        BY <1>1 DEF IInv, AckedShape
    <2> QED
        BY <2>1, <2>2, <2>3, <1>8 DEF AckedShape
<1>13. ReceiverShape'
    BY <1>1, <1>5 DEF IInv, ReceiverShape, receiver
<1>14. NothingForgotten'
    <2>1. InFlight \subseteq InFlight' \cup run
        BY <1>1, <1>2 DEF InFlight, run
    <2> QED
        BY <2>1, <1>1 DEF IInv, NothingForgotten, IsOpen
<1> QED
    BY <1>9, <1>10, <1>11, <1>12, <1>13, <1>14 DEF IInv

(* A frame declared lost goes back to pending, except for what is acked. *)
LEMMA SendstateLostIInv ==
    ASSUME IInv, NEW s \in Slots, NEW p \in Packet, SendstateLost(s), ~closed,
           pkt' = [pkt EXCEPT ![s] = p],
           p = NoPacket \/ (p.off = pkt[s].off /\ p.len = pkt[s].len /\ p.fin = pkt[s].fin
                            /\ p.src = pkt[s].src /\ p.net = pkt[s].net),
           UNCHANGED <<acked, size_inflight, final_size, written, shifted, receiver>>
    PROVE  IInv'
<1> USE ConstantsAssumption DEF UINT64_MAX
<1>1. /\ pending' = pending \cup (Sent(pkt[s]) \ acked)
      /\ closed' \in BOOLEAN
    BY DEF SendstateLost, LostPending, StateExhausted
<1>2. /\ pkt \in [Slots -> Packet] /\ pkt[s] \in Packet
      /\ size_inflight \in 0 .. MaxData /\ written \in 0 .. MaxData
      /\ size_inflight <= written
      /\ final_size \in 0 .. MaxData \cup {UINT64_MAX}
      /\ ~IsOpen => final_size = written
    BY DEF IInv, TypeOK, PendingShape
<1>3. \A x \in Sent(pkt[s]) : /\ x \in Offsets
                              /\ x < size_inflight \/ (x = final_size /\ ~IsOpen)
    BY <1>2 DEF IInv, PacketShape, Sent, Packet, Offsets, IsOpen
<1>4. Got' = Got /\ Contiguous' = Contiguous
    BY DEF Got, Contiguous, receiver
<1>5. TypeOK'
    BY <1>1, <1>2, <1>3 DEF IInv, TypeOK, receiver
<1>6. PendingShape'
    BY <1>1, <1>2, <1>3 DEF IInv, PendingShape, IsOpen, Offsets
<1>7. PacketShape'
    <2> SUFFICES ASSUME NEW t \in Slots
                 PROVE  /\ pkt'[t].src = pkt'[t].off
                        /\ pkt'[t].off + pkt'[t].len <= size_inflight'
                        /\ pkt'[t].fin => pkt'[t].off + pkt'[t].len = final_size'
                        /\ pkt'[t].net = "received" =>
                             /\ pkt'[t].off .. pkt'[t].off + pkt'[t].len - 1 \subseteq Got'
                             /\ pkt'[t].fin => eos' = final_size'
        BY DEF PacketShape
    <2>1. CASE t = s
        BY <2>1, <1>2, <1>4 DEF NoPacket, IInv, PacketShape, receiver
    <2>2. CASE t # s
        <3>1. pkt'[t] = pkt[t]
            BY <2>2, <1>2
        <3> QED
            BY <3>1, <1>4 DEF IInv, PacketShape, receiver
    <2> QED
        BY <2>1, <2>2
<1>8. AckedShape'
    <2>1. SentUpto(acked)' = SentUpto(acked)
        BY DEF SentUpto
    <2> QED
        BY <2>1, <1>1, <1>4 DEF IInv, AckedShape, receiver
<1>9. ReceiverShape'
    BY <1>4, <1>1 DEF IInv, ReceiverShape, receiver
<1>10. NothingForgotten'
    <2>1. InFlight \subseteq InFlight' \cup Sent(pkt[s])
        BY <1>2 DEF InFlight
    <2> QED
        BY <2>1, <1>1 DEF IInv, NothingForgotten, IsOpen
<1> QED
    BY <1>5, <1>6, <1>7, <1>8, <1>9, <1>10 DEF IInv
LEMMA SettleProp ==
    ASSUME NEW p \in Packet
    PROVE  /\ Settle(p) \in Packet
           /\ Settle(p) = p \/ (Settle(p) = NoPacket /\ p.map = "gone")
    BY ConstantsAssumption DEF Settle, NoPacket, Packet

LEMMA DeclareLostIInv ==
    ASSUME IInv, NEW s \in Slots, DeclareLost(s)
    PROVE  IInv'
<1> DEFINE p == [pkt[s] EXCEPT !.map = "lost"]
<1>1. pkt[s] \in Packet
    BY DEF IInv, TypeOK
<1>2. /\ p \in Packet /\ p.off = pkt[s].off /\ p.len = pkt[s].len /\ p.fin = pkt[s].fin
      /\ p.src = pkt[s].src /\ p.net = pkt[s].net
    BY <1>1 DEF Packet
<1>3. pkt' = [pkt EXCEPT ![s] = p]
    BY <1>1 DEF DeclareLost
<1> HIDE DEF p
<1> QED
    BY <1>2, <1>3, SendstateLostIInv DEF DeclareLost

(* Steps that only change where a packet is. *)
LEMMA PacketIInv ==
    ASSUME IInv, NEW s \in Slots, NEW p \in Packet,
           pkt' = [pkt EXCEPT ![s] = p],
           p = NoPacket \/ (p.off = pkt[s].off /\ p.len = pkt[s].len /\ p.fin = pkt[s].fin
                            /\ p.src = pkt[s].src),
           p.net = "received" => pkt[s].net = "received" \/ recv_done,
           pkt[s].map = "inflight" => p.map = "inflight" /\ p # NoPacket,
           UNCHANGED <<sender, receiver, closed>>
    PROVE  IInv'
<1> USE ConstantsAssumption DEF UINT64_MAX
<1>1. /\ pkt \in [Slots -> Packet] /\ pkt[s] \in Packet /\ pkt'[s] = p
      /\ \A t \in Slots : t # s => pkt'[t] = pkt[t]
      /\ size_inflight \in 0 .. MaxData
    BY DEF IInv, TypeOK
<1>2. Got' = Got /\ Contiguous' = Contiguous /\ SentUpto(acked)' = SentUpto(acked)
    BY DEF Got, Contiguous, SentUpto, receiver, sender
<1>3. TypeOK'
    BY <1>1 DEF IInv, TypeOK, receiver, sender
<1>4. PacketShape'
    <2>1. recv_done => 0 .. size_inflight - 1 \subseteq Got /\ eos = final_size
        BY <1>1 DEF IInv, TypeOK, ReceiverShape, PendingShape, Got, IsOpen
    <2> SUFFICES ASSUME NEW t \in Slots
                 PROVE  /\ pkt'[t].src = pkt'[t].off
                        /\ pkt'[t].off + pkt'[t].len <= size_inflight'
                        /\ pkt'[t].fin => pkt'[t].off + pkt'[t].len = final_size'
                        /\ pkt'[t].net = "received" =>
                             /\ pkt'[t].off .. pkt'[t].off + pkt'[t].len - 1 \subseteq Got'
                             /\ pkt'[t].fin => eos' = final_size'
        BY DEF PacketShape
    <2>2. CASE t = s /\ p = NoPacket
        BY <2>2, <1>1 DEF NoPacket, sender
    <2>3. CASE t = s /\ p # NoPacket
        <3>1. /\ p.src = p.off /\ p.off + p.len <= size_inflight
              /\ p.fin => p.off + p.len = final_size
            BY <2>3, <1>1 DEF IInv, PacketShape
        <3>2. CASE recv_done
            BY <3>1, <3>2, <2>1, <2>3, <1>1, <1>2 DEF Packet, sender, receiver
        <3>3. CASE ~recv_done
            BY <3>1, <3>3, <2>3, <1>1, <1>2 DEF IInv, PacketShape, sender, receiver
        <3> QED
            BY <3>2, <3>3
    <2>4. CASE t # s
        BY <2>4, <1>1, <1>2 DEF IInv, PacketShape, sender, receiver
    <2> QED
        BY <2>2, <2>3, <2>4
<1>5. PendingShape' /\ AckedShape' /\ ReceiverShape'
    BY <1>2 DEF IInv, PendingShape, AckedShape, ReceiverShape, IsOpen, sender, receiver
<1>6. NothingForgotten'
    <2>1. InFlight \subseteq InFlight'
        BY <1>1 DEF InFlight, Sent
    <2> QED
        BY <2>1 DEF IInv, NothingForgotten, IsOpen, sender
<1> QED
    BY <1>3, <1>4, <1>5, <1>6 DEF IInv

LEMMA ExpireIInv ==
    ASSUME IInv, NEW s \in Slots, Expire(s)
    PROVE  IInv'
<1> DEFINE q == [pkt[s] EXCEPT !.map = "gone"]
           p == Settle(q)
<1>1. pkt[s] \in Packet
    BY DEF IInv, TypeOK
<1>2. /\ q \in Packet /\ q.off = pkt[s].off /\ q.len = pkt[s].len /\ q.fin = pkt[s].fin
      /\ q.src = pkt[s].src /\ q.net = pkt[s].net
    BY <1>1 DEF Packet
<1>3. /\ pkt' = [pkt EXCEPT ![s] = p] /\ ~closed
      /\ UNCHANGED <<acked, size_inflight, final_size, written, shifted, receiver>>
    BY DEF Expire
<1>4. p \in Packet /\ (p = q \/ p = NoPacket)
    BY <1>2, SettleProp
<1> HIDE DEF q, p
<1>5. CASE pkt[s].map = "inflight" /\ SendstateLost(s)
    BY <1>2, <1>3, <1>4, <1>5, SendstateLostIInv
<1>6. CASE pkt[s].map = "lost" /\ UNCHANGED <<pending, closed>>
    <2>1. NoPacket.net # "received"
        BY DEF NoPacket
    <2> QED
        BY <2>1, <1>2, <1>3, <1>4, <1>6, PacketIInv DEF sender
<1> QED
    BY <1>5, <1>6 DEF Expire

LEMMA LoseIInv ==
    ASSUME IInv, NEW s \in Slots, Lose(s)
    PROVE  IInv'
<1> DEFINE q == [pkt[s] EXCEPT !.net = "none"]
           p == Settle(q)
<1>1. pkt[s] \in Packet
    BY DEF IInv, TypeOK
<1>2. /\ q \in Packet /\ q.off = pkt[s].off /\ q.len = pkt[s].len /\ q.fin = pkt[s].fin
      /\ q.src = pkt[s].src /\ q.net = "none" /\ q.map = pkt[s].map
    BY <1>1 DEF Packet
<1>3. pkt' = [pkt EXCEPT ![s] = p] /\ UNCHANGED <<sender, receiver, closed>>
    BY DEF Lose
<1>4. p \in Packet /\ (p = q \/ (p = NoPacket /\ q.map = "gone"))
    BY <1>2, SettleProp
<1>5. NoPacket.net = "none" /\ NoPacket.map = "gone"
    BY DEF NoPacket
<1> HIDE DEF q, p
<1> QED
    BY <1>2, <1>3, <1>4, <1>5, PacketIInv
(* A frame arrives after the transfer has completed: it is acknowledged and *)
(* otherwise ignored.                                                       *)
LEMMA ReceiveLateIInv ==
    ASSUME IInv, NEW s \in Slots, Receive(s), recv_done
    PROVE  IInv'
<1> DEFINE q == [pkt[s] EXCEPT !.net = "received"]
           p == Settle(q)
<1>1. pkt[s] \in Packet
    BY DEF IInv, TypeOK
<1>2. /\ q \in Packet /\ q.off = pkt[s].off /\ q.len = pkt[s].len /\ q.fin = pkt[s].fin
      /\ q.src = pkt[s].src /\ q.map = pkt[s].map
    BY <1>1 DEF Packet
<1>3. pkt' = [pkt EXCEPT ![s] = p] /\ UNCHANGED <<sender, receiver, closed>>
    BY DEF Receive
<1>4. p \in Packet /\ (p = q \/ (p = NoPacket /\ q.map = "gone"))
    BY <1>2, SettleProp
<1>5. NoPacket.map = "gone"
    BY DEF NoPacket
<1> HIDE DEF q, p
<1> QED
    BY <1>2, <1>3, <1>4, <1>5, PacketIInv

(* A frame arrives: the bytes it brings are added to Got, at their place. *)
LEMMA ReceiveIInv ==
    ASSUME IInv, NEW s \in Slots, Receive(s), ~recv_done
    PROVE  /\ IInv'
           /\ Got \subseteq Got'
<1> USE ConstantsAssumption DEF UINT64_MAX
<1> DEFINE end   == pkt[s].off + pkt[s].len
           neos  == IF eos = UINT64_MAX /\ pkt[s].fin THEN end ELSE eos
           bad   == IF eos = UINT64_MAX
                      THEN pkt[s].fin /\ \E x \in received : x >= end
                      ELSE end > eos
           fresh == {x \in pkt[s].off .. end - 1 : x >= data_off}
           rcv   == received \cup fresh
           full  == fresh # {} /\ NumRangesFrom0(rcv) > MaxRecvRanges
           fail  == bad \/ full
           done  == IF end <= data_off THEN FirstEnd(received) = neos
                    ELSE rcv = 0 .. neos - 1
           q     == [pkt[s] EXCEPT !.net = IF fail THEN "none" ELSE "received"]
           p     == Settle(q)
<1>1. /\ closed' = fail /\ eos' = neos /\ recv_done' = (~fail /\ done)
      /\ received' = IF bad THEN received ELSE IF ~full /\ done THEN {} ELSE rcv
      /\ rbuf' = IF fail THEN rbuf
                 ELSE [x \in DataOffs |-> IF x \in fresh THEN Stored(s, x) ELSE rbuf[x]]
      /\ pkt' = [pkt EXCEPT ![s] = p]
      /\ UNCHANGED <<sender, data_off, out>> /\ ~closed
    BY DEF Receive
<1>2. /\ pkt \in [Slots -> Packet] /\ pkt[s] \in Packet
      /\ end \in Nat /\ end <= size_inflight /\ pkt[s].src = pkt[s].off
      /\ pkt[s].off \in Nat /\ pkt[s].len \in Nat
      /\ pkt[s].fin => end = final_size
      /\ size_inflight \in 0 .. MaxData /\ written \in 0 .. MaxData
      /\ size_inflight <= written
      /\ final_size \in 0 .. MaxData \cup {UINT64_MAX}
      /\ final_size # UINT64_MAX => final_size = written
      /\ eos \in 0 .. MaxData \cup {UINT64_MAX}
      /\ eos # UINT64_MAX => eos = final_size /\ eos <= size_inflight
      /\ received \subseteq 0 .. size_inflight - 1
      /\ received \subseteq DataOffs
      /\ data_off \in Nat
    BY DEF IInv, TypeOK, PendingShape, PacketShape, ReceiverShape, Packet, IsOpen
<1>3. neos # UINT64_MAX => neos = final_size
    BY <1>2
<1>4. fresh \subseteq 0 .. size_inflight - 1 /\ fresh \subseteq DataOffs
    BY <1>2 DEF DataOffs
<1>5. fail \in BOOLEAN /\ (bad => fail) /\ (~fail => ~full /\ ~bad)
    <2> HIDE DEF bad, full
    <2> QED
        OBVIOUS
<1>6. \A x \in 0 .. data_off - 1 : x \in received
    BY ContiguousBounds, <1>2 DEF IInv, ReceiverShape, Got
<1>7. pkt[s].off .. end - 1 \subseteq rcv
    BY <1>2, <1>6
<1>8. done => neos # UINT64_MAX /\ neos = final_size /\ rcv = 0 .. neos - 1
    <2>1. CASE end <= data_off
        <3>1. fresh = {}
            BY <2>1, <1>2
        <3>2. received \subseteq Offsets /\ FirstEnd(received) <= written
            BY <1>2, ContiguousBounds DEF Offsets, DataOffs, Contiguous
        <3>3. \A m \in 0 .. FirstEnd(received) - 1 : m \in received
            BY <3>2, FirstEndProp
        <3>4. rcv = received
            BY <3>1
        <3>5. done => FirstEnd(received) = neos
            BY <2>1
        <3> HIDE DEF done, neos, rcv
        <3>6. done => neos # UINT64_MAX /\ neos = final_size
            BY <3>2, <3>5, <1>2, <1>3
        <3>7. done => received = 0 .. neos - 1
            <4> SUFFICES ASSUME done PROVE received = 0 .. neos - 1
                OBVIOUS
            <4>1. neos = written /\ neos \in Nat
                BY <3>6, <1>2
            <4>2. received \subseteq 0 .. neos - 1
                BY <4>1, <1>2
            <4>3. 0 .. neos - 1 \subseteq received
                BY <3>3, <3>5
            <4> QED
                BY <4>2, <4>3
        <3> QED
            BY <3>4, <3>6, <3>7
    <2>2. CASE ~(end <= data_off)
        <3>1. done => rcv = 0 .. neos - 1
            BY <2>2
        <3>2. neos = UINT64_MAX => MaxData \in 0 .. neos - 1
            OBVIOUS
        <3>3. MaxData \notin rcv
            BY <1>2, <1>4 DEF DataOffs
        <3> QED
            BY <3>1, <3>2, <3>3, <1>3
    <2> QED
        BY <2>1, <2>2
<1>9. /\ q \in Packet /\ q.off = pkt[s].off /\ q.len = pkt[s].len /\ q.fin = pkt[s].fin
      /\ q.src = pkt[s].src /\ q.map = pkt[s].map
      /\ q.net = IF fail THEN "none" ELSE "received"
    BY <1>2 DEF Packet
<1>10. p \in Packet /\ (p = q \/ (p = NoPacket /\ q.map = "gone"))
    BY <1>9, SettleProp
<1> HIDE DEF end, neos, bad, fresh, rcv, full, fail, done, q, p
<1>11. Got' = IF bad THEN received ELSE rcv
    <2>1. CASE ~fail /\ done
        BY <2>1, <1>1, <1>5, <1>8 DEF Got
    <2>2. CASE ~(~fail /\ done)
        BY <2>2, <1>1, <1>5 DEF Got, fail
    <2> QED
        BY <2>1, <2>2
<1>12. /\ Got = received /\ Got \subseteq Got'
       /\ ~fail => Got' = rcv
       /\ received' \subseteq rcv
    BY <1>1, <1>5, <1>11 DEF Got, rcv
<1>13. rcv \subseteq 0 .. size_inflight - 1 /\ rcv \subseteq DataOffs
    BY <1>2, <1>4 DEF rcv
<1>14. TypeOK'
    <2>1. rbuf' \in [DataOffs -> Int]
        BY <1>1, <1>2 DEF IInv, TypeOK, Stored, DataOffs, Packet
    <2>2. eos' \in 0 .. MaxData \cup {UINT64_MAX}
        BY <1>1, <1>2 DEF neos
    <2>3. closed' \in BOOLEAN /\ recv_done' \in BOOLEAN
        BY <1>1 DEF fail
    <2>4. pkt' \in [Slots -> Packet]
        BY <1>1, <1>2, <1>10
    <2> QED
        BY <2>1, <2>2, <2>3, <2>4, <1>1, <1>12, <1>13 DEF IInv, TypeOK, sender
<1>15. PendingShape'
    BY <1>1 DEF IInv, PendingShape, IsOpen, sender
<1>16. eos = final_size /\ final_size # UINT64_MAX => eos' = final_size
    BY <1>1, <1>2 DEF neos
<1>17. PacketShape'
    <2> SUFFICES ASSUME NEW t \in Slots
                 PROVE  /\ pkt'[t].src = pkt'[t].off
                        /\ pkt'[t].off + pkt'[t].len <= size_inflight'
                        /\ pkt'[t].fin => pkt'[t].off + pkt'[t].len = final_size'
                        /\ pkt'[t].net = "received" =>
                             /\ pkt'[t].off .. pkt'[t].off + pkt'[t].len - 1 \subseteq Got'
                             /\ pkt'[t].fin => eos' = final_size'
        BY DEF PacketShape
    <2>1. CASE t = s /\ p = NoPacket
        BY <2>1, <1>1, <1>2 DEF NoPacket, sender
    <2>2. CASE t = s /\ p = q
        <3>1. pkt'[t] = q
            BY <2>2, <1>1, <1>2
        <3>2. ~fail => q.off .. q.off + q.len - 1 \subseteq Got'
            <4>1. q.off = pkt[s].off /\ q.off + q.len = end
                BY <1>9 DEF end
            <4>2. q.off .. q.off + q.len - 1 = pkt[s].off .. end - 1
                BY <4>1, <1>2, <1>9
            <4> QED
                BY <4>2, <1>7, <1>12, Zenon
        <3>3. q.fin => eos' = final_size
            BY <1>1, <1>2, <1>9 DEF neos
        <3> QED
            BY <3>1, <3>2, <3>3, <1>1, <1>2, <1>9 DEF end, sender
    <2>3. CASE t # s
        <3>1. pkt'[t] = pkt[t] /\ pkt[t] \in Packet
            BY <2>3, <1>1, <1>2
        <3>2. pkt[t].fin => final_size # UINT64_MAX
            BY <3>1, <1>2 DEF IInv, PacketShape, Packet
        <3> QED
            BY <3>1, <3>2, <1>1, <1>12, <1>16 DEF IInv, PacketShape, sender
    <2> QED
        BY <2>1, <2>2, <2>3, <1>10
<1>18. AckedShape'
    <2>1. \A x \in acked : x \in Got' \/ (x = final_size /\ eos' = final_size)
        BY <1>12, <1>16 DEF IInv, TypeOK, AckedShape, Offsets
    <2>2. SentUpto(acked)' = SentUpto(acked)
        BY <1>1 DEF SentUpto, sender
    <2> QED
        BY <2>1, <2>2, <1>1 DEF IInv, AckedShape, sender
<1>19. ReceiverShape'
    <2>1. eos' # UINT64_MAX => eos' = final_size' /\ eos' <= size_inflight'
        BY <1>1, <1>2, <1>3 DEF sender, neos
    <2>2. received' \subseteq 0 .. size_inflight' - 1
        BY <1>1, <1>12, <1>13 DEF sender
    <2>3. recv_done' => eos' # UINT64_MAX
        BY <1>1, <1>8
    <2>4. ~closed' /\ eos' # UINT64_MAX /\ 0 .. eos' - 1 \subseteq received' => recv_done'
        <3> SUFFICES ASSUME ~fail, ~done, neos # UINT64_MAX, 0 .. neos - 1 \subseteq rcv
                     PROVE  FALSE
            BY <1>1, <1>5, <1>12
        <3>1. rcv = 0 .. neos - 1
            <4>1. neos = written
                BY <1>2, <1>3
            <4>2. rcv \subseteq 0 .. neos - 1
                BY <4>1, <1>2, <1>13
            <4> QED
                BY <4>2
        <3>2. CASE end <= data_off
            <4>1. rcv = received /\ neos \in Nat
                BY <3>2, <1>2, <1>3 DEF rcv, fresh
            <4>2. received \subseteq Offsets
                BY <1>2 DEF DataOffs, Offsets
            <4>3. neos = FirstEnd(received)
                BY <4>1, <4>2, <3>1, FirstEndUnique
            <4> QED
                BY <4>3, <3>2 DEF done
        <3>3. CASE ~(end <= data_off)
            BY <3>1, <3>3 DEF done
        <3> QED
            BY <3>2, <3>3
    <2>5. data_off' <= Contiguous'
        <3>1. data_off <= Contiguous /\ Contiguous = FirstEnd(received) /\ Contiguous \in 0 .. written
            BY ContiguousBounds DEF IInv, ReceiverShape, Contiguous
        <3>2. CASE recv_done'
            <4>1. neos = written /\ Contiguous' = neos
                BY <3>2, <1>1, <1>2, <1>8 DEF Contiguous
            <4> QED
                BY <4>1, <3>1, <1>1, <1>2
        <3>3. CASE ~recv_done'
            <4>1. received \subseteq received' /\ received' \subseteq Offsets
                <5>1. bad \/ ~(~full /\ done)
                    BY <3>3, <1>1 DEF fail
                <5>2. received' = received \/ received' = rcv
                    BY <5>1, <1>1
                <5> QED
                    BY <5>2, <1>2, <1>13 DEF rcv, DataOffs, Offsets
            <4>2. FirstEnd(received) <= FirstEnd(received')
                BY <4>1, FirstEndMonotone
            <4>3. FirstEnd(received') \in Nat /\ Contiguous' = FirstEnd(received')
                BY <4>1, <3>3, FirstEndProp DEF Contiguous
            <4> QED
                BY <4>2, <4>3, <3>1, <1>1, <1>2
        <3> QED
            BY <3>2, <3>3
    <2>6. ~closed' => \A x \in Got' : rbuf'[x] = x
        <3> SUFFICES ASSUME ~fail, NEW x \in rcv PROVE rbuf'[x] = x
            BY <1>1, <1>12
        <3>1. x \in DataOffs /\ x \in Int
            BY <1>13 DEF DataOffs
        <3>2. CASE x \in fresh
            BY <3>1, <3>2, <1>1, <1>2 DEF Stored
        <3>3. CASE x \notin fresh
            <4>1. rbuf[x] = x
                BY <3>3, <1>1, <1>12 DEF IInv, ReceiverShape, rcv
            <4> QED
                BY <4>1, <3>1, <3>3, <1>1
        <3> QED
            BY <3>2, <3>3
    <2>7. out' = [i \in 1 .. data_off' |-> i - 1]
        BY <1>1 DEF IInv, ReceiverShape
    <2> QED
        BY <2>1, <2>2, <2>3, <2>4, <2>5, <2>6, <2>7 DEF ReceiverShape
<1>20. NothingForgotten'
    <2>1. InFlight \subseteq InFlight'
        <3>1. p = NoPacket => pkt[s].map # "inflight"
            BY <1>9, <1>10 DEF NoPacket
        <3>2. p = q => p.map = pkt[s].map /\ Sent(p) = Sent(pkt[s])
            BY <1>9 DEF Sent
        <3>3. pkt'[s] = p /\ \A t \in Slots : t # s => pkt'[t] = pkt[t]
            BY <1>1, <1>2
        <3> QED
            BY <3>1, <3>2, <3>3, <1>9, <1>10 DEF InFlight
    <2> QED
        BY <2>1, <1>1 DEF IInv, NothingForgotten, IsOpen, sender
<1> QED
    BY <1>12, <1>14, <1>15, <1>17, <1>18, <1>19, <1>20 DEF IInv
LEMMA ConsumeIInv ==
    ASSUME IInv, NEW n \in 1 .. MaxData, Consume(n)
    PROVE  IInv'
<1> USE ConstantsAssumption DEF UINT64_MAX
<1>1. /\ data_off' = data_off + n /\ data_off + n <= Contiguous /\ ~closed
      /\ out' = [i \in 1 .. data_off + n |-> IF i <= data_off THEN out[i] ELSE rbuf[i - 1]]
      /\ UNCHANGED <<sender, pkt, received, recv_done, eos, rbuf, closed>>
    BY DEF Consume
<1>2. data_off \in Nat /\ written \in 0 .. MaxData /\ Contiguous \in 0 .. written
    BY ContiguousBounds DEF IInv, TypeOK
<1>3. out' = [i \in 1 .. data_off' |-> i - 1]
    <2>1. \A i \in 1 .. data_off + n : i > data_off => rbuf[i - 1] = i - 1
        BY <1>1, <1>2, ContiguousBounds DEF IInv, ReceiverShape
    <2>2. \A i \in 1 .. data_off + n : i <= data_off => out[i] = i - 1
        BY <1>2 DEF IInv, ReceiverShape
    <2> QED
        BY <2>1, <2>2, <1>1, <1>2
<1>4. TypeOK'
    <2>1. out' \in [1 .. data_off' -> Int] /\ data_off' \in Nat
        BY <1>1, <1>2, <1>3
    <2>2. out' \in Seq(Int)
        BY <2>1, SeqDef
    <2> QED
        BY <2>2, <1>1, <1>2 DEF IInv, TypeOK, sender
<1>5. Got' = Got /\ Contiguous' = Contiguous /\ SentUpto(acked)' = SentUpto(acked)
    BY <1>1 DEF Got, Contiguous, SentUpto, sender
<1>6. PendingShape' /\ AckedShape' /\ NothingForgotten'
    BY <1>1, <1>5 DEF IInv, PendingShape, AckedShape, NothingForgotten, InFlight, IsOpen, sender
<1>7. PacketShape'
    BY <1>1, <1>5 DEF IInv, PacketShape, sender
<1>8. ReceiverShape'
    BY <1>1, <1>3, <1>5 DEF IInv, ReceiverShape, sender
<1> QED
    BY <1>4, <1>6, <1>7, <1>8 DEF IInv

LEMMA NextIInv == IInv /\ [Next]_vars => IInv'
<1> SUFFICES ASSUME IInv, [Next]_vars PROVE IInv'
    OBVIOUS
<1>1. ASSUME NEW n \in 1 .. MaxData, Write(n) PROVE IInv'
    BY <1>1, WriteIInv
<1>2. CASE Shutdown
    BY <1>2, ShutdownIInv
<1>3. ASSUME NEW s \in Slots, NEW off \in pending, NEW l \in 0 .. MaxData,
             SendStream(s, off, l)
      PROVE  IInv'
    BY <1>3, SendStreamIInv
<1>4. ASSUME NEW S \in SUBSET Slots, OnAck(S) PROVE IInv'
    BY <1>4, OnAckIInv
<1>5. ASSUME NEW s \in Slots, DeclareLost(s) PROVE IInv'
    BY <1>5, DeclareLostIInv
<1>6. ASSUME NEW s \in Slots, Expire(s) PROVE IInv'
    BY <1>6, ExpireIInv
<1>7. ASSUME NEW s \in Slots, Lose(s) PROVE IInv'
    BY <1>7, LoseIInv
<1>8. ASSUME NEW s \in Slots, Receive(s) PROVE IInv'
    BY <1>8, ReceiveIInv, ReceiveLateIInv
<1>9. ASSUME NEW n \in 1 .. MaxData, Consume(n) PROVE IInv'
    BY <1>9, ConsumeIInv
<1>10. CASE UNCHANGED vars
    <2>1. /\ Got' = Got /\ Contiguous' = Contiguous /\ InFlight' = InFlight
          /\ SentUpto(acked)' = SentUpto(acked)
        BY <1>10 DEF Got, Contiguous, InFlight, SentUpto, vars, sender, receiver
    <2>2. TypeOK' /\ PendingShape' /\ AckedShape' /\ NothingForgotten'
        BY <2>1, <1>10 DEF IInv, TypeOK, PendingShape, AckedShape, NothingForgotten, IsOpen,
                          vars, sender, receiver
    <2>3. PacketShape' /\ ReceiverShape'
        BY <2>1, <1>10 DEF IInv, PacketShape, ReceiverShape, vars, sender, receiver
    <2> QED
        BY <2>2, <2>3 DEF IInv
<1> QED
    BY <1>1, <1>2, <1>3, <1>4, <1>5, <1>6, <1>7, <1>8, <1>9, <1>10 DEF Next

(* The inductive invariant holds in every reachable state. *)
THEOREM Inductive == Spec => []IInv
    BY InitIInv, NextIInv, PTL DEF Spec

(* Every variable keeps its type; in particular the send buffer is never    *)
(* shifted by more than was written (quicly_sendstate_acked).               *)
THEOREM TypeCorrect == Spec => []TypeOK
<1>1. IInv => TypeOK
    BY DEF IInv
<1> QED
    BY <1>1, Inductive, PTL

(* Every byte written, and the end of stream, is acknowledged, pending or   *)
(* in flight, whatever the order of ACKs, losses and expiries.              *)
THEOREM NothingIsForgotten == Spec => []NothingForgotten
<1>1. IInv => NothingForgotten
    BY DEF IInv
<1> QED
    BY <1>1, Inductive, PTL

(* Acknowledged offsets are never pending: the assertions of sendstate.c.   *)
THEOREM AckedIsNotPending == Spec => []AckedNotPending
<1>1. IInv => AckedNotPending
    <2> SUFFICES ASSUME IInv PROVE AckedNotPending
        OBVIOUS
    <2>1. acked \subseteq 0 .. size_inflight
        BY ConstantsAssumption DEF IInv, TypeOK, PendingShape, AckedShape, ReceiverShape, Got,
                                  Offsets, IsOpen, UINT64_MAX, DataOffs
    <2> QED
        BY <2>1 DEF IInv, PendingShape, AckedShape, AckedNotPending
<1> QED
    BY <1>1, Inductive, PTL
(* A scheduled stream always has a byte, or its end, to put in a frame, and *)
(* reads it from its own place in the send buffer.                          *)
THEOREM EmitFindsData == Spec => []EmitHasData
<1>1. IInv => EmitHasData
    <2> USE ConstantsAssumption DEF UINT64_MAX
    <2> SUFFICES ASSUME IInv, ~closed, NEW off \in pending, \A x \in pending : off <= x
                 PROVE  (off < written \/ off = final_size) /\ EmitSource(off) = off
        BY DEF EmitHasData
    <2>1. /\ size_inflight \in 0 .. MaxData /\ written \in 0 .. MaxData
          /\ size_inflight <= written
          /\ final_size \in 0 .. MaxData \cup {UINT64_MAX}
          /\ off \in Nat
        BY DEF IInv, TypeOK, PendingShape, Offsets
    <2>2. off < written \/ (off = final_size /\ ~IsOpen)
        <3>1. CASE IsOpen
            BY <3>1, <2>1 DEF IInv, PendingShape
        <3>2. CASE ~IsOpen
            BY <3>2, <2>1 DEF IInv, PendingShape
        <3> QED
            BY <3>1, <3>2
    <2>3. FirstEnd(acked) <= final_size
        <3> SUFFICES ASSUME FirstEnd(acked) > final_size PROVE FALSE
            BY AckedBounds, <2>1
        <3>1. ~IsOpen /\ off \in 0 .. final_size
            BY <2>1, AckedBounds DEF IsOpen, IInv, PendingShape
        <3>2. off \in acked
            BY <3>1, <2>1, AckedBounds
        <3> QED
            BY <3>2 DEF IInv, AckedShape
    <2>4. shifted = FirstEnd(acked)
        BY <2>1, <2>3, AckedBounds DEF IInv, AckedShape, SentUpto
    <2> QED
        BY <2>1, <2>2, <2>4, AckedBounds DEF EmitSource
<1> QED
    BY <1>1, Inductive, PTL

(* The receive buffer holds the byte that was written at each offset.       *)
THEOREM DeliveryIsIntact == Spec => []IntactDelivery
<1>1. IInv => IntactDelivery
    <2> SUFFICES ASSUME IInv, ~closed, NEW x \in DataOffs, x < Contiguous
                 PROVE  rbuf[x] = x
        BY DEF IntactDelivery
    <2>1. x \in Got
        BY ContiguousBounds, ConstantsAssumption DEF DataOffs
    <2> QED
        BY <2>1 DEF IInv, ReceiverShape
<1> QED
    BY <1>1, Inductive, PTL

-------------------------------------------------------------------------------
(* Refinement. *)

(* The sender completes only when the receiver has completed. *)
LEMMA CompleteImpliesDone ==
    ASSUME IInv, ~closed, NEW a, a \subseteq Offsets, final_size # UINT64_MAX,
           FirstEnd(a) = final_size + 1,
           \A x \in a : x \in Got \/ (x = final_size /\ eos = final_size)
    PROVE  recv_done
<1> USE ConstantsAssumption DEF UINT64_MAX
<1>1. final_size \in 0 .. MaxData /\ \A m \in 0 .. final_size : m \in a
    BY FirstEndProp DEF IInv, TypeOK
<1>2. CASE ~recv_done
    <2>1. \A x \in 0 .. final_size - 1 : x \in received
        BY <1>1, <1>2 DEF Got
    <2>2. final_size \notin received
        BY <1>1 DEF IInv, TypeOK, PendingShape, ReceiverShape, IsOpen
    <2>3. eos = final_size
        BY <1>1, <1>2, <2>2 DEF Got
    <2> QED
        BY <2>1, <2>3, <1>1 DEF IInv, ReceiverShape
<1> QED
    BY <1>2

LEMMA RefineOnAck ==
    ASSUME IInv, IInv', NEW S \in SUBSET Slots, OnAck(S)
    PROVE  Reliable!Next
<1> USE ConstantsAssumption DEF UINT64_MAX
<1>1. /\ UNCHANGED <<size_inflight, final_size, written, receiver>> /\ ~closed
      /\ acked \subseteq acked' /\ acked' \subseteq Offsets
    BY DEF OnAck, IInv, TypeOK
<1>2. shifted' \in shifted .. Contiguous
    <2>1. shifted = SentUpto(acked) /\ shifted' <= SentUpto(acked)'
          /\ shifted \in Nat /\ shifted' \in Nat
        BY <1>1 DEF IInv, AckedShape, TypeOK
    <2>2. shifted <= shifted'
        <3>1. SentUpto(acked) <= SentUpto(acked)'
            <4>1. FirstEnd(acked) <= FirstEnd(acked')
                BY <1>1, FirstEndMonotone
            <4>2. FirstEnd(acked) \in 0 .. UINT64_MAX /\ FirstEnd(acked') \in 0 .. UINT64_MAX
                BY <1>1, FirstEndProp
            <4>3. final_size' = final_size /\ final_size \in Nat
                BY <1>1 DEF IInv, TypeOK
            <4> QED
                BY <4>1, <4>2, <4>3 DEF SentUpto
        <3>2. closed' => shifted' = shifted
            BY DEF OnAck
        <3>3. ~closed' => shifted' = SentUpto(acked)'
            BY DEF IInv, AckedShape
        <3> QED
            BY <3>1, <3>2, <3>3, <2>1
    <2>3. SentUpto(acked)' \in Nat /\ SentUpto(acked)' <= Contiguous
        <3> DEFINE u == SentUpto(acked)'
        <3>1. /\ u \in Nat /\ u <= final_size
              /\ \A m \in 0 .. u - 1 : m \in acked'
            BY <1>1, FirstEndProp DEF SentUpto, IInv, TypeOK
        <3>2. \A x \in acked' : x \in Got \/ x = final_size
            BY <1>1 DEF IInv, AckedShape, Got, receiver
        <3>3. 0 .. u - 1 \subseteq Got
            BY <3>1, <3>2 DEF IInv, TypeOK
        <3> QED
            BY <3>1, <3>3, ContiguousBounds
    <2> QED
        BY <2>1, <2>2, <2>3, ContiguousBounds
<1>3. SendComplete' => recv_done
    <2> SUFFICES ASSUME SendComplete' PROVE recv_done
        OBVIOUS
    <2>1. final_size # UINT64_MAX /\ FirstEnd(acked') = final_size + 1
        BY <1>1 DEF SendComplete, IsOpen
    <2>2. \A x \in acked' : x \in Got \/ (x = final_size /\ eos = final_size)
        BY <1>1 DEF IInv, AckedShape, Got, receiver
    <2> QED
        BY <2>1, <2>2, <1>1, CompleteImpliesDone
<1>4. SendComplete => SendComplete'
    <2> SUFFICES ASSUME SendComplete PROVE SendComplete'
        OBVIOUS
    <2>1. final_size # UINT64_MAX /\ FirstEnd(acked) = final_size + 1
        BY DEF SendComplete, IsOpen
    <2>2. FirstEnd(acked) <= FirstEnd(acked')
        BY <1>1, FirstEndMonotone
    <2>3. FirstEnd(acked') <= written' + 1 /\ final_size' = written'
          /\ FirstEnd(acked') \in Nat
        <3>1. \A x \in acked' : x < written' \/ x = final_size'
            <4>1. \A x \in acked' : x \in Got' \/ x = final_size'
                BY DEF IInv, AckedShape
            <4>2. \A x \in Got : x < written
                BY DEF IInv, TypeOK, PendingShape, ReceiverShape, Got, IsOpen, DataOffs
            <4>3. Got' = Got /\ written' = written
                BY <1>1 DEF Got, receiver
            <4> QED
                BY <4>1, <4>2, <4>3
        <3>2. final_size' = written' /\ written' \in Nat
            BY <2>1, <1>1 DEF IInv, PendingShape, IsOpen, TypeOK
        <3>3. /\ FirstEnd(acked') \in 0 .. UINT64_MAX
              /\ \A m \in 0 .. FirstEnd(acked') - 1 : m \in acked'
            BY <1>1, FirstEndProp
        <3>4. ~(FirstEnd(acked') > written' + 1)
            <4> SUFFICES ASSUME FirstEnd(acked') > written' + 1 PROVE FALSE
                OBVIOUS
            <4>1. written' + 1 \in acked'
                BY <3>2, <3>3
            <4> QED
                BY <4>1, <3>1, <3>2
        <3> QED
            BY <3>2, <3>3, <3>4
    <2> QED
        BY <2>1, <2>2, <2>3, <1>1 DEF SendComplete, IsOpen, IInv, TypeOK
<1>5. Contiguous' = Contiguous /\ IsOpen' = IsOpen
    BY <1>1 DEF Contiguous, IsOpen, receiver
<1>6. SendComplete' \in BOOLEAN
    BY DEF SendComplete, IsOpen
<1>7. Reliable!Acknowledge
    BY <1>1, <1>2, <1>3, <1>4, <1>5, <1>6 DEF Reliable!Acknowledge, receiver
<1> QED
    BY <1>7 DEF Reliable!Next

(* ContiguousBounds as a state predicate, to use it in the next state. *)
ContiguousIsMax ==
    /\ Contiguous \in 0 .. written
    /\ \A n \in Nat : 0 .. n - 1 \subseteq Got => n <= Contiguous

LEMMA ContiguousBoundsNext == IInv' => ContiguousIsMax'
<1>1. IInv => ContiguousIsMax
    BY ContiguousBounds DEF ContiguousIsMax
<1> QED
    BY <1>1, PTL

LEMMA RefineInit == Init => Reliable!Init
<1> SUFFICES ASSUME Init PROVE Reliable!Init
    OBVIOUS
<1> USE ConstantsAssumption DEF UINT64_MAX
<1>1. IsOpen /\ ~SendComplete
    BY DEF Init, IsOpen, SendComplete
<1>2. Contiguous = 0
    BY InitIInv, ContiguousBounds DEF Init
<1> QED
    BY <1>1, <1>2 DEF Init, Reliable!Init

LEMMA RefineProduce ==
    ASSUME IInv, IInv', (\E n \in 1 .. MaxData : Write(n)) \/ Shutdown
    PROVE  Reliable!Next
<1> USE ConstantsAssumption DEF UINT64_MAX
<1>1. /\ IsOpen /\ acked' = acked /\ shifted' = shifted
      /\ UNCHANGED receiver
    BY DEF Write, Shutdown
<1>2. written' >= written
    BY DEF Write, Shutdown, IInv, TypeOK
<1>3. Contiguous' = Contiguous
    BY <1>1 DEF Contiguous, receiver
<1>4. ~SendComplete
    BY <1>1 DEF SendComplete
<1>5. ~SendComplete'
    <2>1. CASE Shutdown
        <3>1. final_size' = written /\ written \in Nat
            BY <2>1 DEF Shutdown, IInv, TypeOK
        <3>2. FirstEnd(acked) <= written /\ FirstEnd(acked) \in 0 .. UINT64_MAX
            BY <1>1, AckedBounds
        <3> QED
            BY <3>1, <3>2, <1>1 DEF SendComplete
    <2>2. CASE \E n \in 1 .. MaxData : Write(n)
        BY <2>2, <1>1 DEF Write, SendComplete, IsOpen
    <2> QED
        BY <2>1, <2>2
<1>6. SendComplete' = SendComplete
    BY <1>4, <1>5 DEF SendComplete, IsOpen
<1>7. (~IsOpen)' \in BOOLEAN
    BY DEF IsOpen
<1>8. Reliable!Produce
    BY <1>1, <1>2, <1>3, <1>6, <1>7 DEF Reliable!Produce, receiver
<1> QED
    BY <1>8 DEF Reliable!Next

LEMMA RefineReceive ==
    ASSUME IInv, IInv', NEW s \in Slots, Receive(s), ~recv_done
    PROVE  Reliable!Next
<1> USE ConstantsAssumption DEF UINT64_MAX
<1>1. UNCHANGED sender /\ out' = out /\ recv_done' \in BOOLEAN
    BY DEF Receive, IInv, TypeOK
<1>2. Got \subseteq Got'
    BY ReceiveIInv
<1>3. Contiguous' \in Contiguous .. written
    <2>1. /\ Contiguous \in 0 .. written
          /\ 0 .. Contiguous - 1 \subseteq Got'
        BY <1>2, ContiguousBounds
    <2>2. /\ Contiguous' \in 0 .. written'
          /\ \A n \in Nat : 0 .. n - 1 \subseteq Got' => n <= Contiguous'
        BY ContiguousBoundsNext DEF ContiguousIsMax
    <2>3. written' = written /\ written \in Nat
        BY <1>1 DEF sender, IInv, TypeOK
    <2> QED
        BY <2>1, <2>2, <2>3
<1>4. recv_done' => ~IsOpen /\ Contiguous' = written
    <2>1. recv_done' => Contiguous' = eos' /\ eos' = final_size' /\ final_size' # UINT64_MAX
        BY DEF IInv, ReceiverShape, Contiguous
    <2>2. final_size' = final_size
        BY <1>1 DEF sender
    <2> QED
        BY <2>1, <2>2 DEF IInv, PendingShape, IsOpen
<1>5. SendComplete' = SendComplete /\ IsOpen' = IsOpen
    BY <1>1 DEF SendComplete, IsOpen, sender
<1>6. Reliable!Arrive
    BY <1>1, <1>3, <1>4, <1>5 DEF Reliable!Arrive, sender
<1> QED
    BY <1>6 DEF Reliable!Next

LEMMA RefineConsume ==
    ASSUME IInv, IInv', NEW n \in 1 .. MaxData, Consume(n)
    PROVE  Reliable!Next
<1>1. /\ UNCHANGED <<sender, received, recv_done, eos>>
      /\ data_off' = data_off + n /\ data_off + n <= Contiguous
    BY DEF Consume
<1>2. out' = [i \in 1 .. data_off' |-> i - 1] /\ out = [i \in 1 .. data_off |-> i - 1]
    BY DEF IInv, ReceiverShape
<1>3. data_off \in Nat /\ data_off' \in Nat /\ Contiguous \in Nat
    BY ContiguousBounds DEF IInv, TypeOK
<1>4. Len(out) = data_off
    BY <1>2, <1>3
<1>5. data_off' \in Len(out) .. Contiguous
    BY <1>1, <1>3, <1>4
<1>6. SendComplete' = SendComplete /\ IsOpen' = IsOpen /\ Contiguous' = Contiguous
    BY <1>1 DEF SendComplete, IsOpen, Contiguous, sender
<1>7. Reliable!Take
    BY <1>1, <1>2, <1>5, <1>6 DEF Reliable!Take, sender
<1> QED
    BY <1>7 DEF Reliable!Next

(* Every step is a step of the abstract stream or leaves it unchanged. *)
LEMMA RefineNext ==
    ASSUME IInv, IInv', [Next]_vars
    PROVE  [Reliable!Next]_(Reliable!vars)
<1> DEFINE Same == /\ UNCHANGED <<acked, final_size, written, shifted>>
                   /\ UNCHANGED receiver
<1>1. ASSUME Same PROVE UNCHANGED Reliable!vars
    BY <1>1 DEF Reliable!vars, SendComplete, IsOpen, Contiguous, receiver
<1>2. CASE (\E n \in 1 .. MaxData : Write(n)) \/ Shutdown
    BY <1>2, RefineProduce
<1>3. CASE \E s \in Slots, off \in pending, l \in 0 .. MaxData : SendStream(s, off, l)
    BY <1>3, <1>1 DEF SendStream
<1>4. CASE \E S \in SUBSET Slots : OnAck(S)
    BY <1>4, RefineOnAck
<1>5. CASE \E s \in Slots : DeclareLost(s)
    BY <1>5, <1>1 DEF DeclareLost
<1>6. CASE \E s \in Slots : Expire(s)
    BY <1>6, <1>1 DEF Expire
<1>7. CASE \E s \in Slots : Lose(s)
    BY <1>7, <1>1 DEF Lose, sender
<1>8. CASE \E s \in Slots : Receive(s)
    <2>1. CASE recv_done
        BY <1>8, <2>1, <1>1 DEF Receive, sender
    <2> QED
        BY <1>8, <2>1, RefineReceive
<1>9. CASE \E n \in 1 .. MaxData : Consume(n)
    BY <1>9, RefineConsume
<1>10. CASE UNCHANGED vars
    BY <1>10, <1>1 DEF vars, sender
<1> QED
    BY <1>2, <1>3, <1>4, <1>5, <1>6, <1>7, <1>8, <1>9, <1>10 DEF Next

(* The detailed stream implements the reliable, ordered byte stream, for    *)
(* every amount of data, number of packets and limit on ranges.             *)
THEOREM Refinement == Spec => ImplementsReliableStream
<1>1. IInv /\ IInv' /\ [Next]_vars => [Reliable!Next]_(Reliable!vars)
    BY RefineNext
<1> QED
    BY <1>1, RefineInit, Inductive, PTL DEF Spec, ImplementsReliableStream, Reliable!Spec
===============================================================================
