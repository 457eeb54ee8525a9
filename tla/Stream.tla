-------------------------------- MODULE Stream --------------------------------
(***************************************************************************)
(* One direction of a QUIC stream: the sender's sendstate and send buffer, *)
(* the packets that carry its STREAM frames, and the receiver's recvstate  *)
(* and receive buffer.                                                     *)
(*                                                                         *)
(* A quicly_ranges_t of [start, end) pairs is the set of the offsets it    *)
(* covers (module Ranges checks that add and subtract are set union and    *)
(* difference).  The end of stream occupies the offset final_size, as in   *)
(* sendstate.c.  The byte at offset i is represented by i.                 *)
(*                                                                         *)
(* A packet is a slot.  Its datagram is lost, delivered late or delivered  *)
(* out of order (duplicates are dropped by packet number before a frame is *)
(* looked at).  Its sentmap entry is in flight, declared lost, or gone.    *)
(* The capacity of a frame (datagram size, MAX_STREAM_DATA, MAX_DATA) is   *)
(* any length; module StreamControl covers the stream's flow control.      *)
(***************************************************************************)
EXTENDS Integers, FiniteSets, Sequences

CONSTANTS MaxData,        \* bound: bytes the application writes
          Slots,          \* bound: packets that exist at one time
          MaxSendRanges,  \* 256 in check_amount_of_state
          RangeCost,      \* 128 in check_amount_of_state
          MaxRecvRanges   \* stream->_recv_aux.max_ranges

ASSUME ConstantsAssumption ==
    /\ MaxData \in Nat
    /\ MaxSendRanges \in Nat /\ RangeCost \in Nat /\ MaxRecvRanges \in Nat

VARIABLES
    acked, pending, size_inflight, final_size,  \* quicly_sendstate_t
    written, shifted,                           \* the send buffer
    pkt,                                        \* sentmap entries, datagrams
    received, recv_done, eos, data_off,         \* quicly_recvstate_t
    rbuf, out,                                  \* the receive buffer
    closed                                      \* the connection has failed

sender   == <<acked, pending, size_inflight, final_size, written, shifted>>
receiver == <<received, recv_done, eos, data_off, rbuf, out>>
vars     == <<sender, pkt, receiver, closed>>

(* Larger than every final size plus one. *)
UINT64_MAX == MaxData + 2
Offsets    == 0 .. UINT64_MAX - 1
DataOffs   == 0 .. MaxData - 1
NoByte     == MaxData + 3

Packet == [map : {"inflight", "lost", "gone"},   \* the sentmap entry
           net : {"transit", "received", "none"},\* the datagram
           off : 0 .. MaxData, len : 0 .. MaxData, fin : BOOLEAN,
           src : Int]                            \* first byte put in the frame

-------------------------------------------------------------------------------
(* Ranges as sets. *)

(* end of the first range of a set that starts at 0: ranges[0].end *)
FirstEnd(S) ==
    CHOOSE n \in 0 .. UINT64_MAX : n \notin S /\ \A m \in 0 .. n - 1 : m \in S

(* ranges[num_ranges - 1].end = end *)
LastEndIs(S, end) == \E x \in S : x + 1 = end /\ \A y \in S : y <= x

NumRanges(S) == Cardinality({x \in S : x + 1 \notin S})

(* num_ranges of a set initialised with the empty range [0, 0) *)
NumRangesFrom0(S) == NumRanges(S) + (IF 0 \in S THEN 0 ELSE 1)

(* the offsets a STREAM frame stands for in the sentmap: args.start..end *)
Sent(p) == p.off .. (p.off + p.len + (IF p.fin THEN 1 ELSE 0) - 1)

-------------------------------------------------------------------------------
(* quicly_sendstate_t *)

IsOpen == final_size = UINT64_MAX

(* Mutant: complete as soon as all data is acknowledged, without the FIN. *)
SendCompleteWithoutEos == ~IsOpen /\ FirstEnd(acked) >= final_size

(* quicly_sendstate_transfer_complete *)
SendComplete == ~IsOpen /\ FirstEnd(acked) = final_size + 1

(* quicly_sendstate_activate on pending ranges p and final size fs *)
Activate(p, fs) ==
    LET end_off == IF fs = UINT64_MAX THEN fs ELSE fs + 1
    IN  IF LastEndIs(p, end_off) THEN p ELSE p \cup (size_inflight .. end_off - 1)

(* check_amount_of_state *)
StateExhausted(a, p) ==
    LET n == NumRangesFrom0(a) + NumRanges(p)
    IN  n >= MaxSendRanges /\ n * RangeCost > size_inflight - FirstEnd(a)

-------------------------------------------------------------------------------
(* The sending application (streambuf.c). *)

(* quicly_sendbuf_write_vec: append n bytes, then quicly_stream_sync_sendbuf *)
Write(n) ==
    /\ ~closed /\ IsOpen
    /\ written + n <= MaxData
    /\ written' = written + n
    /\ pending' = Activate(pending, final_size)
    /\ UNCHANGED <<acked, size_inflight, final_size, shifted, pkt, receiver, closed>>

(* Mutant: the end of stream is not given an offset of its own. *)
ShutdownWithoutEos ==
    /\ ~closed /\ IsOpen
    /\ final_size' = written
    /\ pending' = IF LastEndIs(pending, UINT64_MAX)
                    THEN pending \cap (0 .. written - 1)
                    ELSE pending \cup (size_inflight .. written - 1)
    /\ UNCHANGED <<acked, size_inflight, written, shifted, pkt, receiver, closed>>

(* quicly_streambuf_egress_shutdown: quicly_sendstate_shutdown, then sync   *)
Shutdown ==
    /\ ~closed /\ IsOpen
    /\ final_size' = written
    /\ LET p == IF LastEndIs(pending, UINT64_MAX)
                  THEN pending \cap (0 .. written)
                  ELSE pending \cup (size_inflight .. written)
       IN  pending' = Activate(p, written)
    /\ UNCHANGED <<acked, size_inflight, written, shifted, pkt, receiver, closed>>

-------------------------------------------------------------------------------
(* Sending a packet. *)

NoPacket == [map |-> "gone", net |-> "none", off |-> 0, len |-> 0,
             fin |-> FALSE, src |-> 0]

(* A slot can be used again when its sentmap entry is gone and its datagram *)
(* is no longer travelling.                                                 *)
Settle(p) == IF p.map = "gone" /\ p.net # "transit" THEN NoPacket ELSE p

Free(s) == pkt[s] = NoPacket

(* Mutant: the emit offset is not relative to the acked bytes. *)
EmitSourceAbsolute(off) == shifted + off

(* offset, in the stream, of the byte at emit_off in the send buffer *)
EmitSource(off) == shifted + (off - FirstEnd(acked))

(* quicly_send_stream: a frame at the lowest pending offset.  l = 0 is the  *)
(* frame that carries only FIN; otherwise l is capped by the first pending  *)
(* range and by what quicly_sendbuf_emit finds in the buffer.               *)
SendStream(s, off, l) ==
    /\ ~closed /\ Free(s)
    /\ \A x \in pending : off <= x
    /\ \/ off = final_size /\ l = 0
       \/ /\ off # final_size /\ l > 0
          /\ off .. (off + l - 1) \subseteq pending
          /\ off + l <= final_size /\ off + l <= written
    /\ LET is_fin    == off + l = final_size
           wrote_all == off + l = written
           frame     == [map |-> "inflight", net |-> "transit", off |-> off,
                         len |-> l, fin |-> is_fin, src |-> EmitSource(off)]
           inflight  == IF size_inflight < off + l THEN off + l ELSE size_inflight
       IN  /\ size_inflight' = inflight
           /\ pending' = (pending \ Sent(frame)) \
                         (IF wrote_all THEN inflight .. UINT64_MAX - 1 ELSE {})
           /\ pkt' = [pkt EXCEPT ![s] = frame]
    /\ UNCHANGED <<acked, final_size, written, shifted, receiver, closed>>

(* bytes below the first range of a that lie before the end of stream *)
SentUpto(a) == IF FirstEnd(a) > final_size THEN final_size ELSE FirstEnd(a)

(* Mutant: the end of stream is counted as a byte of the send buffer. *)
BytesToShiftWithEos(a) == FirstEnd(a) - FirstEnd(acked)

(* *bytes_to_shift of quicly_sendstate_acked, a being the new acked ranges *)
BytesToShift(a) == SentUpto(a) - SentUpto(acked)

(* Mutant: acknowledged ranges stay pending. *)
AckedPendingKept(run) == pending

(* quicly_ranges_subtract(&state->pending, ...) of quicly_sendstate_acked *)
AckedPending(run) == pending \ run

(* on_ack_stream, acked: quicly_sendstate_acked for one contiguous run of   *)
(* frames (active_acked_cache joins adjacent frames of an ACK), then        *)
(* on_send_shift.  Exhaustion of state closes the connection instead.       *)
OnAck(S) ==
    /\ ~closed
    /\ S # {} /\ \A s \in S : pkt[s].map # "gone" /\ pkt[s].net = "received"
    /\ LET run == UNION {Sent(pkt[s]) : s \in S}
           a   == acked \cup run
       IN  /\ \A x, y \in run : x .. y \subseteq run
           /\ acked' = a
           /\ pending' = AckedPending(run)
           /\ closed' = StateExhausted(a, AckedPending(run))
           /\ shifted' = IF closed' THEN shifted ELSE shifted + BytesToShift(a)
    /\ pkt' = [s \in Slots |-> IF s \in S THEN NoPacket ELSE pkt[s]]
    /\ UNCHANGED <<size_inflight, final_size, written, receiver>>

(* Mutant: a lost frame is put back only if none of it was acknowledged. *)
LostPendingWhole(s) ==
    IF Sent(pkt[s]) \cap acked = {} THEN pending \cup Sent(pkt[s]) ELSE pending

(* the ranges quicly_sendstate_lost puts back: those not acknowledged *)
LostPending(s) == pending \cup (Sent(pkt[s]) \ acked)

(* quicly_sendstate_lost, which on_ack_stream calls for a frame not acked   *)
SendstateLost(s) ==
    /\ pending' = LostPending(s)
    /\ closed' = StateExhausted(acked, LostPending(s))

(* QUICLY_SENTMAP_EVENT_LOST (detect_loss) or _PTO (mark_frames_on_pto): the *)
(* entry stays in the sentmap so that a late ACK still counts.              *)
DeclareLost(s) ==
    /\ ~closed /\ pkt[s].map = "inflight"
    /\ SendstateLost(s)
    /\ pkt' = [pkt EXCEPT ![s].map = "lost"]
    /\ UNCHANGED <<acked, size_inflight, final_size, written, shifted, receiver>>

(* QUICLY_SENTMAP_EVENT_EXPIRED: an old entry is discarded; one that is in  *)
(* flight (its epoch is discarded) is reported as lost first.               *)
Expire(s) ==
    /\ ~closed
    /\ \/ pkt[s].map = "inflight" /\ SendstateLost(s)
       \/ pkt[s].map = "lost" /\ UNCHANGED <<pending, closed>>
    /\ pkt' = [pkt EXCEPT ![s] = Settle([pkt[s] EXCEPT !.map = "gone"])]
    /\ UNCHANGED <<acked, size_inflight, final_size, written, shifted, receiver>>

-------------------------------------------------------------------------------
(* The network and the receiver. *)

Lose(s) ==
    /\ ~closed /\ pkt[s].net = "transit"
    /\ pkt' = [pkt EXCEPT ![s] = Settle([pkt[s] EXCEPT !.net = "none"])]
    /\ UNCHANGED <<sender, receiver, closed>>

(* Mutant: the part of the frame that was consumed already is not skipped. *)
StoredUnadjusted(s, x) ==
    pkt[s].src + (x - (IF pkt[s].off < data_off THEN data_off ELSE pkt[s].off))

(* the byte of the frame that on_receive puts at offset x (buf_offset and   *)
(* apply_off of apply_stream_frame)                                         *)
Stored(s, x) == pkt[s].src + (x - pkt[s].off)

(* apply_stream_frame and quicly_recvstate_update for a frame of an honest  *)
(* sender; the application's on_receive stores the new bytes.  A packet     *)
(* whose frame is refused is not acknowledged: the connection closes.       *)
Receive(s) ==
    /\ ~closed /\ pkt[s].net = "transit"
    /\ IF recv_done
         THEN /\ pkt' = [pkt EXCEPT ![s] = Settle([pkt[s] EXCEPT !.net = "received"])]
              /\ UNCHANGED <<receiver, closed>>
         ELSE LET end   == pkt[s].off + pkt[s].len
                  neos  == IF eos = UINT64_MAX /\ pkt[s].fin THEN end ELSE eos
                  bad   == IF eos = UINT64_MAX
                             THEN pkt[s].fin /\ \E x \in received : x >= end
                             ELSE end > eos
                  fresh == {x \in pkt[s].off .. end - 1 : x >= data_off}
                  rcv   == received \cup fresh
                  full  == fresh # {} /\ NumRangesFrom0(rcv) > MaxRecvRanges
                  fail  == bad \/ full
                  done  == IF end <= data_off
                             THEN FirstEnd(received) = neos
                             ELSE rcv = 0 .. neos - 1
              IN  /\ closed' = fail
                  /\ eos' = neos
                  /\ received' = IF bad THEN received
                                 ELSE IF ~full /\ done THEN {} ELSE rcv
                  /\ recv_done' = (~fail /\ done)
                  /\ rbuf' = IF fail THEN rbuf
                             ELSE [x \in DataOffs |->
                                     IF x \in fresh THEN Stored(s, x) ELSE rbuf[x]]
                  /\ pkt' = [pkt EXCEPT ![s] = Settle([pkt[s] EXCEPT !.net = IF fail THEN "none" ELSE "received"])]
                  /\ UNCHANGED <<data_off, out>>
    /\ UNCHANGED sender

(* bytes from 0 without a gap: quicly_recvstate_bytes_available + data_off *)
Contiguous == IF recv_done THEN eos ELSE FirstEnd(received)

(* quicly_recvbuf_shift: the application takes n bytes, then sync_recvbuf *)
Consume(n) ==
    /\ ~closed
    /\ data_off + n <= Contiguous
    /\ data_off' = data_off + n
    /\ out' = [i \in 1 .. data_off + n |-> IF i <= data_off THEN out[i] ELSE rbuf[i - 1]]
    /\ UNCHANGED <<sender, pkt, received, recv_done, eos, rbuf, closed>>

-------------------------------------------------------------------------------
Init ==
    /\ acked = {} /\ pending = {} /\ size_inflight = 0 /\ final_size = UINT64_MAX
    /\ written = 0 /\ shifted = 0
    /\ pkt = [s \in Slots |-> NoPacket]
    /\ received = {} /\ recv_done = FALSE /\ eos = UINT64_MAX /\ data_off = 0
    /\ rbuf = [x \in DataOffs |-> NoByte] /\ out = << >>
    /\ closed = FALSE

Next ==
    \/ \E n \in 1 .. MaxData : Write(n)
    \/ Shutdown
    \/ \E s \in Slots, off \in pending, l \in 0 .. MaxData : SendStream(s, off, l)
    \/ \E S \in SUBSET Slots : OnAck(S)
    \/ \E s \in Slots : DeclareLost(s)
    \/ \E s \in Slots : Expire(s)
    \/ \E s \in Slots : Lose(s)
    \/ \E s \in Slots : Receive(s)
    \/ \E n \in 1 .. MaxData : Consume(n)

Spec == Init /\ [][Next]_vars

(* The send loop runs while there is something to send, the loss timer      *)
(* fires while packets are outstanding, old sentmap entries are discarded,  *)
(* no datagram travels for ever; and a frame that is sent, or acknowledged, *)
(* again and again gets through in the end, before its sentmap entry has    *)
(* been discarded (entries are kept for four PTOs, loss.c:24-52).           *)
Fairness ==
    /\ WF_vars(\E s \in Slots, off \in pending, l \in 0 .. MaxData : SendStream(s, off, l))
    /\ \A s \in Slots : /\ WF_vars(DeclareLost(s) \/ Expire(s))
                        /\ WF_vars(Lose(s) \/ Receive(s))
    /\ \A o \in 0 .. MaxData :
          /\ SF_vars(\E s \in Slots : pkt[s].map # "gone" /\ pkt[s].off = o /\ Receive(s))
          /\ SF_vars(\E S \in SUBSET Slots : OnAck(S) /\ \E s \in S : pkt[s].off = o)

FairSpec == Spec /\ Fairness

-------------------------------------------------------------------------------
(* Every variable has its type. *)
TypeOK ==
    /\ acked \subseteq Offsets /\ pending \subseteq Offsets
    /\ size_inflight \in 0 .. MaxData
    /\ final_size \in 0 .. MaxData \cup {UINT64_MAX}
    /\ written \in 0 .. MaxData /\ shifted \in 0 .. MaxData
    /\ pkt \in [Slots -> Packet]
    /\ received \subseteq DataOffs /\ recv_done \in BOOLEAN
    /\ eos \in 0 .. MaxData \cup {UINT64_MAX}
    /\ data_off \in 0 .. MaxData
    /\ rbuf \in [DataOffs -> Int] /\ out \in Seq(Int)
    /\ closed \in BOOLEAN

InFlight == UNION {Sent(pkt[s]) : s \in {t \in Slots : pkt[t].map = "inflight"}}

(* Nothing is forgotten: as long as the connection lives, every byte that   *)
(* was written, and the end of stream once the application has shut the     *)
(* stream down, is acknowledged, scheduled to be sent, or carried by a      *)
(* packet whose loss would put it back into pending (sendstate.c:120-174,   *)
(* quicly.c:4587-4601, whatever the order of ACKs, losses and expiries).    *)
NothingForgotten ==
    /\ 0 .. written - 1 \subseteq acked \cup pending \cup InFlight
    /\ ~IsOpen => final_size \in acked \cup pending \cup InFlight

(* What is acknowledged is never sent again, and nothing is pending beyond  *)
(* what was written; it implies the assertions at sendstate.c:130 and :172  *)
(* that pending starts at or after the end of the first acked range.        *)
AckedNotPending ==
    /\ acked \cap pending = {}
    /\ acked \subseteq 0 .. size_inflight
    /\ size_inflight <= written
    /\ ~IsOpen => final_size = written /\ pending \subseteq 0 .. final_size

(* Whenever the stream is scheduled the frame is not empty (the assertions  *)
(* len != 0 of quicly_send_stream, quicly.c:4527 and :4542), and the bytes  *)
(* read from the send buffer, which has been shifted by what was acked, are *)
(* the ones that belong at the frame's offset.                              *)
EmitHasData ==
    ~closed => \A off \in pending :
        (\A x \in pending : off <= x) =>
            /\ off < written \/ off = final_size
            /\ EmitSource(off) = off

(* The receive buffer holds, at each offset, the byte written there: late,  *)
(* partly overlapping and repeated frames never misplace data               *)
(* (quicly.c:2364-2379, recvstate.c:66-77).                                 *)
IntactDelivery ==
    ~closed => \A x \in DataOffs : x < Contiguous => rbuf[x] = x

(* The stream as its two applications see it. *)
Reliable == INSTANCE ReliableStream
              WITH finished <- ~IsOpen, avail <- Contiguous, eof <- recv_done,
                   released <- shifted, done <- SendComplete

(* The protocol machinery implements a reliable, ordered byte stream: data  *)
(* is handed over in order and unaltered, end of stream is reported only    *)
(* when everything is there, send buffers are released only for data that   *)
(* has arrived, and the sender completes only after the receiver.           *)
ImplementsReliableStream == Reliable!Spec

(* A stream that is shut down is eventually delivered whole and the sender  *)
(* learns of it.                                                            *)
EventuallyComplete == ~IsOpen ~> (SendComplete /\ recv_done)
===============================================================================
