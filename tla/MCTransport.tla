---------------------------- MODULE MCTransport ----------------------------
(***************************************************************************)
(* Two data structures of a QUIC connection, put together for TLC: the     *)
(* arrays of ranges (Ranges) and the connection IDs (ConnectionIds).  The  *)
(* one that moves is `part`; the other stays in an initial state.          *)
(***************************************************************************)
EXTENDS ConnectionIds

CONSTANT MaxNum   \* bound: the numbers in the ranges are 0 .. MaxNum

ASSUME TransportAssumption == MaxNum \in Nat

VARIABLES part,
          ranges, capacity, from0, covered   \* of Ranges

Array == INSTANCE Ranges

arrayVars == <<ranges, capacity, from0, covered>>

TransportInit ==
    /\ Init
    /\ \/ part = "ranges" /\ Array!Init
       \/ part = "cids" /\ ranges = <<>> /\ capacity = 0 /\ from0 = FALSE /\ covered = {}

TransportNext ==
    \/ part = "ranges" /\ Array!Next /\ UNCHANGED <<part, vars>>
    \/ part = "cids" /\ Next /\ UNCHANGED <<part, arrayVars>>

TransportSpec == TransportInit /\ [][TransportNext]_<<part, vars, arrayVars>>

(* The array of quicly_ranges_t is the set it stands for, in normal form    *)
(* and within its memory, whatever is added and subtracted and whichever    *)
(* allocation fails; quicly_ranges_next_missing is the least number that is *)
(* missing.                                                                 *)
RangesStandForSets ==
    part = "ranges" =>
        Array!FitsCapacity /\ Array!NormalForm /\ Array!StandsForSet /\ Array!NextMissingIsLeast
=============================================================================
