-------------------------------- MODULE Ranges --------------------------------
(***************************************************************************)
(* quicly_ranges_t: a set of numbers as a sorted array of half-open ranges *)
(* [start, end).  The ACK queue, the acked and pending offsets of a stream *)
(* and the offsets received are all kept this way.  Slot numbers count     *)
(* from 1.  A call to malloc or realloc may fail.                          *)
(***************************************************************************)
EXTENDS Integers, Sequences, FiniteSets

CONSTANT MaxNum   \* bound: numbers are 0 .. MaxNum

VARIABLES ranges,    \* the array: num_ranges is its length
          capacity,
          from0,     \* the array was initialised with the empty range [0, 0)
          covered    \* reference: the set the array must stand for

vars == <<ranges, capacity, from0, covered>>

Elements(rs) == UNION {rs[i].start .. rs[i].end - 1 : i \in DOMAIN rs}

Largest(S) == CHOOSE x \in S : \A y \in S : y <= x

-------------------------------------------------------------------------------
(* A call sees the array and the capacity and leaves new ones; ok is FALSE *)
(* when it returns PTLS_ERROR_NO_MEMORY.                                   *)
Result(rs, cap, ok) == [ranges |-> rs, capacity |-> cap, ok |-> ok]

(* quicly_ranges_init, quicly_ranges_clear *)
Empty == Result(<< >>, 1, TRUE)

(* quicly_ranges_init_with_range(0, 0): the acked offsets of a sendstate and *)
(* the received ones of a recvstate always keep a range that starts at 0.   *)
Origin == Result(<<[start |-> 0, end |-> 0]>>, 1, TRUE)

(* insert_at: grows the array when it is full *)
InsertAt(rs, cap, start, end, slot, mem) ==
    LET new == SubSeq(rs, 1, slot - 1) \o <<[start |-> start, end |-> end]>>
               \o SubSeq(rs, slot, Len(rs))
    IN  IF Len(rs) < cap THEN Result(new, cap, TRUE)
        ELSE IF ~mem THEN Result(rs, cap, FALSE)
        ELSE Result(new, IF cap < 4 THEN 4 ELSE cap * 2, TRUE)

(* the capacity left when n ranges remain: a sparse array is halved *)
ShrunkCapacity(cap, n, mem) ==
    IF cap > 4 /\ n * 3 <= cap /\ mem THEN cap \div 2 ELSE cap

(* quicly_ranges_drop_by_range_indices: removes the slots from .. to - 1 *)
DropByRangeIndices(rs, cap, from, to, mem) ==
    LET new == SubSeq(rs, 1, from - 1) \o SubSeq(rs, to, Len(rs))
    IN  Result(new, ShrunkCapacity(cap, Len(new), mem), TRUE)

(* merge_update: the slots slot .. end_slot become one range *)
MergeUpdate(rs, cap, start, end, slot, end_slot, mem) ==
    LET lo  == IF start < rs[slot].start THEN start ELSE rs[slot].start
        hi  == IF end < rs[end_slot].end THEN rs[end_slot].end ELSE end
        new == [rs EXCEPT ![slot] = [start |-> lo, end |-> hi]]
    IN  IF slot = end_slot THEN Result(new, cap, TRUE)
        ELSE DropByRangeIndices(new, cap, slot + 1, end_slot + 1, mem)

(* quicly_ranges_add.  end_slot is the last slot that starts at or before   *)
(* end; left are the slots up to it that end at or before start.            *)
Add(rs, cap, start, end, mem) ==
    LET below    == {i \in DOMAIN rs : rs[i].start <= end}
        end_slot == Largest(below)
        left     == {i \in below : rs[i].end <= start}
        slot     == Largest(left)
    IN  IF start = end THEN Result(rs, cap, TRUE)
        ELSE IF below = {} THEN InsertAt(rs, cap, start, end, 1, mem)
        ELSE IF left = {} THEN MergeUpdate(rs, cap, start, end, 1, end_slot, mem)
        ELSE IF rs[slot].end = start THEN MergeUpdate(rs, cap, start, end, slot, end_slot, mem)
        ELSE IF slot = end_slot THEN InsertAt(rs, cap, start, end, slot + 1, mem)
        ELSE MergeUpdate(rs, cap, start, end, slot + 1, end_slot, mem)

(* quicly_ranges_subtract within one slot: trim it, split it or remove it *)
SubtractInSlot(rs, cap, start, end, slot, mem) ==
    LET r == rs[slot]
    IN  IF end <= r.start THEN Result(rs, cap, TRUE)
        ELSE IF start <= r.start /\ end = r.end
          THEN DropByRangeIndices(rs, cap, slot, slot + 1, mem)
        ELSE IF start <= r.start THEN Result([rs EXCEPT ![slot].start = end], cap, TRUE)
        ELSE IF end = r.end THEN Result([rs EXCEPT ![slot].end = start], cap, TRUE)
        ELSE LET split == InsertAt(rs, cap, end, r.end, slot + 1, mem)
             IN  IF split.ok THEN [split EXCEPT !.ranges[slot].end = start] ELSE split

(* quicly_ranges_subtract from slot onwards: cut the first slot, cut the    *)
(* last one, remove those between                                           *)
SubtractAcross(rs, cap, start, end, slot, mem) ==
    LET cut_first   == start > rs[slot].start
        shrink_from == IF cut_first THEN slot + 1 ELSE slot
        stops       == {i \in DOMAIN rs : i > slot /\ end < rs[i].end}
        to          == IF stops = {} THEN Len(rs) + 1
                       ELSE CHOOSE i \in stops : \A j \in stops : i <= j
        new         == [i \in DOMAIN rs |->
                          IF i = slot /\ cut_first THEN [rs[i] EXCEPT !.end = start]
                          ELSE IF i = to /\ rs[i].start < end THEN [rs[i] EXCEPT !.start = end]
                          ELSE rs[i]]
    IN  IF shrink_from = to THEN Result(new, cap, TRUE)
        ELSE DropByRangeIndices(new, cap, shrink_from, to, mem)

(* Mutant: the first slot is looked for by its start instead of its end. *)
SubtractFromWrongSlot(rs, cap, start, end, mem) ==
    LET slots == {i \in DOMAIN rs : rs[i].start >= start}
        slot  == CHOOSE i \in slots : \A j \in slots : i <= j
    IN  IF start = end \/ slots = {} THEN Result(rs, cap, TRUE)
        ELSE IF end <= rs[slot].end THEN SubtractInSlot(rs, cap, start, end, slot, mem)
        ELSE SubtractAcross(rs, cap, start, end, slot, mem)

(* quicly_ranges_subtract: slot is the first that ends at or after start *)
Subtract(rs, cap, start, end, mem) ==
    LET slot == CHOOSE i \in DOMAIN rs : /\ rs[i].end >= start
                                         /\ \A j \in 1 .. i - 1 : rs[j].end < start
    IN  IF start = end \/ rs = << >> THEN Result(rs, cap, TRUE)
        ELSE IF end <= rs[1].start \/ rs[Len(rs)].end <= start THEN Result(rs, cap, TRUE)
        ELSE IF end <= rs[slot].end THEN SubtractInSlot(rs, cap, start, end, slot, mem)
        ELSE SubtractAcross(rs, cap, start, end, slot, mem)

(* quicly_ranges_next_missing.  The slots are walked downwards while they   *)
(* end at or after lower; the walk stops early in the gap that holds lower. *)
NextMissing(rs, lower) ==
    LET above  == {i \in DOMAIN rs : rs[i].end >= lower}
        lowest == CHOOSE i \in above : \A j \in above : i <= j
        in_gap == lowest # 1 /\ rs[lowest].start > lower
    IN  IF above = {} \/ in_gap THEN lower ELSE rs[lowest].end

-------------------------------------------------------------------------------
Init ==
    /\ from0 \in BOOLEAN /\ covered = {}
    /\ LET new == IF from0 THEN Origin ELSE Empty
       IN  ranges = new.ranges /\ capacity = new.capacity

(* A call that fails for want of memory must leave the set as it was. *)
Apply(result, expected) ==
    /\ ranges' = result.ranges /\ capacity' = result.capacity
    /\ covered' = IF result.ok THEN expected ELSE covered
    /\ from0' = (from0 /\ result # Empty)

CallAdd(start, end, mem) ==
    Apply(Add(ranges, capacity, start, end, mem), covered \cup (start .. end - 1))

(* Nothing is subtracted from the arrays that keep a range at 0. *)
CallSubtract(start, end, mem) ==
    ~from0 /\ Apply(Subtract(ranges, capacity, start, end, mem), covered \ (start .. end - 1))

(* as record_pn and do_on_ack_ack drop ACK blocks beyond the maximum *)
CallDrop(from, to, mem) ==
    /\ ~from0
    /\ Apply(DropByRangeIndices(ranges, capacity, from, to, mem),
             covered \ Elements(SubSeq(ranges, from, to - 1)))

Clear == Apply(Empty, {})

Next ==
    \/ \E start \in 0 .. MaxNum, mem \in BOOLEAN : \E end \in start .. MaxNum :
          CallAdd(start, end, mem)
    \/ \E start \in 0 .. MaxNum, mem \in BOOLEAN : \E end \in start .. MaxNum :
          CallSubtract(start, end, mem)
    \/ \E from \in DOMAIN ranges, mem \in BOOLEAN : \E to \in from + 1 .. Len(ranges) + 1 :
          CallDrop(from, to, mem)
    \/ Clear

Spec == Init /\ [][Next]_vars

-------------------------------------------------------------------------------
(* The array never outgrows its memory: insertions grow it in time and a    *)
(* shrunken array still holds every range (ranges.c:44, :69).               *)
FitsCapacity == Len(ranges) <= capacity

(* The array is in normal form: the ranges are not empty, are in order, and *)
(* neither overlap nor touch; where the first range must start at 0 it does, *)
(* and ranges[0].end is the first number missing.                           *)
NormalForm ==
    /\ from0 => ranges[1].start = 0
    /\ \A i \in DOMAIN ranges :
          \/ ranges[i].start < ranges[i].end
          \/ from0 /\ i = 1 /\ ranges[i].end = 0
    /\ \A i \in 1 .. Len(ranges) - 1 : ranges[i].end < ranges[i + 1].start

(* Every sequence of calls, some of which run out of memory half way,       *)
(* leaves exactly the set that union and difference would.                  *)
StandsForSet == Elements(ranges) = covered

(* next_missing returns the least number, at or after lower, that is not in *)
(* the set; numbers below the first range count as present, since what was  *)
(* removed from the front of an ACK queue has been dealt with.              *)
NextMissingIsLeast ==
    ~from0 => \A lower \in 0 .. MaxNum :
        LET first == IF ranges = << >> THEN lower
                     ELSE IF ranges[1].start > lower THEN ranges[1].start ELSE lower
            n     == NextMissing(ranges, lower)
        IN  n \notin covered /\ first .. n - 1 \subseteq covered /\ n >= lower
===============================================================================
