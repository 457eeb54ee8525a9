---------------------------- MODULE RangesProofs ----------------------------
(***************************************************************************)
(* The arrays of quicly_ranges_t for all numbers, all sequences of calls   *)
(* and all failures of malloc: every call leaves the set that union and    *)
(* difference would, in normal form and within the memory of the array.    *)
(*                                                                         *)
(* NormalForm compares neighbours; what the searches of the calls rely on  *)
(* is that any two ranges are in order, and that is the inductive form.    *)
(***************************************************************************)
EXTENDS MCTransport, TLAPS, SequenceTheorems, WellFoundedInduction

Slot == [start : Nat, end : Nat]
Ordered(rs) == \A i, j \in DOMAIN rs : i < j => rs[i].end < rs[j].start
(* No range is empty but the first of an array that keeps one at 0. *)
Proper(rs, f) ==
    /\ f => rs # <<>> /\ rs[1].start = 0
    /\ \A i \in DOMAIN rs : rs[i].start < rs[i].end \/ (f /\ i = 1 /\ rs[i].start = 0 /\ rs[i].end = 0)
Good(rs, f) == rs \in Seq(Slot) /\ Ordered(rs) /\ Proper(rs, f)
Fits(rs, cap) == cap \in Nat /\ Len(rs) <= cap
Holds(r, x) == r.start <= x /\ x < r.end
Member(rs, x) == \E i \in DOMAIN rs : Holds(rs[i], x)

-----------------------------------------------------------------------------
(* Sequences, slot by slot. *)

LEMMA SlotTypes ==
    ASSUME NEW rs \in Seq(Slot), NEW i \in DOMAIN rs
    PROVE  rs[i] \in Slot /\ rs[i].start \in Nat /\ rs[i].end \in Nat /\ i \in 1 .. Len(rs) /\ Len(rs) \in Nat
<1>1. rs[i] \in Slot
  OBVIOUS
<1> QED
  BY <1>1 DEF Slot

\* The numbers of an array are those its slots hold.
LEMMA InElements ==
    ASSUME NEW rs \in Seq(Slot)
    PROVE  Array!Elements(rs) \subseteq Nat /\ \A x \in Nat : x \in Array!Elements(rs) <=> Member(rs, x)
<1>1. \A i \in DOMAIN rs : rs[i].start \in Nat /\ rs[i].end \in Nat
  BY SlotTypes
<1>2. ASSUME NEW x PROVE x \in Array!Elements(rs) <=> \E i \in DOMAIN rs : x \in rs[i].start .. rs[i].end - 1
  BY DEF Array!Elements
<1>3. ASSUME NEW x \in Array!Elements(rs) PROVE x \in Nat
  BY <1>1, <1>2
<1>4. ASSUME NEW x \in Nat PROVE x \in Array!Elements(rs) <=> Member(rs, x)
  <2>1. ASSUME NEW i \in DOMAIN rs PROVE x \in rs[i].start .. rs[i].end - 1 <=> Holds(rs[i], x)
    BY <1>1 DEF Holds
  <2> QED
    BY <1>2, <2>1 DEF Member
<1> QED
  BY <1>3, <1>4

\* An array from which the slots from .. to - 1 are removed.
LEMMA Spliced ==
    ASSUME NEW rs \in Seq(Slot), NEW from \in 1 .. Len(rs) + 1, NEW to \in from .. Len(rs) + 1
    PROVE  LET new == SubSeq(rs, 1, from - 1) \o SubSeq(rs, to, Len(rs))
           IN  /\ new \in Seq(Slot) /\ Len(new) = Len(rs) - (to - from)
               /\ \A i \in 1 .. Len(new) : new[i] = IF i < from THEN rs[i] ELSE rs[i + (to - from)]
<1> DEFINE a == SubSeq(rs, 1, from - 1)
           b == SubSeq(rs, to, Len(rs))
<1>1. a \in Seq(Slot) /\ Len(a) = from - 1 /\ \A i \in 1 .. from - 1 : a[i] = rs[i]
  BY SubSeqProperties
<1>2. b \in Seq(Slot) /\ Len(b) = Len(rs) - to + 1 /\ \A i \in 1 .. Len(rs) - to + 1 : b[i] = rs[to + i - 1]
  BY SubSeqProperties
<1> HIDE DEF a, b
<1>3. a \o b \in Seq(Slot) /\ Len(a \o b) = Len(a) + Len(b)
      /\ \A i \in 1 .. Len(a) + Len(b) : (a \o b)[i] = IF i <= Len(a) THEN a[i] ELSE b[i - Len(a)]
  BY <1>1, <1>2, ConcatProperties
<1>4. Len(a \o b) = Len(rs) - (to - from)
  BY <1>1, <1>2, <1>3
<1>5. ASSUME NEW i \in 1 .. Len(a \o b) PROVE (a \o b)[i] = IF i < from THEN rs[i] ELSE rs[i + (to - from)]
  <2>1. CASE i < from
    BY <2>1, <1>1, <1>2, <1>3, <1>4
  <2>2. CASE ~(i < from)
    <3>1. (a \o b)[i] = b[i - Len(a)] /\ i - Len(a) \in 1 .. Len(rs) - to + 1
      BY <2>2, <1>1, <1>2, <1>3, <1>4
    <3>2. to + (i - Len(a)) - 1 = i + (to - from)
      BY <1>1
    <3> QED
      BY <2>2, <3>1, <3>2, <1>2
  <2> QED
    BY <2>1, <2>2
<1> QED
  BY <1>3, <1>4, <1>5 DEF a, b

\* A slot after slot a of the array without its slots a + 1 .. b is a slot after b of the array.
LEMMA ShiftInto ==
    ASSUME NEW a \in Int, NEW b \in Int, NEW n \in Int, NEW i \in Int, 1 <= a, a <= b, b <= n, a < i, i <= n - (b - a)
    PROVE  i + (b - a) \in 1 .. n /\ i + (b - a) # a
OBVIOUS

\* An array into which a range is put.
With(rs, slot, r) == SubSeq(rs, 1, slot - 1) \o <<r>> \o SubSeq(rs, slot, Len(rs))
IsWith(new, rs, slot, r) ==
    /\ new \in Seq(Slot) /\ Len(new) = Len(rs) + 1
    /\ \A i \in 1 .. Len(new) : new[i] = IF i < slot THEN rs[i] ELSE IF i = slot THEN r ELSE rs[i - 1]

LEMMA Inserted ==
    ASSUME NEW rs \in Seq(Slot), NEW slot \in 1 .. Len(rs) + 1, NEW r \in Slot
    PROVE  IsWith(With(rs, slot, r), rs, slot, r)
<1> DEFINE a == SubSeq(rs, 1, slot - 1)
           b == SubSeq(rs, slot, Len(rs))
           m == <<r>>
<1>1. a \in Seq(Slot) /\ Len(a) = slot - 1 /\ \A i \in 1 .. slot - 1 : a[i] = rs[i]
  BY SubSeqProperties
<1>2. b \in Seq(Slot) /\ Len(b) = Len(rs) - slot + 1 /\ \A i \in 1 .. Len(rs) - slot + 1 : b[i] = rs[slot + i - 1]
  BY SubSeqProperties
<1>3. m \in Seq(Slot) /\ Len(m) = 1 /\ m[1] = r
  OBVIOUS
<1> HIDE DEF a, b, m
<1> DEFINE am == a \o m
<1>4. am \in Seq(Slot) /\ Len(am) = slot /\ \A i \in 1 .. slot : am[i] = IF i < slot THEN rs[i] ELSE r
  <2>1. am \in Seq(Slot) /\ Len(am) = Len(a) + Len(m)
        /\ \A i \in 1 .. Len(a) + Len(m) : am[i] = IF i <= Len(a) THEN a[i] ELSE m[i - Len(a)]
    BY <1>1, <1>3, ConcatProperties
  <2>2. Len(am) = slot
    BY <1>1, <1>3, <2>1
  <2>3. ASSUME NEW i \in 1 .. slot PROVE am[i] = IF i < slot THEN rs[i] ELSE r
    <3>1. CASE i < slot
      BY <3>1, <1>1, <1>3, <2>1
    <3>2. CASE i = slot
      <4>1. i - Len(a) = 1 /\ ~(i <= Len(a)) /\ i \in 1 .. Len(a) + Len(m)
        BY <3>2, <1>1, <1>3
      <4>2. am[i] = m[i - Len(a)]
        BY <4>1, <2>1
      <4>3. am[i] = m[1]
        BY <4>1, <4>2
      <4> QED
        BY <3>2, <4>3, <1>3
    <3>3. i < slot \/ i = slot
      OBVIOUS
    <3> QED
      BY <3>1, <3>2, <3>3
  <2> QED
    BY <2>1, <2>2, <2>3
<1> HIDE DEF am
<1> DEFINE n == am \o b
<1>5. n \in Seq(Slot) /\ Len(n) = Len(am) + Len(b)
      /\ \A i \in 1 .. Len(am) + Len(b) : n[i] = IF i <= Len(am) THEN am[i] ELSE b[i - Len(am)]
  BY <1>2, <1>4, ConcatProperties
<1>6. Len(n) = Len(rs) + 1
  BY <1>2, <1>4, <1>5
<1>7. ASSUME NEW i \in 1 .. Len(n) PROVE n[i] = IF i < slot THEN rs[i] ELSE IF i = slot THEN r ELSE rs[i - 1]
  <2>1. CASE i <= slot
    BY <2>1, <1>2, <1>4, <1>5
  <2>2. CASE ~(i <= slot)
    <3>1. n[i] = b[i - slot] /\ i - slot \in 1 .. Len(rs) - slot + 1
      BY <2>2, <1>2, <1>4, <1>5, <1>6
    <3>2. slot + (i - slot) - 1 = i - 1 /\ ~(i < slot) /\ i # slot
      BY <2>2
    <3>3. b[i - slot] = rs[slot + (i - slot) - 1]
      BY <3>1, <1>2
    <3>4. n[i] = rs[i - 1]
      BY <3>1, <3>2, <3>3
    <3> HIDE DEF n
    <3> QED
      BY <3>2, <3>4
  <2> QED
    BY <2>1, <2>2
<1> QED
  BY <1>5, <1>6, <1>7 DEF With, IsWith, n, am, a, b, m

\* A set of slots that is not empty has a last and a first one.
LEMMA LargestIs ==
    ASSUME NEW N \in Nat, NEW S, S \subseteq 1 .. N, S # {}
    PROVE  Array!Largest(S) \in S /\ \A y \in S : y <= Array!Largest(S)
<1> DEFINE T == {N - y : y \in S}
<1>1. T \subseteq Nat /\ T # {}
  <2>1. PICK y \in S : TRUE
    OBVIOUS
  <2>2. N - y \in T
    BY <2>1
  <2>3. \A z \in S : N - z \in Nat
    OBVIOUS
  <2> QED
    BY <2>2, <2>3
<1>2. PICK x \in T : \A y \in T : ~ (<<y, x>> \in OpToRel(<, Nat))
  <2> HIDE DEF T
  <2> QED
    BY <1>1, NatLessThanWellFounded, WFMin
<1>3. PICK m \in S : x = N - m
  BY <1>2
<1>4. ASSUME NEW y \in S PROVE y <= m
  <2>1. N - y \in T /\ N - y \in Nat /\ x \in Nat
    BY <1>1, <1>2
  <2>2. ~ (<<N - y, x>> \in OpToRel(<, Nat))
    BY <1>2, <2>1
  <2>3. ~ (N - y < x)
    BY <2>1, <2>2 DEF OpToRel
  <2> QED
    BY <1>3, <2>3
<1> QED
  BY <1>4 DEF Array!Largest

LEMMA FirstIs ==
    ASSUME NEW S, S \subseteq Nat, S # {}
    PROVE  \E m \in S : m = (CHOOSE i \in S : \A j \in S : i <= j) /\ \A j \in S : m <= j
<1>1. PICK x \in S : \A y \in S : ~ (<<y, x>> \in OpToRel(<, Nat))
  BY NatLessThanWellFounded, WFMin
<1>2. ASSUME NEW y \in S PROVE x <= y
  <2>1. ~ (<<y, x>> \in OpToRel(<, Nat)) /\ x \in Nat /\ y \in Nat
    BY <1>1
  <2> QED
    BY <2>1 DEF OpToRel
<1> QED
  BY <1>2

-----------------------------------------------------------------------------
(* What the calls do to an array. *)

\* The slots a .. b become the slot r; with b = a - 1 it is put before slot a.
Replaced(rs, new, a, b, r) ==
    /\ new \in Seq(Slot) /\ Len(new) = Len(rs) - (b - a)
    /\ \A i \in 1 .. Len(new) : new[i] = IF i < a THEN rs[i] ELSE IF i = a THEN r ELSE rs[i + (b - a)]

LEMMA ReplacedGood ==
    ASSUME NEW rs, NEW f \in BOOLEAN, Good(rs, f), NEW a \in 1 .. Len(rs) + 1, NEW b \in a - 1 .. Len(rs), NEW r \in Slot, NEW new,
           Replaced(rs, new, a, b, r), r.start < r.end, \A i \in 1 .. a - 1 : rs[i].end < r.start,
           \A i \in b + 1 .. Len(rs) : r.end < rs[i].start, f /\ a = 1 => r.start = 0
    PROVE  /\ Good(new, f)
           /\ \A x \in Nat : Member(new, x) <=> Holds(r, x) \/ \E i \in DOMAIN rs : (i < a \/ i > b) /\ Holds(rs[i], x)
<1> DEFINE L == Len(rs)
           N == Len(new)
<1>1. rs \in Seq(Slot) /\ L \in Nat /\ DOMAIN rs = 1 .. L /\ new \in Seq(Slot) /\ N \in Nat /\ DOMAIN new = 1 .. N /\ N = L - (b - a)
  BY DEF Good, Replaced
<1>2. \A i \in 1 .. L : rs[i].start \in Nat /\ rs[i].end \in Nat
  BY <1>1, SlotTypes
<1>3. r.start \in Nat /\ r.end \in Nat /\ a \in Nat /\ b \in Int
  BY DEF Slot
<1>4. \A i \in 1 .. N : new[i] = IF i < a THEN rs[i] ELSE IF i = a THEN r ELSE rs[i + (b - a)]
  BY DEF Replaced
<1>5. \A i, j \in 1 .. L : i < j => rs[i].end < rs[j].start
  BY <1>1 DEF Good, Ordered
<1>6. \A i \in 1 .. L : rs[i].start < rs[i].end \/ (f /\ i = 1 /\ rs[i].start = 0 /\ rs[i].end = 0)
  BY <1>1 DEF Good, Proper
<1>7. f => L # 0 /\ rs[1].start = 0
  BY <1>1 DEF Good, Proper
<1>8. (\A i \in 1 .. a - 1 : rs[i].end < r.start) /\ (\A i \in b + 1 .. L : r.end < rs[i].start)
  OBVIOUS
<1>9. a \in 1 .. L + 1 /\ b \in a - 1 .. L /\ N = L - (b - a)
  BY <1>1
<1> HIDE DEF L, N
<1>10. ASSUME NEW i \in 1 .. N
       PROVE  \/ i < a /\ i \in 1 .. L /\ new[i] = rs[i]
              \/ i = a /\ new[i] = r
              \/ i > a /\ i + (b - a) \in b + 1 .. L /\ i + (b - a) \in 1 .. L /\ new[i] = rs[i + (b - a)]
  <2>1. CASE i < a
    BY <2>1, <1>1, <1>3, <1>4, <1>9
  <2>2. CASE i = a
    BY <2>2, <1>4
  <2>3. CASE i > a
    BY <2>3, <1>1, <1>3, <1>4, <1>9
  <2> QED
    BY <2>1, <2>2, <2>3, <1>3
<1>after. ASSUME NEW i \in 1 .. N, i > a PROVE new[i] = rs[i + (b - a)]
  <2>1. ~(i < a) /\ i # a
    BY <1>after, <1>1, <1>3
  <2> QED
    BY <2>1, <1>4
<1>11. ASSUME NEW i \in 1 .. N, NEW j \in 1 .. N, i < j PROVE new[i].end < new[j].start
  <2>1. CASE i < a /\ j < a
    BY <2>1, <1>3, <1>5, <1>10, <1>11
  <2>2. CASE i < a /\ j = a
    BY <2>2, <1>3, <1>8, <1>10, <1>11
  <2>3. CASE i < a /\ j > a
    <3>1. i \in 1 .. L /\ j + (b - a) \in 1 .. L /\ i < j + (b - a) /\ new[i] = rs[i] /\ new[j] = rs[j + (b - a)]
      BY <2>3, <1>3, <1>9, <1>10
    <3> QED
      BY <3>1, <1>5
  <2>4. CASE i = a /\ j > a
    <3> DEFINE k == j + (b - a)
    <3>1. new[i] = r /\ k \in b + 1 .. L /\ new[j] = rs[k]
      BY <2>4, <1>3, <1>10
    <3> HIDE DEF k
    <3> QED
      BY <3>1, <1>8
  <2>5. CASE i > a /\ j > a
    <3>1. i + (b - a) \in 1 .. L /\ j + (b - a) \in 1 .. L /\ new[i] = rs[i + (b - a)] /\ new[j] = rs[j + (b - a)]
      BY <2>5, <1>3, <1>10
    <3>2. i + (b - a) < j + (b - a)
      BY <1>3, <1>11
    <3> QED
      BY <3>1, <3>2, <1>5
  <2> QED
    BY <2>1, <2>2, <2>3, <2>4, <2>5, <1>3, <1>11
<1>12. f => N # 0 /\ new[1].start = 0
  <2>1. f => 1 \in 1 .. N
    BY <1>1, <1>3, <1>9
  <2>2. ASSUME f PROVE new[1].start = 0
    <3>1. CASE a = 1
      BY <2>1, <2>2, <3>1, <1>10
    <3>2. CASE a > 1
      BY <2>1, <2>2, <3>2, <1>7, <1>10
    <3> QED
      BY <3>1, <3>2, <1>3
  <2> QED
    BY <2>1, <2>2, <1>1
<1>13. ASSUME NEW i \in 1 .. N PROVE new[i].start < new[i].end \/ (f /\ i = 1 /\ new[i].start = 0 /\ new[i].end = 0)
  <2>1. CASE i < a
    BY <2>1, <1>3, <1>6, <1>10
  <2>2. CASE i = a
    BY <2>2, <1>3, <1>10
  <2>3. CASE i > a
    <3> DEFINE k == i + (b - a)
    <3>1. k \in b + 1 .. L /\ k \in 1 .. L /\ new[i] = rs[k]
      BY <2>3, <1>3, <1>10
    <3>2. r.end < rs[k].start
      BY <3>1, <1>8
    <3> QED
      BY <3>1, <3>2, <1>2, <1>3, <1>6
  <2> QED
    BY <2>1, <2>2, <2>3, <1>3
<1>14. Good(new, f)
  BY <1>1, <1>11, <1>12, <1>13 DEF Good, Ordered, Proper
<1>15. ASSUME NEW x \in Nat PROVE Member(new, x) <=> Holds(r, x) \/ \E i \in DOMAIN rs : (i < a \/ i > b) /\ Holds(rs[i], x)
  <2>1. ASSUME NEW i \in 1 .. N, Holds(new[i], x) PROVE Holds(r, x) \/ \E k \in 1 .. L : (k < a \/ k > b) /\ Holds(rs[k], x)
    <3>1. CASE i < a
      BY <2>1, <3>1, <1>3, <1>10
    <3>2. CASE i = a
      BY <2>1, <3>2, <1>10
    <3>3. CASE i > a
      <4> DEFINE k == i + (b - a)
      <4>1. k \in 1 .. L /\ k > b /\ Holds(rs[k], x)
        BY <2>1, <3>3, <1>3, <1>10
      <4> QED
        BY <4>1
    <3> QED
      BY <3>1, <3>2, <3>3, <1>3
  <2>2. ASSUME Holds(r, x) PROVE \E i \in 1 .. N : Holds(new[i], x)
    <3>1. a \in 1 .. N /\ new[a] = r
      BY <1>1, <1>3, <1>4, <1>9
    <3> QED
      BY <2>2, <3>1
  <2>3. ASSUME NEW k \in 1 .. L, k < a, Holds(rs[k], x) PROVE \E i \in 1 .. N : Holds(new[i], x)
    <3>1. k \in 1 .. N /\ new[k] = rs[k]
      BY <2>3, <1>1, <1>3, <1>4, <1>9
    <3> QED
      BY <2>3, <3>1
  <2>4. ASSUME NEW k \in 1 .. L, k > b, Holds(rs[k], x) PROVE \E i \in 1 .. N : Holds(new[i], x)
    <3> DEFINE i == k - (b - a)
    <3>1. i \in 1 .. N /\ i > a /\ i + (b - a) = k
      BY <2>4, <1>1, <1>3, <1>9
    <3>2. new[i] = rs[i + (b - a)]
      <4> HIDE DEF i
      <4> QED
        BY <3>1, <1>after
    <3>3. new[i] = rs[k]
      BY <3>1, <3>2
    <3> QED
      BY <2>4, <3>1, <3>3
  <2> QED
    BY <1>1, <2>1, <2>2, <2>3, <2>4 DEF Member
<1> QED
  BY <1>14, <1>15

\* A sparse array that is halved still holds its ranges.
LEMMA ShrunkFits ==
    ASSUME NEW cap \in Nat, NEW n \in Nat, n <= cap, NEW mem \in BOOLEAN
    PROVE  Array!ShrunkCapacity(cap, n, mem) \in Nat /\ n <= Array!ShrunkCapacity(cap, n, mem)
<1> DEFINE half == cap \div 2
<1>1. half \in Nat /\ cap <= 2 * half + 1 /\ 2 * half <= cap
  OBVIOUS
<1>2. Array!ShrunkCapacity(cap, n, mem) = cap \/ (Array!ShrunkCapacity(cap, n, mem) = half /\ cap > 4 /\ n * 3 <= cap)
  BY DEF Array!ShrunkCapacity
<1> HIDE DEF half
<1> QED
  BY <1>1, <1>2

\* insert_at either fails and changes nothing or has room for the new range.
LEMMA InsertAtRight ==
    ASSUME NEW rs \in Seq(Slot), NEW cap, Fits(rs, cap), NEW start \in Nat, NEW end \in Nat, NEW slot \in 1 .. Len(rs) + 1,
           NEW mem \in BOOLEAN
    PROVE  LET res == Array!InsertAt(rs, cap, start, end, slot, mem)
           IN  /\ res.ok \in BOOLEAN /\ Fits(res.ranges, res.capacity)
               /\ res.ok => Replaced(rs, res.ranges, slot, slot - 1, [start |-> start, end |-> end])
               /\ ~res.ok => res.ranges = rs
<1> DEFINE r == [start |-> start, end |-> end]
           new == With(rs, slot, r)
           res == Array!InsertAt(rs, cap, start, end, slot, mem)
           more == IF cap < 4 THEN 4 ELSE cap * 2
<1>1. r \in Slot
  BY DEF Slot
<1>0. \/ Len(rs) < cap /\ res = Array!Result(new, cap, TRUE)
      \/ res = Array!Result(rs, cap, FALSE)
      \/ ~(Len(rs) < cap) /\ res = Array!Result(new, more, TRUE)
  BY DEF Array!InsertAt, With
<1> HIDE DEF r
<1>2. new \in Seq(Slot) /\ Len(new) = Len(rs) + 1
      /\ \A i \in 1 .. Len(new) : new[i] = IF i < slot THEN rs[i] ELSE IF i = slot THEN r ELSE rs[i - 1]
  <2>1. IsWith(new, rs, slot, r)
    BY <1>1, Inserted
  <2> HIDE DEF new
  <2> QED
    BY <2>1 DEF IsWith
<1>3. \/ Len(rs) < cap /\ res = Array!Result(new, cap, TRUE)
      \/ res = Array!Result(rs, cap, FALSE)
      \/ ~(Len(rs) < cap) /\ res = Array!Result(new, more, TRUE)
  BY <1>0
<1> HIDE DEF new, res
<1>4. Replaced(rs, new, slot, slot - 1, r)
  <2>1. Len(rs) \in Nat /\ slot \in Nat /\ Len(new) = Len(rs) - (slot - 1 - slot)
    BY <1>2
  <2>2. ASSUME NEW i \in 1 .. Len(new)
        PROVE  new[i] = IF i < slot THEN rs[i] ELSE IF i = slot THEN r ELSE rs[i + (slot - 1 - slot)]
    <3>1. i + (slot - 1 - slot) = i - 1
      BY <2>1
    <3> QED
      BY <1>2, <3>1
  <2> QED
    BY <1>2, <2>1, <2>2 DEF Replaced
<1>5. Len(rs) \in Nat /\ cap \in Nat /\ Len(rs) <= cap /\ more \in Nat
  BY DEF Fits
<1>6. ~(Len(rs) < cap) => Len(new) <= more
  BY <1>2, <1>5
<1> HIDE DEF more
<1> DEFINE Goal == /\ res.ok \in BOOLEAN /\ Fits(res.ranges, res.capacity)
                   /\ res.ok => Replaced(rs, res.ranges, slot, slot - 1, r)
                   /\ ~res.ok => res.ranges = rs
<1>7. ASSUME Len(rs) < cap /\ res = Array!Result(new, cap, TRUE) PROVE Goal
  <2>1. res.ranges = new /\ res.capacity = cap /\ res.ok = TRUE
    BY <1>7 DEF Array!Result
  <2>2. Fits(new, cap)
    BY <1>2, <1>5, <1>7 DEF Fits
  <2> QED
    BY <1>4, <2>1, <2>2
<1>8. ASSUME res = Array!Result(rs, cap, FALSE) PROVE Goal
  <2>1. res.ranges = rs /\ res.capacity = cap /\ res.ok = FALSE
    BY <1>8 DEF Array!Result
  <2> QED
    BY <2>1
<1>9. ASSUME ~(Len(rs) < cap) /\ res = Array!Result(new, more, TRUE) PROVE Goal
  <2>1. res.ranges = new /\ res.capacity = more /\ res.ok = TRUE
    BY <1>9 DEF Array!Result
  <2>2. Fits(new, more)
    BY <1>2, <1>5, <1>6, <1>9 DEF Fits
  <2> QED
    BY <1>4, <2>1, <2>2
<1>10. Goal
  BY <1>3, <1>7, <1>8, <1>9
<1> QED
  BY <1>10 DEF res, r

\* The slots from .. to - 1 are gone.
Dropped(rs, new, from, to) ==
    /\ new \in Seq(Slot) /\ Len(new) = Len(rs) - (to - from)
    /\ \A i \in 1 .. Len(new) : new[i] = IF i < from THEN rs[i] ELSE rs[i + (to - from)]

\* quicly_ranges_drop_by_range_indices never fails.
LEMMA DropRight ==
    ASSUME NEW rs \in Seq(Slot), NEW cap, Fits(rs, cap), NEW from \in 1 .. Len(rs) + 1, NEW to \in from .. Len(rs) + 1, NEW mem \in BOOLEAN
    PROVE  LET res == Array!DropByRangeIndices(rs, cap, from, to, mem)
           IN  res.ok = TRUE /\ Fits(res.ranges, res.capacity) /\ Dropped(rs, res.ranges, from, to)
<1> DEFINE new == SubSeq(rs, 1, from - 1) \o SubSeq(rs, to, Len(rs))
           res == Array!DropByRangeIndices(rs, cap, from, to, mem)
           less == Array!ShrunkCapacity(cap, Len(new), mem)
<1>1. new \in Seq(Slot) /\ Len(new) = Len(rs) - (to - from)
      /\ \A i \in 1 .. Len(new) : new[i] = IF i < from THEN rs[i] ELSE rs[i + (to - from)]
  BY Spliced
<1>2. res = Array!Result(new, less, TRUE)
  BY DEF Array!DropByRangeIndices
<1> HIDE DEF new, res
<1>3. cap \in Nat /\ Len(new) \in Nat /\ Len(new) <= cap
  BY <1>1 DEF Fits
<1>4. less \in Nat /\ Len(new) <= less
  BY <1>3, ShrunkFits
<1> HIDE DEF less
<1>5. res.ranges = new /\ res.capacity = less /\ res.ok = TRUE
  BY <1>2 DEF Array!Result
<1>6. Fits(new, less) /\ Dropped(rs, new, from, to)
  BY <1>1, <1>4 DEF Fits, Dropped
<1> QED
  BY <1>5, <1>6 DEF res

\* merge_update leaves one range where there were several.
LEMMA MergeRight ==
    ASSUME NEW rs \in Seq(Slot), NEW cap, Fits(rs, cap), NEW start \in Nat, NEW end \in Nat, NEW a \in DOMAIN rs, NEW b \in DOMAIN rs, a <= b,
           NEW mem \in BOOLEAN
    PROVE  LET res == Array!MergeUpdate(rs, cap, start, end, a, b, mem)
               r   == [start |-> IF start < rs[a].start THEN start ELSE rs[a].start, end |-> IF end < rs[b].end THEN rs[b].end ELSE end]
           IN  res.ok = TRUE /\ Fits(res.ranges, res.capacity) /\ Replaced(rs, res.ranges, a, b, r) /\ r \in Slot
<1> DEFINE lo == IF start < rs[a].start THEN start ELSE rs[a].start
           hi == IF end < rs[b].end THEN rs[b].end ELSE end
           r == [start |-> lo, end |-> hi]
           new == [rs EXCEPT ![a] = r]
           res == Array!MergeUpdate(rs, cap, start, end, a, b, mem)
<1>1. lo \in Nat /\ hi \in Nat /\ r \in Slot /\ a \in 1 .. Len(rs) /\ b \in 1 .. Len(rs) /\ Len(rs) \in Nat
  <2>1. rs[a].start \in Nat /\ rs[b].end \in Nat /\ a \in 1 .. Len(rs) /\ b \in 1 .. Len(rs) /\ Len(rs) \in Nat
    BY SlotTypes
  <2> QED
    BY <2>1 DEF Slot
<1>2. res = IF a = b THEN Array!Result(new, cap, TRUE) ELSE Array!DropByRangeIndices(new, cap, a + 1, b + 1, mem)
  BY DEF Array!MergeUpdate
<1>3. new \in Seq(Slot) /\ Len(new) = Len(rs) /\ \A i \in 1 .. Len(rs) : new[i] = IF i = a THEN r ELSE rs[i]
  <2> HIDE DEF r
  <2> QED
    BY <1>1
<1> HIDE DEF new, res, r
<1> DEFINE Goal == res.ok = TRUE /\ Fits(res.ranges, res.capacity) /\ Replaced(rs, res.ranges, a, b, r)
<1>4. ASSUME a = b PROVE Goal
  <2>1. res.ranges = new /\ res.capacity = cap /\ res.ok = TRUE
    BY <1>2, <1>4 DEF Array!Result
  <2>2. Replaced(rs, new, a, b, r)
    <3>1. Len(new) = Len(rs) - (b - a)
      BY <1>1, <1>3, <1>4
    <3>2. ASSUME NEW i \in 1 .. Len(new) PROVE new[i] = IF i < a THEN rs[i] ELSE IF i = a THEN r ELSE rs[i + (b - a)]
      <4>1. i + (b - a) = i /\ i \in 1 .. Len(rs)
        BY <1>1, <1>3, <1>4
      <4>2. new[i] = (IF i = a THEN r ELSE rs[i]) /\ rs[i + (b - a)] = rs[i]
        BY <1>3, <4>1
      <4> QED
        BY <1>1, <4>2
    <3> QED
      BY <1>3, <3>1, <3>2 DEF Replaced
  <2>3. Fits(new, cap)
    BY <1>3 DEF Fits
  <2> QED
    BY <2>1, <2>2, <2>3
<1>5. ASSUME a # b PROVE Goal
  <2> DEFINE from == a + 1
             to == b + 1
  <2>0. from \in 1 .. Len(new) + 1 /\ to \in from .. Len(new) + 1 /\ Fits(new, cap)
    BY <1>1, <1>3, <1>5 DEF Fits
  <2>1. to - from = b - a /\ from = a + 1
    BY <1>1
  <2>2. res = Array!DropByRangeIndices(new, cap, from, to, mem)
    BY <1>2, <1>5
  <2> HIDE DEF from, to
  <2>3. res.ok = TRUE /\ Fits(res.ranges, res.capacity) /\ Dropped(new, res.ranges, from, to)
    <3>1. new \in Seq(Slot)
      BY <1>3
    <3>2. LET out == Array!DropByRangeIndices(new, cap, from, to, mem)
          IN  out.ok = TRUE /\ Fits(out.ranges, out.capacity) /\ Dropped(new, out.ranges, from, to)
      BY <3>1, <2>0, DropRight
    <3> QED
      BY <2>2, <3>2
  <2>4. /\ res.ok = TRUE /\ Fits(res.ranges, res.capacity) /\ res.ranges \in Seq(Slot) /\ Len(res.ranges) = Len(rs) - (b - a)
        /\ \A i \in 1 .. Len(res.ranges) : res.ranges[i] = IF i < a + 1 THEN new[i] ELSE new[i + (b - a)]
    BY <1>3, <2>1, <2>3 DEF Dropped
  <2>5. ASSUME NEW i \in 1 .. Len(res.ranges) PROVE res.ranges[i] = IF i < a THEN rs[i] ELSE IF i = a THEN r ELSE rs[i + (b - a)]
    <3>1. CASE i <= a
      BY <3>1, <1>1, <1>3, <2>4
    <3>2. CASE i > a
      <4> DEFINE k == i + (b - a)
      <4>0. i \in Nat /\ i <= Len(rs) - (b - a)
        BY <2>4, <1>1
      <4>1. k \in 1 .. Len(rs) /\ k # a
        <5> HIDE DEF k
        <5>1. a \in Int /\ b \in Int /\ Len(rs) \in Int /\ i \in Int /\ 1 <= a /\ a <= b /\ b <= Len(rs) /\ a < i
          BY <3>2, <1>1, <4>0
        <5>2. i + (b - a) \in 1 .. Len(rs) /\ i + (b - a) # a
          BY <5>1, <4>0, ShiftInto
        <5> QED
          BY <5>2 DEF k
      <4>3. ~(i < a + 1)
        BY <3>2, <1>1
      <4>4. res.ranges[i] = new[k]
        BY <4>3, <2>4
      <4>2. new[k] = rs[k]
        <5> HIDE DEF k
        <5> QED
          BY <4>1, <1>3
      <4> QED
        BY <3>2, <4>4, <4>2, <1>1
    <3> QED
      BY <3>1, <3>2, <1>1
  <2>6. Replaced(rs, res.ranges, a, b, r)
    BY <2>4, <2>5 DEF Replaced
  <2> QED
    BY <2>4, <2>6
<1> QED
  BY <1>1, <1>4, <1>5 DEF res, r

-----------------------------------------------------------------------------
(* quicly_ranges_add. *)

\* The call fails and changes nothing, or the array stands for the union.
Adds(rs, res, f, start, end) ==
    /\ res.ok \in BOOLEAN /\ Fits(res.ranges, res.capacity) /\ Good(res.ranges, f)
    /\ res.ok => \A x \in Nat : Member(res.ranges, x) <=> Member(rs, x) \/ (start <= x /\ x < end)
    /\ ~res.ok => res.ranges = rs

\* What Good says of the slots.
LEMMA GoodSlots ==
    ASSUME NEW rs, NEW f \in BOOLEAN, Good(rs, f)
    PROVE  /\ rs \in Seq(Slot) /\ Len(rs) \in Nat /\ DOMAIN rs = 1 .. Len(rs)
           /\ \A i \in 1 .. Len(rs) : rs[i].start \in Nat /\ rs[i].end \in Nat /\ rs[i].start <= rs[i].end
           /\ \A i, j \in 1 .. Len(rs) : i < j => rs[i].end < rs[j].start
           /\ f => Len(rs) # 0 /\ rs[1].start = 0
<1>1. rs \in Seq(Slot) /\ Len(rs) \in Nat /\ DOMAIN rs = 1 .. Len(rs)
  BY DEF Good
<1>2. ASSUME NEW i \in 1 .. Len(rs) PROVE rs[i].start \in Nat /\ rs[i].end \in Nat /\ rs[i].start <= rs[i].end
  <2>1. rs[i].start \in Nat /\ rs[i].end \in Nat
    BY <1>1, SlotTypes
  <2>2. rs[i].start < rs[i].end \/ (rs[i].start = 0 /\ rs[i].end = 0)
    BY <1>1 DEF Good, Proper
  <2> QED
    BY <2>1, <2>2
<1>3. \A i, j \in 1 .. Len(rs) : i < j => rs[i].end < rs[j].start
  BY <1>1 DEF Good, Ordered
<1>4. f => Len(rs) # 0 /\ rs[1].start = 0
  BY <1>1 DEF Good, Proper
<1> QED
  BY <1>1, <1>2, <1>3, <1>4

LEMMA InsertAdds ==
    ASSUME NEW rs, NEW f \in BOOLEAN, Good(rs, f), NEW cap, Fits(rs, cap), NEW start \in Nat, NEW end \in Nat, start < end,
           NEW slot \in 1 .. Len(rs) + 1, NEW mem \in BOOLEAN,
           \A i \in 1 .. slot - 1 : rs[i].end < start, \A i \in slot .. Len(rs) : end < rs[i].start
    PROVE  Adds(rs, Array!InsertAt(rs, cap, start, end, slot, mem), f, start, end)
<1> DEFINE res == Array!InsertAt(rs, cap, start, end, slot, mem)
           r == [start |-> start, end |-> end]
           new == res.ranges
           b == slot - 1
<1>1. /\ rs \in Seq(Slot) /\ Len(rs) \in Nat /\ DOMAIN rs = 1 .. Len(rs) /\ (f => Len(rs) # 0 /\ rs[1].start = 0)
  BY GoodSlots
<1>2. LET out == Array!InsertAt(rs, cap, start, end, slot, mem)
      IN  /\ out.ok \in BOOLEAN /\ Fits(out.ranges, out.capacity)
          /\ out.ok => Replaced(rs, out.ranges, slot, slot - 1, [start |-> start, end |-> end])
          /\ ~out.ok => out.ranges = rs
  BY <1>1, InsertAtRight
<1>3. r \in Slot /\ r.start = start /\ r.end = end
  BY DEF Slot
<1>4. /\ res.ok \in BOOLEAN /\ Fits(res.ranges, res.capacity) /\ (res.ok => Replaced(rs, new, slot, b, r)) /\ (~res.ok => res.ranges = rs)
  BY <1>2
<1>5. b \in slot - 1 .. Len(rs) /\ b = slot - 1
  BY <1>1
<1> HIDE DEF res, r, b
<1>6. CASE res.ok
  <2>1. Replaced(rs, new, slot, b, r)
    BY <1>4, <1>6
  <2>2. r.start < r.end /\ (\A i \in 1 .. slot - 1 : rs[i].end < r.start) /\ (\A i \in b + 1 .. Len(rs) : r.end < rs[i].start)
    BY <1>3, <1>5
  <2>3. f /\ slot = 1 => r.start = 0
    <3>1. ASSUME f, slot = 1 PROVE FALSE
      <4>1. 1 \in slot .. Len(rs) /\ rs[1].start = 0
        BY <1>1, <3>1
      <4> QED
        BY <4>1
    <3> QED
      BY <3>1
  <2> HIDE DEF new
  <2>4. /\ Good(new, f)
        /\ \A x \in Nat : Member(new, x) <=> Holds(r, x) \/ \E i \in DOMAIN rs : (i < slot \/ i > b) /\ Holds(rs[i], x)
    <3>1. b \in slot - 1 .. Len(rs) /\ r \in Slot
      BY <1>3, <1>5
    <3>2. r.start < r.end
      BY <2>2
    <3>3. \A i \in 1 .. slot - 1 : rs[i].end < r.start
      BY <2>2
    <3>4. \A i \in b + 1 .. Len(rs) : r.end < rs[i].start
      BY <2>2
    <3> QED
      BY <2>1, <2>3, <3>1, <3>2, <3>3, <3>4, ReplacedGood
  <2>5. ASSUME NEW x \in Nat PROVE Member(new, x) <=> Member(rs, x) \/ (start <= x /\ x < end)
    <3>1. Holds(r, x) <=> start <= x /\ x < end
      BY <1>3 DEF Holds
    <3>2. \A i \in DOMAIN rs : i < slot \/ i > b
      BY <1>1, <1>5
    <3> QED
      BY <2>4, <3>1, <3>2 DEF Member
  <2> QED
    BY <1>4, <1>6, <2>4, <2>5 DEF Adds, new, res
<1>7. CASE ~res.ok
  BY <1>4, <1>7 DEF Adds, res
<1> QED
  BY <1>4, <1>6, <1>7

LEMMA ChainOfBounds ==
    ASSUME NEW x \in Nat, NEW lo \in Nat, NEW s1 \in Nat, NEW s2 \in Nat, NEW e2 \in Nat, NEW e1 \in Nat, NEW hi \in Nat,
           lo <= s1, s1 <= s2, s2 <= x, x < e2, e2 <= e1, e1 <= hi
    PROVE  lo <= x /\ x < hi
OBVIOUS

LEMMA MergeAdds ==
    ASSUME NEW rs, NEW f \in BOOLEAN, Good(rs, f), NEW cap, Fits(rs, cap), NEW start \in Nat, NEW end \in Nat, start < end,
           NEW a \in 1 .. Len(rs), NEW b \in a .. Len(rs), NEW mem \in BOOLEAN, start <= rs[a].end, rs[b].start <= end,
           \A i \in 1 .. a - 1 : rs[i].end < start, \A i \in b + 1 .. Len(rs) : end < rs[i].start
    PROVE  Adds(rs, Array!MergeUpdate(rs, cap, start, end, a, b, mem), f, start, end)
<1> DEFINE res == Array!MergeUpdate(rs, cap, start, end, a, b, mem)
           lo == IF start < rs[a].start THEN start ELSE rs[a].start
           hi == IF end < rs[b].end THEN rs[b].end ELSE end
           r == [start |-> lo, end |-> hi]
           new == res.ranges
<1>1. /\ rs \in Seq(Slot) /\ Len(rs) \in Nat /\ DOMAIN rs = 1 .. Len(rs) /\ (f => Len(rs) # 0 /\ rs[1].start = 0)
      /\ \A i \in 1 .. Len(rs) : rs[i].start \in Nat /\ rs[i].end \in Nat /\ rs[i].start <= rs[i].end
      /\ \A i, j \in 1 .. Len(rs) : i < j => rs[i].end < rs[j].start
  BY GoodSlots
<1>2. a \in DOMAIN rs /\ b \in DOMAIN rs /\ a <= b /\ a \in Nat /\ b \in Nat /\ b \in 1 .. Len(rs)
  BY <1>1
<1>3. res.ok = TRUE /\ Fits(res.ranges, res.capacity) /\ Replaced(rs, res.ranges, a, b, r) /\ r \in Slot
  <2>1. LET out == Array!MergeUpdate(rs, cap, start, end, a, b, mem)
            s   == [start |-> IF start < rs[a].start THEN start ELSE rs[a].start, end |-> IF end < rs[b].end THEN rs[b].end ELSE end]
        IN  out.ok = TRUE /\ Fits(out.ranges, out.capacity) /\ Replaced(rs, out.ranges, a, b, s) /\ s \in Slot
    <3>1. rs \in Seq(Slot) /\ a \in DOMAIN rs /\ b \in DOMAIN rs /\ a <= b
      BY <1>1, <1>2
    <3> QED
      BY <3>1, MergeRight
  <2> QED
    BY <2>1
<1>4. r.start = lo /\ r.end = hi
  OBVIOUS
<1>5. /\ rs[a].start \in Nat /\ rs[a].end \in Nat /\ rs[b].start \in Nat /\ rs[b].end \in Nat
      /\ lo \in Nat /\ hi \in Nat /\ lo <= start /\ lo <= rs[a].start /\ end <= hi /\ rs[b].end <= hi
      /\ (lo = start \/ lo = rs[a].start) /\ (hi = end \/ hi = rs[b].end)
  BY <1>1, <1>2
<1> HIDE DEF res, r, lo, hi, new
<1>6. \A i \in 1 .. a - 1 : rs[i].end < r.start
  <2>1. ASSUME NEW i \in 1 .. a - 1 PROVE rs[i].end < lo
    <3>1. rs[i].end < start /\ rs[i].end < rs[a].start
      BY <1>1, <1>2
    <3> QED
      BY <3>1, <1>5
  <2> QED
    BY <2>1, <1>4
<1>7. \A i \in b + 1 .. Len(rs) : r.end < rs[i].start
  <2>1. ASSUME NEW i \in b + 1 .. Len(rs) PROVE hi < rs[i].start
    <3>1. end < rs[i].start
      OBVIOUS
    <3>2. rs[b].end < rs[i].start
      BY <1>1, <1>2
    <3> QED
      BY <3>1, <3>2, <1>5
  <2> QED
    BY <2>1, <1>4
<1>8. r.start < r.end
  BY <1>4, <1>5
<1>9. f /\ a = 1 => r.start = 0
  BY <1>1, <1>4, <1>5
<1>10. /\ Good(new, f)
       /\ \A x \in Nat : Member(new, x) <=> Holds(r, x) \/ \E i \in DOMAIN rs : (i < a \/ i > b) /\ Holds(rs[i], x)
  <2>1. Replaced(rs, new, a, b, r) /\ r \in Slot /\ a \in 1 .. Len(rs) + 1 /\ b \in a - 1 .. Len(rs)
    BY <1>1, <1>2, <1>3 DEF new
  <2> QED
    BY <2>1, <1>6, <1>7, <1>8, <1>9, ReplacedGood
<1>11. ASSUME NEW x \in Nat PROVE Member(new, x) <=> Member(rs, x) \/ (start <= x /\ x < end)
  <2>1. Holds(r, x) <=> lo <= x /\ x < hi
    BY <1>4 DEF Holds
  <2>2. ASSUME NEW i \in a .. b, Holds(rs[i], x) PROVE Holds(r, x)
    <3>1. i \in 1 .. Len(rs) /\ rs[i].start \in Nat /\ rs[i].end \in Nat /\ rs[i].start <= x /\ x < rs[i].end
      BY <1>1, <1>2, <2>2 DEF Holds
    <3>2. rs[a].start <= rs[i].start
      <4>1. CASE i = a
        BY <4>1, <1>5
      <4>2. CASE a < i
        <5>1. rs[a].end < rs[i].start /\ rs[a].start <= rs[a].end
          BY <4>2, <3>1, <1>1
        <5> QED
          BY <5>1, <3>1, <1>5, SMTT(30)
      <4> QED
        BY <4>1, <4>2, <1>2
    <3>3. rs[i].end <= rs[b].end
      <4>1. CASE i = b
        BY <4>1, <1>5
      <4>2. CASE i < b
        <5>1. rs[i].end < rs[b].start /\ rs[b].start <= rs[b].end
          BY <4>2, <3>1, <1>1, <1>2
        <5> QED
          BY <5>1, <3>1, <1>5
      <4> QED
        BY <4>1, <4>2, <1>2
    <3>4. lo <= x /\ x < hi
      BY <3>1, <3>2, <3>3, <1>5, ChainOfBounds, SMTT(30)
    <3> QED
      BY <2>1, <3>4
  <2>3. ASSUME start <= x, x < end PROVE Holds(r, x)
    BY <2>1, <2>3, <1>5
  <2>4. ASSUME Holds(r, x) PROVE (start <= x /\ x < end) \/ Holds(rs[a], x) \/ Holds(rs[b], x)
    BY <2>1, <2>4, <1>5 DEF Holds
  <2>5. ASSUME NEW i \in DOMAIN rs PROVE i < a \/ i > b \/ i \in a .. b
    BY <1>1, <1>2
  <2> QED
    BY <1>2, <1>10, <2>2, <2>3, <2>4, <2>5 DEF Member
<1> QED
  BY <1>3, <1>10, <1>11 DEF Adds, new, res

\* quicly_ranges_add: whichever case of the search applies.
LEMMA AddAdds ==
    ASSUME NEW rs, NEW f \in BOOLEAN, Good(rs, f), NEW cap, Fits(rs, cap), NEW start \in Nat, NEW end \in Nat, start <= end,
           NEW mem \in BOOLEAN
    PROVE  Adds(rs, Array!Add(rs, cap, start, end, mem), f, start, end)
<1> DEFINE below == {i \in DOMAIN rs : rs[i].start <= end}
           B == Array!Largest(below)
           left == {i \in below : rs[i].end <= start}
           A == Array!Largest(left)
           res == Array!Add(rs, cap, start, end, mem)
<1>1. /\ rs \in Seq(Slot) /\ Len(rs) \in Nat /\ DOMAIN rs = 1 .. Len(rs) /\ (f => Len(rs) # 0 /\ rs[1].start = 0)
      /\ \A i \in 1 .. Len(rs) : rs[i].start \in Nat /\ rs[i].end \in Nat /\ rs[i].start <= rs[i].end
      /\ \A i, j \in 1 .. Len(rs) : i < j => rs[i].end < rs[j].start
  BY GoodSlots
<1>2. res = IF start = end THEN Array!Result(rs, cap, TRUE)
            ELSE IF below = {} THEN Array!InsertAt(rs, cap, start, end, 1, mem)
            ELSE IF left = {} THEN Array!MergeUpdate(rs, cap, start, end, 1, B, mem)
            ELSE IF rs[A].end = start THEN Array!MergeUpdate(rs, cap, start, end, A, B, mem)
            ELSE IF A = B THEN Array!InsertAt(rs, cap, start, end, A + 1, mem)
            ELSE Array!MergeUpdate(rs, cap, start, end, A + 1, B, mem)
  BY DEF Array!Add
<1>3. below \subseteq 1 .. Len(rs) /\ left \subseteq below
  BY <1>1
<1>4. \A i \in 1 .. Len(rs) : (i \in below <=> rs[i].start <= end) /\ (i \in left <=> rs[i].start <= end /\ rs[i].end <= start)
  BY <1>1
<1> HIDE DEF below, left, B, A, res
<1>5. below # {} => B \in below /\ \A i \in below : i <= B
  BY <1>1, <1>3, LargestIs DEF B
<1>6. left # {} => A \in left /\ \A i \in left : i <= A
  <2>1. left \subseteq 1 .. Len(rs)
    BY <1>3
  <2> QED
    BY <1>1, <2>1, LargestIs DEF A
<1>7. ASSUME below # {} PROVE B \in 1 .. Len(rs) /\ rs[B].start <= end /\ \A i \in B + 1 .. Len(rs) : end < rs[i].start
  <2>1. B \in 1 .. Len(rs) /\ rs[B].start <= end
    BY <1>3, <1>4, <1>5, <1>7
  <2>2. ASSUME NEW i \in B + 1 .. Len(rs) PROVE end < rs[i].start
    <3>1. i \in 1 .. Len(rs) /\ ~(i <= B)
      BY <1>1, <2>1
    <3>2. ~(rs[i].start <= end)
      BY <1>4, <1>5, <1>7, <3>1
    <3> QED
      BY <1>1, <3>1, <3>2
  <2> QED
    BY <2>1, <2>2
<1>8. CASE start = end
  <2>1. res.ranges = rs /\ res.capacity = cap /\ res.ok = TRUE
    BY <1>2, <1>8 DEF Array!Result
  <2>2. \A x \in Nat : ~(start <= x /\ x < end)
    BY <1>8
  <2> QED
    BY <2>1, <2>2 DEF Adds, res
<1>9. CASE start # end /\ below = {}
  <2> DEFINE slot == 1
  <2>1. start < end /\ slot \in 1 .. Len(rs) + 1 /\ (\A i \in 1 .. slot - 1 : rs[i].end < start)
    BY <1>1, <1>9
  <2>2. \A i \in slot .. Len(rs) : end < rs[i].start
    BY <1>1, <1>4, <1>9
  <2>3. res = Array!InsertAt(rs, cap, start, end, slot, mem)
    BY <1>2, <1>9
  <2> HIDE DEF slot
  <2>4. Adds(rs, Array!InsertAt(rs, cap, start, end, slot, mem), f, start, end)
    BY <2>1, <2>2, InsertAdds
  <2> QED
    BY <2>3, <2>4 DEF res
<1>10. CASE start # end /\ below # {} /\ left = {}
  <2> DEFINE a == 1
  <2>1. start < end /\ a \in 1 .. Len(rs) /\ B \in a .. Len(rs) /\ rs[B].start <= end
    BY <1>1, <1>7, <1>10
  <2>2. start <= rs[a].end
    <3>1. rs[1].start <= end
      <4>1. CASE B = 1
        BY <4>1, <1>7, <1>10
      <4>2. CASE 1 < B
        <5>1. rs[1].end < rs[B].start /\ rs[1].start <= rs[1].end /\ rs[1].start \in Nat /\ rs[1].end \in Nat /\ rs[B].start \in Nat
          BY <4>2, <1>1, <2>1
        <5> QED
          BY <5>1, <2>1
      <4> QED
        BY <4>1, <4>2, <2>1
    <3>2. ~(rs[1].end <= start) /\ rs[1].end \in Nat
      BY <3>1, <1>1, <1>4, <1>10, <2>1
    <3> QED
      BY <3>2
  <2>3. (\A i \in 1 .. a - 1 : rs[i].end < start) /\ (\A i \in B + 1 .. Len(rs) : end < rs[i].start)
    BY <1>7, <1>10
  <2>4. res = Array!MergeUpdate(rs, cap, start, end, a, B, mem)
    BY <1>2, <1>10
  <2> HIDE DEF a
  <2>5. Adds(rs, Array!MergeUpdate(rs, cap, start, end, a, B, mem), f, start, end)
    BY <2>1, <2>2, <2>3, MergeAdds
  <2> QED
    BY <2>4, <2>5 DEF res
<1>11. CASE start # end /\ below # {} /\ left # {}
  <2>1. start < end /\ A \in 1 .. Len(rs) /\ B \in 1 .. Len(rs) /\ A <= B /\ rs[A].end <= start /\ rs[B].start <= end
    <3>1. start < end
      BY <1>11
    <3>2. A \in left /\ A \in below /\ A \in 1 .. Len(rs)
      BY <1>3, <1>6, <1>11
    <3>3. A <= B
      BY <1>5, <1>11, <3>2
    <3>4. B \in 1 .. Len(rs) /\ rs[B].start <= end
      BY <1>7, <1>11
    <3>5. rs[A].end <= start
      BY <1>4, <3>2
    <3> QED
      BY <3>1, <3>2, <3>3, <3>4, <3>5
  <2>2. \A i \in B + 1 .. Len(rs) : end < rs[i].start
    BY <1>7, <1>11
  <2>3. \A i \in 1 .. A - 1 : rs[i].end < start
    <3>1. ASSUME NEW i \in 1 .. A - 1 PROVE rs[i].end < start
      <4>1. /\ rs[i].end < rs[A].start /\ rs[A].start <= rs[A].end
            /\ rs[i].end \in Nat /\ rs[A].start \in Nat /\ rs[A].end \in Nat
        BY <1>1, <2>1
      <4> QED
        BY <4>1, <2>1
    <3> QED
      BY <3>1
  <2>4. CASE rs[A].end = start
    <3>1. res = Array!MergeUpdate(rs, cap, start, end, A, B, mem)
      BY <1>2, <1>11, <2>4
    <3>2. B \in A .. Len(rs) /\ start <= rs[A].end
      BY <1>1, <2>1, <2>4
    <3>3. Adds(rs, Array!MergeUpdate(rs, cap, start, end, A, B, mem), f, start, end)
      BY <2>1, <2>2, <2>3, <3>2, MergeAdds
    <3> QED
      BY <3>1, <3>3 DEF res
  <2>5. CASE rs[A].end # start
    <3> DEFINE slot == A + 1
    <3>1. \A i \in 1 .. slot - 1 : rs[i].end < start
      <4>1. rs[A].end < start
        BY <1>1, <2>1, <2>5
      <4>2. slot - 1 = A /\ A \in Nat
        BY <2>1
      <4> QED
        BY <4>1, <4>2, <2>3
    <3>2. CASE A = B
      <4>1. res = Array!InsertAt(rs, cap, start, end, slot, mem)
        BY <1>2, <1>11, <2>5, <3>2
      <4>2. slot \in 1 .. Len(rs) + 1 /\ \A i \in slot .. Len(rs) : end < rs[i].start
        BY <1>1, <2>1, <2>2, <3>2
      <4> HIDE DEF slot
      <4>3. Adds(rs, Array!InsertAt(rs, cap, start, end, slot, mem), f, start, end)
        BY <2>1, <3>1, <4>2, InsertAdds
      <4> QED
        BY <4>1, <4>3 DEF res
    <3>3. CASE A # B
      <4>1. res = Array!MergeUpdate(rs, cap, start, end, slot, B, mem)
        BY <1>2, <1>11, <2>5, <3>3
      <4>2. slot \in 1 .. Len(rs) /\ B \in slot .. Len(rs) /\ ~(slot <= A)
        BY <1>1, <2>1, <3>3
      <4>3. start <= rs[slot].end
        <5>1. rs[slot].start <= end
          <6>1. CASE slot = B
            BY <6>1, <2>1
          <6>2. CASE slot < B
            <7> HIDE DEF slot
            <7>1. /\ rs[slot].end < rs[B].start /\ rs[slot].start <= rs[slot].end /\ rs[slot].start \in Nat
                  /\ rs[slot].end \in Nat /\ rs[B].start \in Nat
              BY <6>2, <1>1, <2>1, <4>2
            <7> QED
              BY <7>1, <2>1
          <6> QED
            BY <6>1, <6>2, <4>2, <2>1
        <5> HIDE DEF slot
        <5>2. slot \notin left
          BY <1>6, <1>11, <4>2
        <5>3. ~(rs[slot].end <= start) /\ rs[slot].end \in Nat
          BY <1>1, <1>4, <4>2, <5>1, <5>2
        <5> QED
          BY <5>3
      <4> HIDE DEF slot
      <4>4. Adds(rs, Array!MergeUpdate(rs, cap, start, end, slot, B, mem), f, start, end)
        BY <2>1, <2>2, <3>1, <4>2, <4>3, MergeAdds
      <4> QED
        BY <4>1, <4>4 DEF res
    <3> QED
      BY <3>2, <3>3
  <2> QED
    BY <2>4, <2>5
<1> QED
  BY <1>8, <1>9, <1>10, <1>11

-----------------------------------------------------------------------------
(* quicly_ranges_subtract, of arrays that keep no range at 0. *)

\* The call fails and changes nothing, or the array stands for the difference.
Subtracts(rs, res, start, end) ==
    /\ res.ok \in BOOLEAN /\ Fits(res.ranges, res.capacity) /\ Good(res.ranges, FALSE)
    /\ res.ok => \A x \in Nat : Member(res.ranges, x) <=> Member(rs, x) /\ ~(start <= x /\ x < end)
    /\ ~res.ok => res.ranges = rs

LEMMA StrictSlots ==
    ASSUME NEW rs, Good(rs, FALSE)
    PROVE  /\ rs \in Seq(Slot) /\ Len(rs) \in Nat /\ DOMAIN rs = 1 .. Len(rs)
           /\ \A i \in 1 .. Len(rs) : rs[i].start \in Nat /\ rs[i].end \in Nat /\ rs[i].start < rs[i].end
           /\ \A i, j \in 1 .. Len(rs) : i < j => rs[i].end < rs[j].start
<1>1. rs \in Seq(Slot) /\ Len(rs) \in Nat /\ DOMAIN rs = 1 .. Len(rs)
  BY DEF Good
<1>2. ASSUME NEW i \in 1 .. Len(rs) PROVE rs[i].start \in Nat /\ rs[i].end \in Nat /\ rs[i].start < rs[i].end
  <2>1. rs[i].start \in Nat /\ rs[i].end \in Nat
    BY <1>1, SlotTypes
  <2>2. rs[i].start < rs[i].end
    BY <1>1 DEF Good, Proper
  <2> QED
    BY <2>1, <2>2
<1>3. \A i, j \in 1 .. Len(rs) : i < j => rs[i].end < rs[j].start
  BY <1>1 DEF Good, Ordered
<1> QED
  BY <1>1, <1>2, <1>3

\* An array whose slots only became smaller is still in order.
LEMMA TrimmedGood ==
    ASSUME NEW rs, Good(rs, FALSE), NEW new \in Seq(Slot), Len(new) = Len(rs),
           \A i \in 1 .. Len(rs) : rs[i].start <= new[i].start /\ new[i].start < new[i].end /\ new[i].end <= rs[i].end
    PROVE  Good(new, FALSE)
<1>0. DOMAIN new = 1 .. Len(rs)
  OBVIOUS
<1>1. /\ rs \in Seq(Slot) /\ Len(rs) \in Nat /\ DOMAIN rs = 1 .. Len(rs)
      /\ \A i \in 1 .. Len(rs) : rs[i].start \in Nat /\ rs[i].end \in Nat /\ rs[i].start < rs[i].end
      /\ \A i, j \in 1 .. Len(rs) : i < j => rs[i].end < rs[j].start
  BY StrictSlots
<1>2. \A i \in 1 .. Len(rs) : new[i].start \in Nat /\ new[i].end \in Nat
  BY <1>0, SlotTypes
<1>3. ASSUME NEW i \in 1 .. Len(rs), NEW j \in 1 .. Len(rs), i < j PROVE new[i].end < new[j].start
  <2>1. new[i].end <= rs[i].end /\ rs[i].end < rs[j].start /\ rs[j].start <= new[j].start
    BY <1>1, <1>3
  <2>2. rs[i].end \in Nat /\ rs[j].start \in Nat /\ new[i].end \in Nat /\ new[j].start \in Nat
    BY <1>1, <1>2
  <2> QED
    BY <2>1, <2>2, SMTT(30)
<1> QED
  BY <1>0, <1>1, <1>3 DEF Good, Ordered, Proper

LEMMA DroppedGood ==
    ASSUME NEW rs, Good(rs, FALSE), NEW from \in 1 .. Len(rs) + 1, NEW to \in from .. Len(rs) + 1, NEW new, Dropped(rs, new, from, to)
    PROVE  /\ Good(new, FALSE)
           /\ \A x \in Nat : Member(new, x) <=> \E i \in DOMAIN rs : (i < from \/ i >= to) /\ Holds(rs[i], x)
<1> DEFINE L == Len(rs)
           N == Len(new)
           d == to - from
<1>1. /\ rs \in Seq(Slot) /\ L \in Nat /\ DOMAIN rs = 1 .. L
      /\ \A i \in 1 .. L : rs[i].start \in Nat /\ rs[i].end \in Nat /\ rs[i].start < rs[i].end
      /\ \A i, j \in 1 .. L : i < j => rs[i].end < rs[j].start
  BY StrictSlots
<1>2. /\ new \in Seq(Slot) /\ N \in Nat /\ DOMAIN new = 1 .. N /\ N = L - d
      /\ \A i \in 1 .. N : new[i] = IF i < from THEN rs[i] ELSE rs[i + d]
  BY DEF Dropped
<1>3. d \in Nat /\ from \in Nat /\ to \in Nat /\ from + d = to /\ from <= L + 1 /\ to <= L + 1 /\ from >= 1
  BY <1>1
<1> HIDE DEF L, N, d
<1>4. ASSUME NEW i \in 1 .. N
      PROVE  \/ i < from /\ i \in 1 .. L /\ new[i] = rs[i]
             \/ i >= from /\ i + d >= to /\ i + d \in 1 .. L /\ new[i] = rs[i + d]
  BY <1>1, <1>2, <1>3
<1>5. ASSUME NEW i \in 1 .. N, NEW j \in 1 .. N, i < j PROVE new[i].end < new[j].start
  <2>1. PICK p \in 1 .. L, q \in 1 .. L : p < q /\ new[i] = rs[p] /\ new[j] = rs[q]
    <3>1. CASE j < from
      BY <3>1, <1>3, <1>4, <1>5
    <3>2. CASE i < from /\ j >= from
      <4>1. i \in 1 .. L /\ j + d \in 1 .. L /\ i < j + d /\ new[i] = rs[i] /\ new[j] = rs[j + d]
        BY <3>2, <1>3, <1>4, <1>5
      <4> QED
        BY <4>1
    <3>3. CASE i >= from
      <4>1. i + d \in 1 .. L /\ j + d \in 1 .. L /\ i + d < j + d /\ new[i] = rs[i + d] /\ new[j] = rs[j + d]
        BY <3>3, <1>3, <1>4, <1>5
      <4> QED
        BY <4>1
    <3> QED
      BY <3>1, <3>2, <3>3, <1>3
  <2> QED
    BY <2>1, <1>1
<1>6. ASSUME NEW i \in 1 .. N PROVE new[i].start < new[i].end
  <2>1. PICK p \in 1 .. L : new[i] = rs[p]
    BY <1>4
  <2> QED
    BY <2>1, <1>1
<1>7. Good(new, FALSE)
  BY <1>2, <1>5, <1>6 DEF Good, Ordered, Proper
<1>8. ASSUME NEW x \in Nat PROVE Member(new, x) <=> \E i \in DOMAIN rs : (i < from \/ i >= to) /\ Holds(rs[i], x)
  <2>1. ASSUME NEW i \in 1 .. N, Holds(new[i], x) PROVE \E k \in 1 .. L : (k < from \/ k >= to) /\ Holds(rs[k], x)
    BY <1>4, <2>1
  <2>2. ASSUME NEW k \in 1 .. L, k < from, Holds(rs[k], x) PROVE \E i \in 1 .. N : Holds(new[i], x)
    <3>1. k \in 1 .. N /\ new[k] = rs[k]
      BY <1>1, <1>2, <1>3, <2>2
    <3> QED
      BY <2>2, <3>1
  <2>3. ASSUME NEW k \in 1 .. L, k >= to, Holds(rs[k], x) PROVE \E i \in 1 .. N : Holds(new[i], x)
    <3> DEFINE i == k - d
    <3>1. i \in 1 .. N /\ ~(i < from) /\ i + d = k
      BY <1>1, <1>2, <1>3, <2>3
    <3>2. new[i] = rs[i + d]
      <4> HIDE DEF i
      <4> QED
        BY <3>1, <1>2
    <3>3. new[i] = rs[k]
      BY <3>1, <3>2
    <3> QED
      BY <2>3, <3>1, <3>3
  <2> QED
    BY <1>1, <1>2, <2>1, <2>2, <2>3 DEF Member
<1> QED
  BY <1>7, <1>8

\* One slot becomes smaller.
LEMMA TrimSlot ==
    ASSUME NEW rs, Good(rs, FALSE), NEW slot \in 1 .. Len(rs), NEW q \in Slot,
           rs[slot].start <= q.start, q.start < q.end, q.end <= rs[slot].end
    PROVE  LET new == [rs EXCEPT ![slot] = q]
           IN  /\ new \in Seq(Slot) /\ Len(new) = Len(rs) /\ Good(new, FALSE)
               /\ \A i \in 1 .. Len(rs) : new[i] = IF i = slot THEN q ELSE rs[i]
               /\ \A x \in Nat : Member(new, x) <=> Holds(q, x) \/ \E i \in DOMAIN rs : i # slot /\ Holds(rs[i], x)
<1> DEFINE new == [rs EXCEPT ![slot] = q]
<1>1. /\ rs \in Seq(Slot) /\ Len(rs) \in Nat /\ DOMAIN rs = 1 .. Len(rs)
      /\ \A i \in 1 .. Len(rs) : rs[i].start \in Nat /\ rs[i].end \in Nat /\ rs[i].start < rs[i].end
  BY StrictSlots
<1>2. /\ new \in Seq(Slot) /\ Len(new) = Len(rs) /\ DOMAIN new = 1 .. Len(rs)
      /\ \A i \in 1 .. Len(rs) : new[i] = IF i = slot THEN q ELSE rs[i]
  BY <1>1
<1> HIDE DEF new
<1>3. ASSUME NEW i \in 1 .. Len(rs) PROVE rs[i].start <= new[i].start /\ new[i].start < new[i].end /\ new[i].end <= rs[i].end
  BY <1>1, <1>2
<1>4. Good(new, FALSE)
  BY <1>2, <1>3, TrimmedGood
<1>5. ASSUME NEW x \in Nat PROVE Member(new, x) <=> Holds(q, x) \/ \E i \in DOMAIN rs : i # slot /\ Holds(rs[i], x)
  BY <1>1, <1>2 DEF Member
<1> QED
  BY <1>2, <1>4, <1>5 DEF new

\* Slots before the one that was found end before start, later ones follow it.
LEMMA Located ==
    ASSUME NEW rs, Good(rs, FALSE), NEW start \in Nat, NEW slot \in 1 .. Len(rs), rs[slot].end >= start,
           \A j \in 1 .. slot - 1 : rs[j].end < start, NEW i \in DOMAIN rs, NEW x \in Nat, Holds(rs[i], x)
    PROVE  (i < slot => x < start) /\ (i > slot => x >= start /\ x >= rs[slot].end)
<1>1. /\ rs \in Seq(Slot) /\ Len(rs) \in Nat /\ DOMAIN rs = 1 .. Len(rs)
      /\ \A k \in 1 .. Len(rs) : rs[k].start \in Nat /\ rs[k].end \in Nat /\ rs[k].start < rs[k].end
      /\ \A k, j \in 1 .. Len(rs) : k < j => rs[k].end < rs[j].start
  BY StrictSlots
<1>2. rs[i].start <= x /\ x < rs[i].end /\ rs[i].start \in Nat /\ rs[i].end \in Nat /\ rs[slot].end \in Nat /\ i \in 1 .. Len(rs)
  BY <1>1 DEF Holds
<1>3. ASSUME i < slot PROVE x < start
  <2>1. i \in 1 .. slot - 1
    BY <1>2, <1>3
  <2>2. rs[i].end < start
    BY <2>1
  <2> QED
    BY <1>2, <2>2
<1>4. ASSUME i > slot PROVE x >= start /\ x >= rs[slot].end
  <2>1. rs[slot].end < rs[i].start
    BY <1>1, <1>2, <1>4
  <2> QED
    BY <1>2, <2>1
<1> QED
  BY <1>3, <1>4

PutAt(rs, res, start, end, slot) ==
    /\ res.ok \in BOOLEAN /\ Fits(res.ranges, res.capacity)
    /\ res.ok => Replaced(rs, res.ranges, slot, slot - 1, [start |-> start, end |-> end])
    /\ ~res.ok => res.ranges = rs

LEMMA InSlotSubtracts ==
    ASSUME NEW rs, Good(rs, FALSE), NEW cap, Fits(rs, cap), NEW start \in Nat, NEW end \in Nat, start < end, NEW mem \in BOOLEAN,
           NEW slot \in 1 .. Len(rs), rs[slot].end >= start, \A j \in 1 .. slot - 1 : rs[j].end < start, end <= rs[slot].end
    PROVE  Subtracts(rs, Array!SubtractInSlot(rs, cap, start, end, slot, mem), start, end)
<1> DEFINE r == rs[slot]
           res == Array!SubtractInSlot(rs, cap, start, end, slot, mem)
           In(x) == start <= x /\ x < end
<1>1. /\ rs \in Seq(Slot) /\ Len(rs) \in Nat /\ DOMAIN rs = 1 .. Len(rs)
      /\ \A i \in 1 .. Len(rs) : rs[i].start \in Nat /\ rs[i].end \in Nat /\ rs[i].start < rs[i].end
      /\ \A i, j \in 1 .. Len(rs) : i < j => rs[i].end < rs[j].start
  BY StrictSlots
<1>2. r.start \in Nat /\ r.end \in Nat /\ r.start < r.end /\ r \in Slot /\ slot \in DOMAIN rs /\ slot \in Nat /\ end <= r.end /\ start <= r.end
      /\ slot \in 1 .. Len(rs)
  BY <1>1
<1>3. ASSUME NEW i \in DOMAIN rs, i # slot, NEW x \in Nat, Holds(rs[i], x) PROVE ~In(x)
  <2>1. (i < slot => x < start) /\ (i > slot => x >= start /\ x >= rs[slot].end)
    BY <1>3, Located, ZenonT(30)
  <2>2. i \in Nat
    BY <1>1
  <2> QED
    BY <1>2, <1>3, <2>1, <2>2
<1>4. res = IF end <= r.start THEN Array!Result(rs, cap, TRUE)
            ELSE IF start <= r.start /\ end = r.end THEN Array!DropByRangeIndices(rs, cap, slot, slot + 1, mem)
            ELSE IF start <= r.start THEN Array!Result([rs EXCEPT ![slot].start = end], cap, TRUE)
            ELSE IF end = r.end THEN Array!Result([rs EXCEPT ![slot].end = start], cap, TRUE)
            ELSE LET split == Array!InsertAt(rs, cap, end, r.end, slot + 1, mem)
                 IN  IF split.ok THEN [split EXCEPT !.ranges[slot].end = start] ELSE split
  BY DEF Array!SubtractInSlot
<1> HIDE DEF res
<1>5. CASE end <= r.start
  <2>1. res.ranges = rs /\ res.capacity = cap /\ res.ok = TRUE
    BY <1>4, <1>5 DEF Array!Result
  <2>2. ASSUME NEW x \in Nat PROVE Holds(rs[slot], x) => ~In(x)
    BY <1>2, <1>5 DEF Holds
  <2>3. ASSUME NEW x \in Nat PROVE Member(rs, x) => ~In(x)
    BY <1>3, <2>2 DEF Member
  <2> QED
    BY <2>1, <2>3 DEF Subtracts, res
<1>6. CASE ~(end <= r.start) /\ start <= r.start /\ end = r.end
  <2> DEFINE to == slot + 1
  <2>1. slot \in 1 .. Len(rs) + 1 /\ to \in slot .. Len(rs) + 1 /\ to = slot + 1
    BY <1>1, <1>2
  <2>2. res = Array!DropByRangeIndices(rs, cap, slot, to, mem)
    BY <1>4, <1>6
  <2> HIDE DEF to
  <2>3. LET out == Array!DropByRangeIndices(rs, cap, slot, to, mem)
        IN  out.ok = TRUE /\ Fits(out.ranges, out.capacity) /\ Dropped(rs, out.ranges, slot, to)
    BY <1>1, <2>1, DropRight
  <2>4. res.ok = TRUE /\ Fits(res.ranges, res.capacity) /\ Dropped(rs, res.ranges, slot, to)
    BY <2>2, <2>3
  <2> DEFINE new == res.ranges
  <2>5. Dropped(rs, new, slot, to)
    BY <2>4
  <2> HIDE DEF new
  <2>6. /\ Good(new, FALSE)
        /\ \A x \in Nat : Member(new, x) <=> \E i \in DOMAIN rs : (i < slot \/ i >= to) /\ Holds(rs[i], x)
    BY <2>1, <2>5, DroppedGood
  <2>7. ASSUME NEW i \in DOMAIN rs PROVE (i < slot \/ i >= to) <=> i # slot
    BY <1>1, <1>2, <2>1
  <2>8. ASSUME NEW x \in Nat PROVE Holds(rs[slot], x) => In(x)
    BY <1>2, <1>6 DEF Holds
  <2>9. ASSUME NEW x \in Nat PROVE Member(new, x) <=> Member(rs, x) /\ ~In(x)
    <3>1. Member(new, x) <=> \E i \in DOMAIN rs : i # slot /\ Holds(rs[i], x)
      BY <2>6, <2>7
    <3> QED
      BY <3>1, <1>3, <2>8 DEF Member
  <2> QED
    BY <2>4, <2>6, <2>9 DEF Subtracts, res, new
<1>7. ASSUME NEW q \in Slot, rs[slot].start <= q.start, q.start < q.end, q.end <= rs[slot].end, res = Array!Result([rs EXCEPT ![slot] = q], cap, TRUE),
             \A x \in Nat : Holds(q, x) <=> Holds(rs[slot], x) /\ ~In(x)
      PROVE  Subtracts(rs, res, start, end)
  <2> DEFINE new == [rs EXCEPT ![slot] = q]
  <2>1. /\ new \in Seq(Slot) /\ Len(new) = Len(rs) /\ Good(new, FALSE)
        /\ \A x \in Nat : Member(new, x) <=> Holds(q, x) \/ \E i \in DOMAIN rs : i # slot /\ Holds(rs[i], x)
    BY <1>7, TrimSlot
  <2>2. res.ranges = new /\ res.capacity = cap /\ res.ok = TRUE
    BY <1>7 DEF Array!Result
  <2> HIDE DEF new
  <2>3. Fits(new, cap)
    BY <2>1 DEF Fits
  <2>4. ASSUME NEW x \in Nat PROVE Member(new, x) <=> Member(rs, x) /\ ~In(x)
    BY <1>2, <1>3, <1>7, <2>1 DEF Member
  <2> QED
    BY <2>1, <2>2, <2>3, <2>4 DEF Subtracts
<1>8. CASE ~(end <= r.start) /\ start <= r.start /\ end # r.end
  <2> DEFINE q == [start |-> end, end |-> r.end]
  <2>1. [rs EXCEPT ![slot].start = end] = [rs EXCEPT ![slot] = q]
    <3>1. [r EXCEPT !.start = end] = q
      BY <1>2 DEF Slot
    <3> QED
      BY <3>1
  <2>2. res = Array!Result([rs EXCEPT ![slot] = q], cap, TRUE)
    BY <1>4, <1>8, <2>1
  <2>3. q \in Slot /\ q.start = end /\ q.end = r.end
    BY <1>2 DEF Slot
  <2> HIDE DEF q
  <2>4. rs[slot].start <= q.start /\ q.start < q.end /\ q.end <= rs[slot].end
    BY <1>2, <1>8, <2>3
  <2>5. ASSUME NEW x \in Nat PROVE Holds(q, x) <=> Holds(rs[slot], x) /\ ~In(x)
    BY <1>2, <1>8, <2>3 DEF Holds
  <2> QED
    BY <1>7, <2>2, <2>3, <2>4, <2>5 DEF res
<1>9. CASE ~(end <= r.start) /\ ~(start <= r.start) /\ end = r.end
  <2> DEFINE q == [start |-> r.start, end |-> start]
  <2>1. [rs EXCEPT ![slot].end = start] = [rs EXCEPT ![slot] = q]
    <3>1. [r EXCEPT !.end = start] = q
      BY <1>2 DEF Slot
    <3> QED
      BY <3>1
  <2>2. res = Array!Result([rs EXCEPT ![slot] = q], cap, TRUE)
    BY <1>4, <1>9, <2>1
  <2>3. q \in Slot /\ q.start = r.start /\ q.end = start
    BY <1>2 DEF Slot
  <2> HIDE DEF q
  <2>4. rs[slot].start <= q.start /\ q.start < q.end /\ q.end <= rs[slot].end
    BY <1>2, <1>9, <2>3
  <2>5. ASSUME NEW x \in Nat PROVE Holds(q, x) <=> Holds(rs[slot], x) /\ ~In(x)
    BY <1>2, <1>9, <2>3 DEF Holds
  <2> QED
    BY <1>7, <2>2, <2>3, <2>4, <2>5 DEF res
<1>10. CASE ~(start <= r.start) /\ end # r.end /\ ~(end <= r.start)
  <2> DEFINE at == slot + 1
             split == Array!InsertAt(rs, cap, end, r.end, at, mem)
             p == [start |-> r.start, end |-> start]
             q == [start |-> end, end |-> r.end]
             mid == [rs EXCEPT ![slot] = p]
             new == [split.ranges EXCEPT ![slot].end = start]
  <2>1. res = IF split.ok THEN [split EXCEPT !.ranges[slot].end = start] ELSE split
    BY <1>4, <1>10
  <2>2. at \in 1 .. Len(rs) + 1 /\ at = slot + 1 /\ at - 1 = slot
    BY <1>1, <1>2
  <2>3. p \in Slot /\ p.start = r.start /\ p.end = start /\ q \in Slot /\ q.start = end /\ q.end = r.end
    BY <1>2 DEF Slot
  <2>20. at \in Nat /\ slot \in Nat /\ Len(rs) \in Nat /\ 1 <= slot /\ slot <= Len(rs) /\ at = slot + 1
    BY <1>1, <1>2
  <2>4. ASSUME NEW e \in Nat, NEW k \in 1 .. Len(rs) + 1 PROVE PutAt(rs, Array!InsertAt(rs, cap, end, e, k, mem), end, e, k)
    <3>1. LET out == Array!InsertAt(rs, cap, end, e, k, mem)
          IN  /\ out.ok \in BOOLEAN /\ Fits(out.ranges, out.capacity)
              /\ out.ok => Replaced(rs, out.ranges, k, k - 1, [start |-> end, end |-> e])
              /\ ~out.ok => out.ranges = rs
      BY <1>1, InsertAtRight
    <3> QED
      BY <3>1 DEF PutAt
  <2>5. /\ split.ok \in BOOLEAN /\ Fits(split.ranges, split.capacity)
        /\ (split.ok => Replaced(rs, split.ranges, at, at - 1, q)) /\ (~split.ok => split.ranges = rs)
    <3>1. PutAt(rs, split, end, r.end, at)
      <4> HIDE DEF at, r
      <4> QED
        BY <1>2, <2>2, <2>4
    <3> QED
      BY <3>1 DEF PutAt
  <2>6. p.start <= r.end /\ rs[slot].start <= p.start /\ p.start < p.end /\ p.end <= rs[slot].end /\ q.start < q.end /\ p.end < q.start
    BY <1>2, <1>10, <2>3
  <2>7. CASE ~split.ok
    BY <2>1, <2>5, <2>7 DEF Subtracts, res
  <2>8. CASE split.ok
    <3>1. DOMAIN split = {"ranges", "capacity", "ok"}
      BY DEF Array!InsertAt, Array!Result
    <3>2. res.ranges = new /\ res.capacity = split.capacity /\ res.ok = split.ok
      <4> HIDE DEF split
      <4> QED
        BY <2>1, <2>8, <3>1
    <3> HIDE DEF split, p, q, at
    <3>3. Replaced(rs, split.ranges, at, at - 1, q)
      BY <2>5, <2>8
    <3>4. /\ split.ranges \in Seq(Slot) /\ Len(split.ranges) = Len(rs) + 1
          /\ \A i \in 1 .. Len(rs) + 1 : split.ranges[i] = IF i < at THEN rs[i] ELSE IF i = at THEN q ELSE rs[i - 1]
      <4>1. Len(split.ranges) = Len(rs) - (at - 1 - at) /\ at \in Nat
        BY <3>3, <2>2, <1>2 DEF Replaced
      <4>2. Len(split.ranges) = Len(rs) + 1
        BY <4>1, <1>1
      <4>3. ASSUME NEW i \in 1 .. Len(rs) + 1 PROVE i + (at - 1 - at) = i - 1
        BY <4>1
      <4> QED
        BY <3>3, <4>2, <4>3 DEF Replaced
    <3>5. split.ranges[slot] = r /\ slot \in 1 .. Len(rs) + 1
      BY <3>4, <2>2, <1>1, <1>2
    <3>6. [r EXCEPT !.end = start] = p
      BY <1>2 DEF Slot, p
    <3>7. new = [split.ranges EXCEPT ![slot] = p]
      BY <3>5, <3>6
    <3>8. /\ new \in Seq(Slot) /\ Len(new) = Len(rs) + 1
          /\ \A i \in 1 .. Len(rs) + 1 : new[i] = IF i = slot THEN p ELSE split.ranges[i]
      <4> DEFINE sr == split.ranges
                 out == [sr EXCEPT ![slot] = p]
      <4>1. sr \in Seq(Slot) /\ Len(sr) = Len(rs) + 1 /\ p \in Slot /\ slot \in 1 .. Len(sr) /\ DOMAIN sr = 1 .. Len(sr)
        BY <3>4, <3>5, <2>3
      <4>2. new = out
        BY <3>7
      <4> HIDE DEF sr, new
      <4>3. out \in Seq(Slot) /\ Len(out) = Len(sr) /\ \A i \in 1 .. Len(sr) : out[i] = IF i = slot THEN p ELSE sr[i]
        BY <4>1
      <4> QED
        BY <4>1, <4>2, <4>3 DEF sr
    <3> HIDE DEF new
    <3>9. /\ mid \in Seq(Slot) /\ Len(mid) = Len(rs) /\ Good(mid, FALSE)
          /\ \A i \in 1 .. Len(rs) : mid[i] = IF i = slot THEN p ELSE rs[i]
          /\ \A x \in Nat : Member(mid, x) <=> Holds(p, x) \/ \E i \in DOMAIN rs : i # slot /\ Holds(rs[i], x)
      <4>1. LET m == [rs EXCEPT ![slot] = p]
            IN  /\ m \in Seq(Slot) /\ Len(m) = Len(rs) /\ Good(m, FALSE)
                /\ \A i \in 1 .. Len(rs) : m[i] = IF i = slot THEN p ELSE rs[i]
                /\ \A x \in Nat : Member(m, x) <=> Holds(p, x) \/ \E i \in DOMAIN rs : i # slot /\ Holds(rs[i], x)
        <5>1. p \in Slot /\ rs[slot].start <= p.start /\ p.start < p.end /\ p.end <= rs[slot].end
          BY <2>3, <2>6
        <5> QED
          BY <5>1, TrimSlot
      <4> QED
        BY <4>1
    <3> HIDE DEF mid
    <3>10. Replaced(mid, new, at, slot, q)
      <4>1. Len(new) = Len(mid) - (slot - at)
        BY <3>8, <3>9, <2>20
      <4>2. ASSUME NEW i \in 1 .. Len(new) PROVE new[i] = IF i < at THEN mid[i] ELSE IF i = at THEN q ELSE mid[i + (slot - at)]
        <5>0. i \in 1 .. Len(rs) + 1 /\ i \in Nat
          BY <3>8, <1>1
        <5>1. CASE i < at
          <6>1. i \in 1 .. Len(rs)
            BY <5>0, <5>1, <2>2, <1>1, <1>2
          <6> QED
            BY <5>0, <5>1, <6>1, <3>4, <3>8, <3>9
        <5>2. CASE i = at
          BY <5>0, <5>2, <3>4, <3>8, <2>20
        <5>3. CASE i > at
          <6>1. i + (slot - at) = i - 1 /\ i - 1 \in 1 .. Len(rs) /\ i - 1 # slot /\ i # slot /\ ~(i < at) /\ i # at
            BY <5>0, <5>3, <2>20
          <6>2. new[i] = rs[i - 1] /\ mid[i - 1] = rs[i - 1]
            BY <5>0, <6>1, <3>4, <3>8, <3>9
          <6> QED
            BY <6>1, <6>2
        <5> QED
          BY <5>0, <5>1, <5>2, <5>3, <2>2, <1>2
      <4> QED
        BY <3>8, <4>1, <4>2 DEF Replaced
    <3>11. \A i \in 1 .. at - 1 : mid[i].end < q.start
      <4>1. ASSUME NEW i \in 1 .. at - 1 PROVE mid[i].end < q.start
        <5>1. i \in 1 .. Len(rs) /\ (i = slot \/ i \in 1 .. slot - 1)
          BY <2>2, <1>1, <1>2
        <5>2. CASE i = slot
          BY <5>1, <5>2, <3>9, <2>6
        <5>3. CASE i # slot
          <6>1. mid[i] = rs[i] /\ rs[i].end < start /\ rs[i].end \in Nat
            BY <5>1, <5>3, <3>9, <1>1
          <6> QED
            BY <6>1, <2>3
        <5> QED
          BY <5>2, <5>3
      <4> QED
        BY <4>1
    <3>12. \A i \in slot + 1 .. Len(mid) : q.end < mid[i].start
      <4>1. ASSUME NEW i \in slot + 1 .. Len(mid) PROVE q.end < mid[i].start
        <5>1. i \in 1 .. Len(rs) /\ slot < i /\ i # slot
          BY <3>9, <1>1, <1>2
        <5>2. mid[i] = rs[i] /\ rs[slot].end < rs[i].start
          BY <5>1, <3>9, <1>1, <1>2
        <5> QED
          BY <5>2, <2>3
      <4> QED
        BY <4>1
    <3>13. /\ Good(new, FALSE)
           /\ \A x \in Nat : Member(new, x) <=> Holds(q, x) \/ \E i \in DOMAIN mid : (i < at \/ i > slot) /\ Holds(mid[i], x)
      <4>1. at \in 1 .. Len(mid) + 1 /\ slot \in at - 1 .. Len(mid) /\ q \in Slot /\ q.start < q.end /\ Good(mid, FALSE)
        <5>1. q \in Slot /\ q.start < q.end
          BY <2>3, <2>6
        <5>2. Good(mid, FALSE) /\ Len(mid) = Len(rs)
          BY <3>9
        <5>3. at \in 1 .. Len(rs) + 1 /\ slot \in at - 1 .. Len(rs)
          BY <2>20
        <5> QED
          BY <5>1, <5>2, <5>3
      <4>2. FALSE /\ at = 1 => q.start = 0
        OBVIOUS
      <4> QED
        BY <4>1, <4>2, <3>10, <3>11, <3>12, ReplacedGood
    <3>14. ASSUME NEW x \in Nat PROVE Member(new, x) <=> Member(rs, x) /\ ~In(x)
      <4>1. Member(new, x) <=> Holds(q, x) \/ Member(mid, x)
        <5>1. \A i \in DOMAIN mid : i < at \/ i > slot
          BY <2>2, <3>9, <1>1, <1>2
        <5> QED
          BY <3>13, <5>1 DEF Member
      <4>2. Holds(q, x) \/ Holds(p, x) <=> Holds(rs[slot], x) /\ ~In(x)
        BY <1>2, <1>10, <2>3 DEF Holds
      <4> QED
        BY <4>1, <4>2, <3>9, <1>2, <1>3 DEF Member
    <3>15. Fits(new, split.capacity)
      BY <2>5, <3>4, <3>8 DEF Fits
    <3> QED
      BY <2>8, <3>2, <3>13, <3>14, <3>15 DEF Subtracts, res
  <2> QED
    BY <2>5, <2>7, <2>8
<1>11. Subtracts(rs, res, start, end)
  BY <1>5, <1>6, <1>8, <1>9, <1>10 DEF res
<1> QED
  BY <1>11 DEF res

LEMMA AcrossSubtracts ==
    ASSUME NEW rs, Good(rs, FALSE), NEW cap, Fits(rs, cap), NEW start \in Nat, NEW end \in Nat, start < end, NEW mem \in BOOLEAN,
           NEW slot \in 1 .. Len(rs), rs[slot].end >= start, \A j \in 1 .. slot - 1 : rs[j].end < start, ~(end <= rs[slot].end)
    PROVE  Subtracts(rs, Array!SubtractAcross(rs, cap, start, end, slot, mem), start, end)
<1> DEFINE cut == start > rs[slot].start
           from == IF cut THEN slot + 1 ELSE slot
           stops == {i \in DOMAIN rs : i > slot /\ end < rs[i].end}
           to == IF stops = {} THEN Len(rs) + 1 ELSE CHOOSE i \in stops : \A j \in stops : i <= j
           new == [i \in DOMAIN rs |-> IF i = slot /\ cut THEN [rs[i] EXCEPT !.end = start]
                                       ELSE IF i = to /\ rs[i].start < end THEN [rs[i] EXCEPT !.start = end]
                                       ELSE rs[i]]
           res == Array!SubtractAcross(rs, cap, start, end, slot, mem)
           In(x) == start <= x /\ x < end
<1>1. /\ rs \in Seq(Slot) /\ Len(rs) \in Nat /\ DOMAIN rs = 1 .. Len(rs)
      /\ \A i \in 1 .. Len(rs) : rs[i].start \in Nat /\ rs[i].end \in Nat /\ rs[i].start < rs[i].end
      /\ \A i, j \in 1 .. Len(rs) : i < j => rs[i].end < rs[j].start
  BY StrictSlots
<1>2. res = IF from = to THEN Array!Result(new, cap, TRUE) ELSE Array!DropByRangeIndices(new, cap, from, to, mem)
  BY DEF Array!SubtractAcross
<1>3. rs[slot].start \in Nat /\ rs[slot].end \in Nat /\ rs[slot].start < rs[slot].end /\ slot \in Nat /\ slot <= Len(rs) /\ 1 <= slot
      /\ start <= rs[slot].end /\ rs[slot].end < end /\ slot \in DOMAIN rs /\ Len(rs) \in Nat
  BY <1>1
<1>4. /\ to \in slot + 1 .. Len(rs) + 1
      /\ to \in DOMAIN rs => end < rs[to].end
      /\ \A i \in slot + 1 .. to - 1 : i \in DOMAIN rs /\ rs[i].end <= end
  <2>1. stops \subseteq slot + 1 .. Len(rs) /\ stops \subseteq Nat
    BY <1>1
  <2>2. \A i \in slot + 1 .. Len(rs) : i \in DOMAIN rs /\ rs[i].end \in Nat /\ (i \in stops <=> end < rs[i].end)
    BY <1>1
  <2>3. CASE stops = {}
    <3>1. to = Len(rs) + 1
      BY <2>3
    <3>2. to \notin DOMAIN rs
      BY <1>1, <3>1
    <3> HIDE DEF to, stops
    <3>3. ASSUME NEW i \in slot + 1 .. to - 1 PROVE i \in DOMAIN rs /\ rs[i].end <= end
      <4>1. i \in slot + 1 .. Len(rs)
        BY <1>3, <3>1
      <4> QED
        BY <2>2, <2>3, <4>1
    <3> QED
      BY <1>3, <3>1, <3>2, <3>3
  <2>4. CASE stops # {}
    <3>1. PICK m \in stops : m = (CHOOSE i \in stops : \A j \in stops : i <= j) /\ \A j \in stops : m <= j
      <4> HIDE DEF stops
      <4> QED
        BY <2>1, <2>4, FirstIs
    <3>2. to = m
      BY <2>4, <3>1
    <3> HIDE DEF to, stops
    <3>3. to \in stops /\ \A j \in stops : to <= j
      BY <3>1, <3>2
    <3>4. to \in slot + 1 .. Len(rs) /\ end < rs[to].end
      BY <2>1, <2>2, <3>3
    <3>5. ASSUME NEW i \in slot + 1 .. to - 1 PROVE i \in DOMAIN rs /\ rs[i].end <= end
      <4>1. i \in slot + 1 .. Len(rs) /\ ~(to <= i)
        BY <1>3, <3>4
      <4>2. i \notin stops
        BY <3>3, <4>1
      <4> QED
        BY <2>2, <4>1, <4>2
    <3> QED
      BY <1>3, <3>4, <3>5
  <2> QED
    BY <2>3, <2>4
<1> DEFINE cf == from
<1>5. (cut /\ from = slot + 1) \/ (~cut /\ from = slot)
  OBVIOUS
<1>6. \A i \in DOMAIN rs : new[i] = IF i = slot /\ cut THEN [rs[i] EXCEPT !.end = start]
                                    ELSE IF i = to /\ rs[i].start < end THEN [rs[i] EXCEPT !.start = end]
                                    ELSE rs[i]
  OBVIOUS
<1>7. DOMAIN new = 1 .. Len(rs)
  BY <1>1
<1> HIDE DEF to, from, stops, new, res
<1>8. to \in Nat /\ slot + 1 <= to /\ to <= Len(rs) + 1 /\ from \in Nat /\ slot <= from /\ from <= slot + 1 /\ from <= to
  BY <1>3, <1>4, <1>5
<1>9. ASSUME NEW i \in 1 .. Len(rs)
      PROVE  /\ new[i] \in Slot
             /\ i = slot /\ cut => new[i].start = rs[i].start /\ new[i].end = start
             /\ i = to /\ rs[i].start < end => new[i].start = end /\ new[i].end = rs[i].end
             /\ ~(i = slot /\ cut) /\ ~(i = to /\ rs[i].start < end) => new[i] = rs[i]
  <2>1. i \in DOMAIN rs /\ rs[i] \in Slot /\ rs[i].start \in Nat /\ rs[i].end \in Nat
    BY <1>1, SlotTypes
  <2>2. [rs[i] EXCEPT !.end = start] \in Slot /\ [rs[i] EXCEPT !.start = end] \in Slot
    BY <2>1 DEF Slot
  <2>3. new[i] = IF i = slot /\ cut THEN [rs[i] EXCEPT !.end = start]
                 ELSE IF i = to /\ rs[i].start < end THEN [rs[i] EXCEPT !.start = end]
                 ELSE rs[i]
    BY <1>6, <2>1
  <2>4. CASE i = slot /\ cut
    <3>1. new[i] = [rs[i] EXCEPT !.end = start] /\ ~(i = to)
      BY <1>8, <1>3, <2>3, <2>4
    <3>2. new[i].start = rs[i].start /\ new[i].end = start
      BY <2>1, <3>1 DEF Slot
    <3> QED
      BY <2>2, <2>4, <3>1, <3>2
  <2>5. CASE ~(i = slot /\ cut) /\ i = to /\ rs[i].start < end
    <3>1. new[i] = [rs[i] EXCEPT !.start = end]
      BY <2>3, <2>5
    <3>2. new[i].start = end /\ new[i].end = rs[i].end
      BY <2>1, <3>1 DEF Slot
    <3> QED
      BY <2>2, <2>5, <3>1, <3>2
  <2>6. CASE ~(i = slot /\ cut) /\ ~(i = to /\ rs[i].start < end)
    BY <2>1, <2>3, <2>6
  <2> QED
    BY <2>4, <2>5, <2>6
<1>10. ASSUME NEW i \in 1 .. Len(rs) PROVE rs[i].start <= new[i].start /\ new[i].start < new[i].end /\ new[i].end <= rs[i].end
  <2>1. rs[i].start \in Nat /\ rs[i].end \in Nat /\ rs[i].start < rs[i].end
    BY <1>1
  <2>2. CASE i = slot /\ cut
    BY <2>1, <2>2, <1>3, <1>9
  <2>3. CASE i = to /\ rs[i].start < end
    <3>1. end < rs[i].end
      BY <1>1, <1>4, <2>3
    <3> QED
      BY <2>1, <2>3, <3>1, <1>9
  <2>4. CASE ~(i = slot /\ cut) /\ ~(i = to /\ rs[i].start < end)
    BY <2>1, <2>4, <1>9
  <2> QED
    BY <2>2, <2>3, <2>4
<1>11. new \in Seq(Slot) /\ Len(new) = Len(rs)
  <2>1. new = [i \in 1 .. Len(rs) |-> new[i]]
    BY <1>1 DEF new
  <2>2. \A i \in 1 .. Len(rs) : new[i] \in Slot
    BY <1>9
  <2>3. new \in [1 .. Len(rs) -> Slot]
    BY <2>1, <2>2
  <2> QED
    BY <2>3, <1>3
<1>12. Good(new, FALSE)
  BY <1>10, <1>11, TrimmedGood
<1>13. ASSUME NEW i \in 1 .. Len(rs), NEW x \in Nat
       PROVE  (i < from \/ i >= to) /\ Holds(new[i], x) <=> Holds(rs[i], x) /\ ~In(x)
  <2>1. rs[i].start \in Nat /\ rs[i].end \in Nat /\ rs[i].start < rs[i].end /\ i \in Nat /\ i \in DOMAIN rs
    BY <1>1
  <2>2. ASSUME i > slot PROVE rs[slot].end < rs[i].start
    BY <1>1, <2>2
  <2>3. ASSUME i < slot PROVE rs[i].end < start
    <3>1. i \in 1 .. slot - 1
      BY <1>3, <2>3
    <3> QED
      BY <3>1
  <2>4. CASE i < slot
    <3>1. new[i] = rs[i] /\ i < from
      BY <2>4, <1>8, <1>9, <1>3
    <3> QED
      BY <3>1, <2>1, <2>3, <2>4 DEF Holds
  <2>5. CASE i = slot /\ cut
    <3>1. i < from /\ new[i].start = rs[i].start /\ new[i].end = start
      BY <2>5, <1>3, <1>5, <1>9
    <3> QED
      BY <3>1, <2>1, <2>5, <1>3 DEF Holds
  <2>6. CASE i = slot /\ ~cut
    <3>1. ~(i < from) /\ ~(i >= to)
      BY <2>6, <1>3, <1>5, <1>8
    <3> QED
      BY <3>1, <2>1, <2>6, <1>3 DEF Holds
  <2>7. CASE i > slot /\ i < to
    <3>1. ~(i < from) /\ ~(i >= to) /\ i \in slot + 1 .. to - 1
      BY <2>1, <2>7, <1>3, <1>8, SMTT(30)
    <3>2. rs[i].end <= end
      BY <3>1, <1>4
    <3> QED
      BY <3>1, <3>2, <2>1, <2>2, <2>7, <1>3 DEF Holds
  <2>8. CASE i = to
    <3>1. end < rs[i].end /\ i > slot /\ i # slot /\ i >= to
      BY <2>1, <2>8, <1>3, <1>4, <1>8
    <3>2. rs[slot].end < rs[i].start
      BY <2>2, <3>1
    <3>3. CASE rs[i].start < end
      <4>1. new[i].start = end /\ new[i].end = rs[i].end
        BY <2>8, <3>3, <1>9
      <4> QED
        BY <4>1, <3>1, <3>2, <3>3, <2>1, <1>3 DEF Holds
    <3>4. CASE ~(rs[i].start < end)
      <4>1. new[i] = rs[i]
        BY <3>1, <3>4, <1>9
      <4> QED
        BY <4>1, <3>1, <3>2, <3>4, <2>1, <1>3 DEF Holds
    <3> QED
      BY <3>3, <3>4
  <2>9. CASE i > to
    <3>1. to \in 1 .. Len(rs) /\ to < i /\ i # slot /\ i # to /\ i >= to
      BY <2>1, <2>9, <1>3, <1>8
    <3>2. new[i] = rs[i]
      BY <3>1, <1>9
    <3>3. end < rs[to].end /\ rs[to].end < rs[i].start /\ rs[to].end \in Nat
      BY <3>1, <1>1, <1>4
    <3> QED
      BY <3>1, <3>2, <3>3, <2>1 DEF Holds
  <2> QED
    BY <2>1, <2>4, <2>5, <2>6, <2>7, <2>8, <2>9, <1>3, <1>8
<1>14. ASSUME NEW x \in Nat PROVE (\E i \in DOMAIN new : (i < from \/ i >= to) /\ Holds(new[i], x)) <=> Member(rs, x) /\ ~In(x)
  BY <1>1, <1>7, <1>13 DEF Member
<1> HIDE DEF cut
<1>15. CASE from = to
  <2>1. res.ranges = new /\ res.capacity = cap /\ res.ok = TRUE
    BY <1>2, <1>15 DEF Array!Result
  <2>2. Fits(new, cap)
    BY <1>11 DEF Fits
  <2>3. \A i \in DOMAIN new : i < from \/ i >= to
    BY <1>7, <1>8, <1>15
  <2>4. ASSUME NEW x \in Nat PROVE Member(new, x) <=> Member(rs, x) /\ ~In(x)
    BY <1>14, <2>3 DEF Member
  <2> QED
    BY <1>12, <2>1, <2>2, <2>4 DEF Subtracts, res
<1>16. CASE from # to
  <2>1. res = Array!DropByRangeIndices(new, cap, from, to, mem)
    BY <1>2, <1>16
  <2>2. from \in 1 .. Len(new) + 1 /\ to \in from .. Len(new) + 1 /\ Fits(new, cap) /\ new \in Seq(Slot)
    BY <1>3, <1>8, <1>11 DEF Fits
  <2>3. LET out == Array!DropByRangeIndices(new, cap, from, to, mem)
        IN  out.ok = TRUE /\ Fits(out.ranges, out.capacity) /\ Dropped(new, out.ranges, from, to)
    BY <2>2, DropRight
  <2>4. res.ok = TRUE /\ Fits(res.ranges, res.capacity) /\ Dropped(new, res.ranges, from, to)
    BY <2>1, <2>3
  <2> DEFINE out == res.ranges
  <2>5. Dropped(new, out, from, to)
    BY <2>4
  <2> HIDE DEF out
  <2>6. /\ Good(out, FALSE)
        /\ \A x \in Nat : Member(out, x) <=> \E i \in DOMAIN new : (i < from \/ i >= to) /\ Holds(new[i], x)
    BY <1>12, <2>2, <2>5, DroppedGood
  <2>7. ASSUME NEW x \in Nat PROVE Member(out, x) <=> Member(rs, x) /\ ~In(x)
    BY <1>14, <2>6
  <2> QED
    BY <2>4, <2>6, <2>7 DEF Subtracts, out, res
<1> QED
  BY <1>15, <1>16 DEF res

\* quicly_ranges_subtract: the searched slot exists and the cases cover all.
LEMMA SubtractSubtracts ==
    ASSUME NEW rs, Good(rs, FALSE), NEW cap, Fits(rs, cap), NEW start \in Nat, NEW end \in Nat, start <= end, NEW mem \in BOOLEAN
    PROVE  Subtracts(rs, Array!Subtract(rs, cap, start, end, mem), start, end)
<1> DEFINE res == Array!Subtract(rs, cap, start, end, mem)
           slot == CHOOSE i \in DOMAIN rs : /\ rs[i].end >= start
                                            /\ \A j \in 1 .. i - 1 : rs[j].end < start
           In(x) == start <= x /\ x < end
<1>1. /\ rs \in Seq(Slot) /\ Len(rs) \in Nat /\ DOMAIN rs = 1 .. Len(rs)
      /\ \A i \in 1 .. Len(rs) : rs[i].start \in Nat /\ rs[i].end \in Nat /\ rs[i].start < rs[i].end
      /\ \A i, j \in 1 .. Len(rs) : i < j => rs[i].end < rs[j].start
  BY StrictSlots
<1>2. res = IF start = end \/ rs = << >> THEN Array!Result(rs, cap, TRUE)
            ELSE IF end <= rs[1].start \/ rs[Len(rs)].end <= start THEN Array!Result(rs, cap, TRUE)
            ELSE IF end <= rs[slot].end THEN Array!SubtractInSlot(rs, cap, start, end, slot, mem)
            ELSE Array!SubtractAcross(rs, cap, start, end, slot, mem)
  BY DEF Array!Subtract
<1> HIDE DEF res, slot
<1>3. ASSUME res = Array!Result(rs, cap, TRUE), \A i \in DOMAIN rs, x \in Nat : Holds(rs[i], x) => ~In(x) PROVE Subtracts(rs, res, start, end)
  <2>1. res.ranges = rs /\ res.capacity = cap /\ res.ok = TRUE
    BY <1>3 DEF Array!Result
  <2>2. ASSUME NEW x \in Nat PROVE Member(rs, x) => ~In(x)
    BY <1>3 DEF Member
  <2> QED
    BY <2>1, <2>2 DEF Subtracts
<1>4. CASE start = end \/ rs = << >>
  <2>1. res = Array!Result(rs, cap, TRUE)
    BY <1>2, <1>4
  <2>2. ASSUME NEW i \in DOMAIN rs, NEW x \in Nat PROVE ~In(x)
    BY <1>4
  <2> QED
    BY <1>3, <2>1, <2>2 DEF res
<1>5. CASE start # end /\ rs # << >> /\ (end <= rs[1].start \/ rs[Len(rs)].end <= start)
  <2>1. res = Array!Result(rs, cap, TRUE)
    BY <1>2, <1>5
  <2>0. 1 \in 1 .. Len(rs) /\ Len(rs) \in 1 .. Len(rs)
    BY <1>1, <1>5
  <2>2. ASSUME NEW i \in DOMAIN rs, NEW x \in Nat, Holds(rs[i], x) PROVE ~In(x)
    <3>1. rs[i].start <= x /\ x < rs[i].end /\ rs[i].start \in Nat /\ rs[i].end \in Nat /\ i \in 1 .. Len(rs)
      BY <1>1, <2>2 DEF Holds
    <3>2. rs[1].start <= rs[i].start /\ rs[1].start \in Nat
      <4>1. CASE i = 1
        BY <4>1, <3>1
      <4>2. CASE 1 < i
        <5>1. rs[1].end < rs[i].start /\ rs[1].start < rs[1].end /\ rs[1].start \in Nat /\ rs[1].end \in Nat
          BY <4>2, <3>1, <2>0, <1>1
        <5> QED
          BY <5>1, <3>1
      <4> QED
        BY <4>1, <4>2, <3>1
    <3>3. rs[i].end <= rs[Len(rs)].end /\ rs[Len(rs)].end \in Nat
      <4> DEFINE n == Len(rs)
      <4>0. n \in 1 .. Len(rs) /\ n \in Nat /\ i \in 1 .. n
        BY <2>0, <3>1
      <4>1. CASE i = n
        BY <4>1, <3>1
      <4>2. CASE i < n
        <5> HIDE DEF n
        <5>1. rs[i].end < rs[n].start /\ rs[n].start < rs[n].end /\ rs[n].start \in Nat /\ rs[n].end \in Nat
          BY <4>0, <4>2, <3>1, <1>1
        <5> QED
          BY <5>1, <3>1 DEF n
      <4> QED
        BY <4>0, <4>1, <4>2
    <3> QED
      BY <1>5, <3>1, <3>2, <3>3
  <2> QED
    BY <1>3, <2>1, <2>2 DEF res
<1>6. CASE start # end /\ rs # << >> /\ ~(end <= rs[1].start \/ rs[Len(rs)].end <= start)
  <2> DEFINE S == {i \in DOMAIN rs : rs[i].end >= start}
  <2>1. S \subseteq Nat /\ Len(rs) \in S
    BY <1>1, <1>6
  <2>2. PICK m \in S : \A j \in S : m <= j
    <3> HIDE DEF S
    <3> QED
      BY <2>1, FirstIs
  <2>3. m \in DOMAIN rs /\ rs[m].end >= start /\ \A j \in 1 .. m - 1 : rs[j].end < start
    <3>1. m \in DOMAIN rs /\ rs[m].end >= start /\ m \in 1 .. Len(rs)
      BY <1>1, <2>2
    <3>2. ASSUME NEW j \in 1 .. m - 1 PROVE rs[j].end < start
      <4>1. j \in 1 .. Len(rs) /\ ~(m <= j)
        BY <1>1, <3>1
      <4>2. j \notin S /\ rs[j].end \in Nat /\ j \in DOMAIN rs
        BY <1>1, <2>2, <4>1
      <4>3. ~(rs[j].end >= start)
        BY <4>2
      <4> QED
        BY <4>2, <4>3
    <3> QED
      BY <3>1, <3>2
  <2>4. slot \in DOMAIN rs /\ rs[slot].end >= start /\ \A j \in 1 .. slot - 1 : rs[j].end < start
    BY <2>3 DEF slot
  <2>5. slot \in 1 .. Len(rs) /\ start < end
    BY <1>1, <1>6, <2>4
  <2>6. CASE end <= rs[slot].end
    <3>1. res = Array!SubtractInSlot(rs, cap, start, end, slot, mem)
      BY <1>2, <1>6, <2>6
    <3>2. Subtracts(rs, Array!SubtractInSlot(rs, cap, start, end, slot, mem), start, end)
      BY <2>4, <2>5, <2>6, InSlotSubtracts
    <3> QED
      BY <3>1, <3>2 DEF res
  <2>7. CASE ~(end <= rs[slot].end)
    <3>1. res = Array!SubtractAcross(rs, cap, start, end, slot, mem)
      BY <1>2, <1>6, <2>7
    <3>2. Subtracts(rs, Array!SubtractAcross(rs, cap, start, end, slot, mem), start, end)
      BY <2>4, <2>5, <2>7, AcrossSubtracts
    <3> QED
      BY <3>1, <3>2 DEF res
  <2> QED
    BY <2>6, <2>7
<1>7. Subtracts(rs, res, start, end)
  BY <1>4, <1>5, <1>6 DEF res
<1> QED
  BY <1>7 DEF res

-----------------------------------------------------------------------------
(* The steps. *)

\* The array, its memory and the set it stands for.
Stands(rs, cap, f, set) ==
    /\ f \in BOOLEAN /\ Good(rs, f) /\ Fits(rs, cap)
    /\ set \subseteq Nat /\ \A x \in Nat : x \in set <=> Member(rs, x)

RangesInv == part = "ranges" => Stands(ranges, capacity, from0, covered)

\* A call that returns a good array and a set that agrees with it.
LEMMA ApplyStands ==
    ASSUME NEW f \in BOOLEAN, NEW res, NEW expected, NEW set, from0 = f, covered = set, Array!Apply(res, expected),
           NEW g \in BOOLEAN, Good(res.ranges, g), Fits(res.ranges, res.capacity), g <=> f /\ res # Array!Empty,
           NEW now, now = (IF res.ok THEN expected ELSE set), now \subseteq Nat, \A x \in Nat : x \in now <=> Member(res.ranges, x)
    PROVE  Stands(ranges, capacity, from0, covered)'
<1>1. ranges' = res.ranges /\ capacity' = res.capacity /\ covered' = now /\ from0' = (f /\ res # Array!Empty)
  BY DEF Array!Apply
<1>2. from0' = g
  BY <1>1
<1>3. Stands(res.ranges, res.capacity, g, now)
  BY DEF Stands
<1> QED
  BY <1>1, <1>2, <1>3

LEMMA AddStep ==
    ASSUME Stands(ranges, capacity, from0, covered), NEW start \in Nat, NEW end \in Nat, start <= end, NEW mem \in BOOLEAN,
           Array!CallAdd(start, end, mem)
    PROVE  Stands(ranges, capacity, from0, covered)'
<1> DEFINE res == Array!Add(ranges, capacity, start, end, mem)
           expected == covered \cup (start .. end - 1)
           now == IF res.ok THEN expected ELSE covered
<1>1. /\ from0 \in BOOLEAN /\ Good(ranges, from0) /\ Fits(ranges, capacity)
      /\ covered \subseteq Nat /\ \A x \in Nat : x \in covered <=> Member(ranges, x)
  BY DEF Stands
<1>2. Adds(ranges, res, from0, start, end)
  BY <1>1, AddAdds
<1>3. Array!Apply(res, expected)
  BY DEF Array!CallAdd
<1>4. expected \subseteq Nat /\ \A x \in Nat : x \in expected <=> x \in covered \/ (start <= x /\ x < end)
  BY <1>1
<1> HIDE DEF res, expected
<1>5. res.ok \in BOOLEAN /\ Good(res.ranges, from0) /\ Fits(res.ranges, res.capacity)
  BY <1>2 DEF Adds
<1>6. from0 => res # Array!Empty
  <2>1. ASSUME from0, res = Array!Empty PROVE FALSE
    <3>1. res.ranges = << >>
      BY <2>1 DEF Array!Empty, Array!Result
    <3> QED
      BY <1>5, <2>1, <3>1 DEF Good, Proper
  <2> QED
    BY <2>1
<1>7. now \subseteq Nat /\ \A x \in Nat : x \in now <=> Member(res.ranges, x)
  <2>1. CASE res.ok
    <3>1. \A x \in Nat : Member(res.ranges, x) <=> Member(ranges, x) \/ (start <= x /\ x < end)
      BY <1>2, <2>1 DEF Adds
    <3> QED
      BY <1>1, <1>4, <2>1, <3>1
  <2>2. CASE ~res.ok
    <3>1. res.ranges = ranges
      BY <1>2, <2>2 DEF Adds
    <3> QED
      BY <1>1, <2>2, <3>1
  <2> QED
    BY <2>1, <2>2
<1>8. from0 <=> from0 /\ res # Array!Empty
  BY <1>6
<1>9. now = (IF res.ok THEN expected ELSE covered)
  OBVIOUS
<1> HIDE DEF now
<1> QED
  BY <1>1, <1>3, <1>5, <1>7, <1>8, <1>9, ApplyStands

LEMMA SubtractStep ==
    ASSUME Stands(ranges, capacity, from0, covered), NEW start \in Nat, NEW end \in Nat, start <= end, NEW mem \in BOOLEAN,
           Array!CallSubtract(start, end, mem)
    PROVE  Stands(ranges, capacity, from0, covered)'
<1> DEFINE res == Array!Subtract(ranges, capacity, start, end, mem)
           expected == covered \ (start .. end - 1)
           now == IF res.ok THEN expected ELSE covered
<1>0. from0 = FALSE
  BY DEF Array!CallSubtract, Stands
<1>1. /\ Good(ranges, FALSE) /\ Fits(ranges, capacity)
      /\ covered \subseteq Nat /\ \A x \in Nat : x \in covered <=> Member(ranges, x)
  BY <1>0 DEF Stands
<1>2. Subtracts(ranges, res, start, end)
  BY <1>1, SubtractSubtracts
<1>3. Array!Apply(res, expected)
  BY DEF Array!CallSubtract
<1>4. expected \subseteq Nat /\ \A x \in Nat : x \in expected <=> x \in covered /\ ~(start <= x /\ x < end)
  BY <1>1
<1> HIDE DEF res, expected
<1>5. res.ok \in BOOLEAN /\ Good(res.ranges, FALSE) /\ Fits(res.ranges, res.capacity)
  BY <1>2 DEF Subtracts
<1>7. now \subseteq Nat /\ \A x \in Nat : x \in now <=> Member(res.ranges, x)
  <2>1. CASE res.ok
    <3>1. \A x \in Nat : Member(res.ranges, x) <=> Member(ranges, x) /\ ~(start <= x /\ x < end)
      BY <1>2, <2>1 DEF Subtracts
    <3> QED
      BY <1>1, <1>4, <2>1, <3>1
  <2>2. CASE ~res.ok
    <3>1. res.ranges = ranges
      BY <1>2, <2>2 DEF Subtracts
    <3> QED
      BY <1>1, <2>2, <3>1
  <2> QED
    BY <2>1, <2>2
<1>8. FALSE <=> FALSE /\ res # Array!Empty
  OBVIOUS
<1>9. now = (IF res.ok THEN expected ELSE covered)
  OBVIOUS
<1> HIDE DEF now
<1> QED
  BY <1>0, <1>1, <1>3, <1>5, <1>7, <1>8, <1>9, ApplyStands

\* The dropped slots hold exactly what leaves the set.
LEMMA DropStep ==
    ASSUME Stands(ranges, capacity, from0, covered), NEW from \in DOMAIN ranges, NEW to \in from + 1 .. Len(ranges) + 1, NEW mem \in BOOLEAN,
           Array!CallDrop(from, to, mem)
    PROVE  Stands(ranges, capacity, from0, covered)'
<1> DEFINE res == Array!DropByRangeIndices(ranges, capacity, from, to, mem)
           sub == SubSeq(ranges, from, to - 1)
           expected == covered \ Array!Elements(sub)
           now == IF res.ok THEN expected ELSE covered
<1>0. from0 = FALSE
  BY DEF Array!CallDrop, Stands
<1>1. /\ Good(ranges, FALSE) /\ Fits(ranges, capacity)
      /\ covered \subseteq Nat /\ \A x \in Nat : x \in covered <=> Member(ranges, x)
  BY <1>0 DEF Stands
<1>2. /\ ranges \in Seq(Slot) /\ Len(ranges) \in Nat /\ DOMAIN ranges = 1 .. Len(ranges)
      /\ \A i \in 1 .. Len(ranges) : ranges[i].start \in Nat /\ ranges[i].end \in Nat /\ ranges[i].start < ranges[i].end
      /\ \A i, j \in 1 .. Len(ranges) : i < j => ranges[i].end < ranges[j].start
  BY <1>1, StrictSlots
<1>3. from \in 1 .. Len(ranges) + 1 /\ to \in from .. Len(ranges) + 1 /\ from \in Nat /\ to \in Nat /\ from < to /\ to <= Len(ranges) + 1
      /\ 1 <= from
  BY <1>2
<1>4. LET out == Array!DropByRangeIndices(ranges, capacity, from, to, mem)
      IN  out.ok = TRUE /\ Fits(out.ranges, out.capacity) /\ Dropped(ranges, out.ranges, from, to)
  BY <1>1, <1>2, <1>3, DropRight
<1>5. res.ok = TRUE /\ Fits(res.ranges, res.capacity) /\ Dropped(ranges, res.ranges, from, to)
  BY <1>4
<1>6. Array!Apply(res, expected)
  BY DEF Array!CallDrop
<1>7. /\ sub \in Seq(Slot) /\ Len(sub) = to - from /\ DOMAIN sub = 1 .. to - from
      /\ \A i \in 1 .. to - from : sub[i] = ranges[from + i - 1]
  <2> DEFINE last == to - 1
  <2>1. from \in 1 .. Len(ranges) + 1 /\ last \in from - 1 .. Len(ranges) /\ last - from + 1 = to - from
    BY <1>2, <1>3
  <2>2. /\ SubSeq(ranges, from, last) \in Seq(Slot) /\ Len(SubSeq(ranges, from, last)) = last - from + 1
        /\ \A i \in 1 .. last - from + 1 : SubSeq(ranges, from, last)[i] = ranges[from + i - 1]
    <3> HIDE DEF last
    <3> QED
      BY <1>2, <2>1, SubSeqProperties, SMTT(30)
  <2>3. sub = SubSeq(ranges, from, last)
    OBVIOUS
  <2> HIDE DEF sub, last
  <2>4. sub \in Seq(Slot) /\ Len(sub) = to - from
    BY <2>1, <2>2, <2>3
  <2>5. DOMAIN sub = 1 .. to - from
    BY <2>4
  <2> QED
    BY <2>1, <2>2, <2>3, <2>4, <2>5
<1> HIDE DEF res, sub
<1> DEFINE new == res.ranges
<1>8. Dropped(ranges, new, from, to)
  BY <1>5
<1> HIDE DEF new
<1>9. /\ Good(new, FALSE)
      /\ \A x \in Nat : Member(new, x) <=> \E i \in DOMAIN ranges : (i < from \/ i >= to) /\ Holds(ranges[i], x)
  BY <1>1, <1>3, <1>8, DroppedGood
<1>10. ASSUME NEW x \in Nat PROVE x \in Array!Elements(sub) <=> \E i \in from .. to - 1 : Holds(ranges[i], x)
  <2>1. x \in Array!Elements(sub) <=> \E k \in 1 .. to - from : Holds(sub[k], x)
    BY <1>7, InElements DEF Member
  <2>2. ASSUME NEW k \in 1 .. to - from, Holds(sub[k], x) PROVE \E i \in from .. to - 1 : Holds(ranges[i], x)
    <3>1. from + k - 1 \in from .. to - 1 /\ sub[k] = ranges[from + k - 1]
      BY <1>3, <1>7
    <3> QED
      BY <2>2, <3>1
  <2>3. ASSUME NEW i \in from .. to - 1, Holds(ranges[i], x) PROVE \E k \in 1 .. to - from : Holds(sub[k], x)
    <3> DEFINE k == i - from + 1
    <3>1. k \in 1 .. to - from /\ from + k - 1 = i
      BY <1>3
    <3>2. sub[k] = ranges[from + k - 1]
      <4> HIDE DEF k
      <4> QED
        BY <1>7, <3>1
    <3>3. sub[k] = ranges[i]
      BY <3>1, <3>2
    <3> QED
      BY <2>3, <3>1, <3>3
  <2> QED
    BY <2>1, <2>2, <2>3
<1>11. ASSUME NEW x \in Nat, NEW i \in DOMAIN ranges, NEW j \in DOMAIN ranges, Holds(ranges[i], x), Holds(ranges[j], x) PROVE i = j
  <2>1. /\ i \in 1 .. Len(ranges) /\ j \in 1 .. Len(ranges) /\ ranges[i].start <= x /\ x < ranges[i].end /\ ranges[j].start <= x /\ x < ranges[j].end
        /\ ranges[i].start \in Nat /\ ranges[i].end \in Nat /\ ranges[j].start \in Nat /\ ranges[j].end \in Nat
    BY <1>2, <1>11 DEF Holds
  <2>2. ~(i < j) /\ ~(j < i)
    <3>1. i < j => ranges[i].end < ranges[j].start
      BY <1>2, <2>1
    <3>2. j < i => ranges[j].end < ranges[i].start
      BY <1>2, <2>1
    <3> QED
      BY <2>1, <3>1, <3>2
  <2> QED
    BY <2>1, <2>2
<1>12. ASSUME NEW x \in Nat PROVE x \in expected <=> Member(new, x)
  <2>1. ASSUME NEW i \in DOMAIN ranges PROVE i \in from .. to - 1 <=> ~(i < from \/ i >= to)
    BY <1>2, <1>3
  <2>2. ASSUME NEW i \in from .. to - 1 PROVE i \in DOMAIN ranges
    BY <1>2, <1>3
  <2>3. x \in expected <=> x \in covered /\ x \notin Array!Elements(sub)
    OBVIOUS
  <2>4. x \in covered <=> \E i \in DOMAIN ranges : Holds(ranges[i], x)
    BY <1>1 DEF Member
  <2> HIDE DEF expected
  <2>5. ASSUME Member(new, x) PROVE x \in covered /\ x \notin Array!Elements(sub)
    <3>1. PICK i \in DOMAIN ranges : (i < from \/ i >= to) /\ Holds(ranges[i], x)
      BY <1>9, <2>5
    <3>2. ASSUME NEW j \in from .. to - 1, Holds(ranges[j], x) PROVE FALSE
      BY <1>11, <2>1, <2>2, <3>1, <3>2
    <3> QED
      BY <1>10, <2>4, <3>1, <3>2
  <2>6. ASSUME x \in covered, x \notin Array!Elements(sub) PROVE Member(new, x)
    BY <1>9, <1>10, <2>1, <2>4, <2>6
  <2> QED
    BY <2>3, <2>5, <2>6
<1>13. now = expected /\ expected \subseteq Nat
  BY <1>1, <1>5
<1> HIDE DEF expected
<1>14. now \subseteq Nat /\ \A x \in Nat : x \in now <=> Member(res.ranges, x)
  BY <1>12, <1>13 DEF new
<1>15. now = (IF res.ok THEN expected ELSE covered)
  OBVIOUS
<1>16. Good(res.ranges, FALSE) /\ Fits(res.ranges, res.capacity) /\ (FALSE <=> FALSE /\ res # Array!Empty)
  BY <1>5, <1>9 DEF new
<1> HIDE DEF now
<1> QED
  BY <1>0, <1>6, <1>14, <1>15, <1>16, ApplyStands

LEMMA EmptyStands == Stands(<< >>, 1, FALSE, {})
<1>1. Good(<< >>, FALSE) /\ Fits(<< >>, 1)
  BY DEF Good, Ordered, Proper, Fits
<1>2. \A x \in Nat : ~Member(<< >>, x)
  BY DEF Member
<1> QED
  BY <1>1, <1>2 DEF Stands

LEMMA OriginStands == Stands(<<[start |-> 0, end |-> 0]>>, 1, TRUE, {})
<1> DEFINE r == [start |-> 0, end |-> 0]
           rs == <<r>>
<1>1. r \in Slot /\ r.start = 0 /\ r.end = 0
  BY DEF Slot
<1> HIDE DEF r
<1>2. rs \in Seq(Slot) /\ Len(rs) = 1 /\ DOMAIN rs = {1} /\ rs[1] = r /\ rs # << >>
  BY <1>1
<1> HIDE DEF rs
<1>3. Good(rs, TRUE) /\ Fits(rs, 1)
  BY <1>1, <1>2 DEF Good, Ordered, Proper, Fits
<1>4. \A x \in Nat : ~Member(rs, x)
  BY <1>1, <1>2 DEF Member, Holds
<1>5. Stands(rs, 1, TRUE, {})
  BY <1>3, <1>4 DEF Stands
<1> QED
  BY <1>5 DEF rs, r

LEMMA ClearStep ==
    ASSUME Stands(ranges, capacity, from0, covered), Array!Clear
    PROVE  Stands(ranges, capacity, from0, covered)'
<1>1. ranges' = << >> /\ capacity' = 1 /\ from0' = FALSE /\ covered' = {}
  BY DEF Array!Clear, Array!Apply, Array!Empty, Array!Result
<1> QED
  BY <1>1, EmptyStands

-----------------------------------------------------------------------------
(* The theorems. *)

LEMMA RangesInit == TransportInit => RangesInv
<1> SUFFICES ASSUME TransportInit, part = "ranges" PROVE Stands(ranges, capacity, from0, covered)
  BY DEF RangesInv
<1>1. Array!Init
  BY DEF TransportInit
<1>2. from0 \in BOOLEAN /\ covered = {}
  BY <1>1 DEF Array!Init
<1>3. CASE from0 = TRUE
  <2>1. ranges = <<[start |-> 0, end |-> 0]>> /\ capacity = 1
    BY <1>1, <1>3 DEF Array!Init, Array!Origin, Array!Result
  <2> QED
    BY <1>2, <1>3, <2>1, OriginStands
<1>4. CASE from0 = FALSE
  <2>1. ranges = << >> /\ capacity = 1
    BY <1>1, <1>4 DEF Array!Init, Array!Empty, Array!Result
  <2> QED
    BY <1>2, <1>4, <2>1, EmptyStands
<1> QED
  BY <1>2, <1>3, <1>4

LEMMA RangesStep == RangesInv /\ [TransportNext]_<<part, vars, arrayVars>> => RangesInv'
<1> SUFFICES ASSUME RangesInv, [TransportNext]_<<part, vars, arrayVars>>, part' = "ranges" PROVE Stands(ranges, capacity, from0, covered)'
  BY DEF RangesInv
<1>1. part' = part
  BY DEF TransportNext
<1>2. Stands(ranges, capacity, from0, covered)
  BY <1>1 DEF RangesInv
<1>3. CASE UNCHANGED arrayVars
  BY <1>2, <1>3 DEF arrayVars, Stands
<1>4. CASE Array!Next
  <2>1. ASSUME NEW start \in 0 .. MaxNum, NEW mem \in BOOLEAN, NEW end \in start .. MaxNum PROVE start \in Nat /\ end \in Nat /\ start <= end
    BY TransportAssumption
  <2>2. ASSUME NEW start \in 0 .. MaxNum, NEW mem \in BOOLEAN, NEW end \in start .. MaxNum, Array!CallAdd(start, end, mem)
        PROVE  Stands(ranges, capacity, from0, covered)'
    BY <1>2, <2>1, <2>2, AddStep
  <2>3. ASSUME NEW start \in 0 .. MaxNum, NEW mem \in BOOLEAN, NEW end \in start .. MaxNum, Array!CallSubtract(start, end, mem)
        PROVE  Stands(ranges, capacity, from0, covered)'
    BY <1>2, <2>1, <2>3, SubtractStep
  <2>4. ASSUME NEW from \in DOMAIN ranges, NEW mem \in BOOLEAN, NEW to \in from + 1 .. Len(ranges) + 1, Array!CallDrop(from, to, mem)
        PROVE  Stands(ranges, capacity, from0, covered)'
    BY <1>2, <2>4, DropStep
  <2>5. ASSUME Array!Clear PROVE Stands(ranges, capacity, from0, covered)'
    BY <1>2, <2>5, ClearStep
  <2> QED
    BY <1>4, <2>2, <2>3, <2>4, <2>5 DEF Array!Next
<1>5. Array!Next \/ UNCHANGED arrayVars
  <2>1. CASE TransportNext
    BY <1>1, <2>1 DEF TransportNext
  <2>2. CASE UNCHANGED <<part, vars, arrayVars>>
    BY <2>2
  <2> QED
    BY <2>1, <2>2
<1> QED
  BY <1>3, <1>4, <1>5

\* The inductive invariant of the arrays of ranges: any two ranges are in
\* order, none is empty, the memory suffices and the reference set holds
\* exactly the numbers of the slots (ranges.c).
THEOREM RangesInvariant == TransportSpec => []RangesInv
<1>1. TransportInit => RangesInv
  BY RangesInit
<1>2. RangesInv /\ [TransportNext]_<<part, vars, arrayVars>> => RangesInv'
  BY RangesStep
<1> QED
  BY <1>1, <1>2, PTL DEF TransportSpec

\* What next_missing finds.
LEMMA NextMissingRight ==
    ASSUME Stands(ranges, capacity, from0, covered), ~from0, NEW lower \in Nat
    PROVE  LET first == IF ranges = << >> THEN lower
                        ELSE IF ranges[1].start > lower THEN ranges[1].start ELSE lower
               n     == Array!NextMissing(ranges, lower)
           IN  n \notin covered /\ first .. n - 1 \subseteq covered /\ n >= lower
<1> DEFINE above == {i \in DOMAIN ranges : ranges[i].end >= lower}
           low == CHOOSE i \in above : \A j \in above : i <= j
           in_gap == low # 1 /\ ranges[low].start > lower
           n == Array!NextMissing(ranges, lower)
           first == IF ranges = << >> THEN lower
                    ELSE IF ranges[1].start > lower THEN ranges[1].start ELSE lower
           Goal == n \notin covered /\ first .. n - 1 \subseteq covered /\ n >= lower
<1>0. Good(ranges, FALSE) /\ covered \subseteq Nat /\ \A x \in Nat : x \in covered <=> \E i \in DOMAIN ranges : Holds(ranges[i], x)
  BY DEF Stands, Member
<1>1. /\ ranges \in Seq(Slot) /\ Len(ranges) \in Nat /\ DOMAIN ranges = 1 .. Len(ranges)
      /\ \A i \in 1 .. Len(ranges) : ranges[i].start \in Nat /\ ranges[i].end \in Nat /\ ranges[i].start < ranges[i].end
      /\ \A i, j \in 1 .. Len(ranges) : i < j => ranges[i].end < ranges[j].start
  BY <1>0, StrictSlots
<1>2. n = IF above = {} \/ in_gap THEN lower ELSE ranges[low].end
  BY DEF Array!NextMissing
<1>3. \A i \in 1 .. Len(ranges) : i \in above <=> ranges[i].end >= lower
  BY <1>1
<1>4. above \subseteq 1 .. Len(ranges) /\ above \subseteq Nat
  BY <1>1
<1> HIDE DEF above, n
<1>5. above # {} => low \in above /\ \A j \in above : low <= j
  BY <1>4, FirstIs
<1> HIDE DEF low
<1>6. ranges = << >> \/ 1 \in 1 .. Len(ranges)
  BY <1>1
\* A walk that ends below the first slot or in a gap finds lower itself.
<1>7. ASSUME n = lower, \A i \in 1 .. Len(ranges) : ~Holds(ranges[i], lower), ranges = << >> \/ ranges[1].start <= lower PROVE Goal
  <2>1. n \notin covered
    BY <1>0, <1>1, <1>7
  <2>2. first = lower
    <3>1. CASE ranges = << >>
      BY <3>1
    <3>2. CASE ranges # << >>
      <4>1. ~(ranges[1].start > lower)
        BY <1>1, <1>6, <1>7, <3>2
      <4> QED
        BY <3>2, <4>1
    <3> QED
      BY <3>1, <3>2
  <2>3. lower .. lower - 1 = {}
    OBVIOUS
  <2> QED
    BY <1>7, <2>1, <2>2, <2>3
<1>8. ASSUME above = {} PROVE Goal
  <2>1. ASSUME NEW i \in 1 .. Len(ranges) PROVE ranges[i].end < lower /\ ~Holds(ranges[i], lower)
    BY <1>1, <1>3, <1>8 DEF Holds
  <2>2. ranges = << >> \/ ranges[1].start <= lower
    BY <1>1, <1>6, <2>1
  <2>3. n = lower
    BY <1>2, <1>8
  <2> QED
    BY <1>7, <2>1, <2>2, <2>3
<1>9. ASSUME above # {} PROVE Goal
  <2>1. low \in 1 .. Len(ranges) /\ ranges[low].end >= lower /\ \A j \in above : low <= j
    BY <1>3, <1>4, <1>5, <1>9
  <2>2. ASSUME NEW i \in 1 .. Len(ranges), i < low PROVE ranges[i].end < lower
    <3>1. i \notin above
      BY <2>1, <2>2
    <3> QED
      BY <1>1, <1>3, <3>1
  <2>3. /\ ranges[low].start \in Nat /\ ranges[low].end \in Nat /\ ranges[low].start < ranges[low].end /\ low \in Nat /\ low >= 1
        /\ ranges # << >> /\ 1 \in 1 .. Len(ranges)
    BY <1>1, <2>1
  <2>4. ASSUME NEW i \in 1 .. Len(ranges), low < i PROVE ranges[low].end < ranges[i].start
    BY <1>1, <2>1, <2>4
  <2>5. low # 1 => ranges[1].end < lower /\ ranges[1].start < lower
    BY <1>1, <2>2, <2>3
  <2>6. ASSUME in_gap PROVE Goal
    <3>1. n = lower
      BY <1>2, <2>6
    <3>2. ASSUME NEW i \in 1 .. Len(ranges) PROVE ~Holds(ranges[i], lower)
      <4>1. ranges[i].start \in Nat /\ ranges[i].end \in Nat
        BY <1>1
      <4>2. CASE i < low
        BY <2>2, <4>1, <4>2 DEF Holds
      <4>3. CASE i = low
        BY <2>6, <4>1, <4>3 DEF Holds
      <4>4. CASE low < i
        BY <2>1, <2>3, <2>4, <4>1, <4>4 DEF Holds
      <4> QED
        BY <2>3, <4>2, <4>3, <4>4
    <3>3. ranges[1].start <= lower
      BY <1>1, <2>3, <2>5, <2>6
    <3> QED
      BY <1>7, <3>1, <3>2, <3>3
  <2>7. ASSUME ~in_gap PROVE Goal
    <3>1. n = ranges[low].end /\ n \in Nat /\ n >= lower
      BY <1>2, <1>9, <2>1, <2>3, <2>7
    <3>2. n \notin covered
      <4>1. ASSUME NEW i \in 1 .. Len(ranges) PROVE ~Holds(ranges[i], n)
        <5>1. ranges[i].start \in Nat /\ ranges[i].end \in Nat
          BY <1>1
        <5>2. CASE i < low
          BY <2>1, <2>2, <2>3, <3>1, <5>1, <5>2 DEF Holds
        <5>3. CASE i = low
          BY <3>1, <5>1, <5>3 DEF Holds
        <5>4. CASE low < i
          BY <2>3, <2>4, <3>1, <5>1, <5>4 DEF Holds
        <5> QED
          BY <2>3, <5>2, <5>3, <5>4
      <4> QED
        BY <1>0, <1>1, <3>1, <4>1
    <3>3. first \in Nat /\ ranges[low].start <= first
      <4>1. CASE low = 1
        BY <2>3, <4>1
      <4>2. CASE low # 1
        <5>1. ~(ranges[1].start > lower)
          BY <1>1, <2>3, <2>5, <4>2
        <5>2. first = lower /\ ranges[low].start <= lower
          BY <2>3, <2>7, <4>2, <5>1
        <5> QED
          BY <5>2
      <4> QED
        BY <4>1, <4>2
    <3> HIDE DEF first
    <3>4. ASSUME NEW x \in first .. n - 1 PROVE x \in covered
      <4>1. x \in Nat /\ Holds(ranges[low], x)
        BY <2>3, <3>1, <3>3 DEF Holds
      <4> QED
        BY <1>0, <1>1, <2>1, <4>1
    <3> QED
      BY <3>1, <3>2, <3>4
  <2> QED
    BY <2>6, <2>7
<1>10. Goal
  BY <1>8, <1>9
<1> QED
  BY <1>10 DEF n

\* However numbers are added to and subtracted from an array of ranges, and
\* whichever allocation fails on the way, the array is the set it stands
\* for, in normal form and within its memory, and next_missing returns the
\* least number missing (ranges.c).
THEOREM RangesAreSets == TransportSpec => []RangesStandForSets
<1>1. RangesInv => RangesStandForSets
  <2> SUFFICES ASSUME RangesInv, part = "ranges"
               PROVE  Array!FitsCapacity /\ Array!NormalForm /\ Array!StandsForSet /\ Array!NextMissingIsLeast
    BY DEF RangesStandForSets
  <2>1. Stands(ranges, capacity, from0, covered)
    BY DEF RangesInv
  <2>2. /\ from0 \in BOOLEAN /\ Good(ranges, from0) /\ Fits(ranges, capacity)
        /\ covered \subseteq Nat /\ \A x \in Nat : x \in covered <=> Member(ranges, x)
    BY <2>1 DEF Stands
  <2>3. ranges \in Seq(Slot) /\ Len(ranges) \in Nat /\ DOMAIN ranges = 1 .. Len(ranges)
    BY <2>2 DEF Good
  <2>4. Array!FitsCapacity
    BY <2>2 DEF Fits, Array!FitsCapacity
  <2>5. Array!NormalForm
    <3>1. from0 => ranges[1].start = 0
      BY <2>2 DEF Good, Proper
    <3>2. \A i \in DOMAIN ranges : ranges[i].start < ranges[i].end \/ (from0 /\ i = 1 /\ ranges[i].end = 0)
      BY <2>2 DEF Good, Proper
    <3>3. ASSUME NEW i \in 1 .. Len(ranges) - 1 PROVE ranges[i].end < ranges[i + 1].start
      <4> DEFINE j == i + 1
      <4>1. i \in DOMAIN ranges /\ j \in DOMAIN ranges /\ i < j
        BY <2>3
      <4>2. ranges[i].end < ranges[j].start
        <5> HIDE DEF j
        <5> QED
          BY <2>2, <4>1 DEF Good, Ordered
      <4> QED
        BY <4>2
    <3> QED
      BY <3>1, <3>2, <3>3 DEF Array!NormalForm
  <2>6. Array!StandsForSet
    <3>1. Array!Elements(ranges) \subseteq Nat /\ \A x \in Nat : x \in Array!Elements(ranges) <=> Member(ranges, x)
      BY <2>3, InElements
    <3> QED
      BY <2>2, <3>1 DEF Array!StandsForSet
  <2>7. Array!NextMissingIsLeast
    <3>1. ASSUME ~from0, NEW lower \in 0 .. MaxNum
          PROVE  LET first == IF ranges = << >> THEN lower
                              ELSE IF ranges[1].start > lower THEN ranges[1].start ELSE lower
                     n     == Array!NextMissing(ranges, lower)
                 IN  n \notin covered /\ first .. n - 1 \subseteq covered /\ n >= lower
      <4>1. lower \in Nat
        BY TransportAssumption
      <4> QED
        BY <2>1, <3>1, <4>1, NextMissingRight
    <3> QED
      BY <3>1 DEF Array!NextMissingIsLeast
  <2> QED
    BY <2>4, <2>5, <2>6, <2>7
<1> QED
  BY <1>1, RangesInvariant, PTL
=============================================================================
