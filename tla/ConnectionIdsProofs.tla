-------------------------- MODULE ConnectionIdsProofs --------------------------
(***************************************************************************)
(* Theorems about the connection IDs of one direction, for any size of the *)
(* two sets and of the queue of retirements, any number of paths and any   *)
(* number of packets: what the operations of local_cid.c do to the         *)
(* issuer's set, then the user's set (remote_cid.c), whose operations are  *)
(* summarised by the relation Evolves, then the invariant that ties the    *)
(* two sets, the paths and the packets together.                           *)
(*                                                                         *)
(* The operations of local_cid.c that work frame by frame are recursive    *)
(* functions: the first lemmas are the induction and the existence of such *)
(* functions, in a form without operator parameters.                       *)
(***************************************************************************)
EXTENDS ConnectionIds, TLAPS, WellFoundedInduction, FiniteSetTheorems

-------------------------------------------------------------------------------
(* Induction and recursion. *)

(* A set of natural numbers that is not empty has a least element. *)
LEMMA LeastElement ==
    ASSUME NEW T, T \subseteq Nat, T # {}
    PROVE  \E x \in T : \A y \in T : x <= y
<1>1. PICK x \in T : \A y \in T : ~ (<<y, x>> \in OpToRel(<, Nat))
  BY NatLessThanWellFounded, WFMin
<1>2. ASSUME NEW y \in T PROVE x <= y
  <2>1. ~ (<<y, x>> \in OpToRel(<, Nat)) /\ x \in Nat /\ y \in Nat
    BY <1>1
  <2> QED
    BY <2>1 DEF OpToRel
<1> QED
  BY <1>2

(* A set that contains the start of an interval, and the successor of each *)
(* of its numbers, contains the interval.                                   *)
LEMMA SetInduction ==
    ASSUME NEW T, NEW n \in Nat, 0 \in T, \A k \in 0 .. n - 1 : k \in T => k + 1 \in T
    PROVE  \A k \in 0 .. n : k \in T
<1> DEFINE M == 0 .. n \ T
<1>1. SUFFICES ASSUME M # {} PROVE FALSE
  OBVIOUS
<1>2. M \subseteq Nat
  OBVIOUS
<1>3. PICK x \in M : \A y \in M : x <= y
  <2> HIDE DEF M
  <2> QED
    BY <1>1, <1>2, LeastElement
<1>4. x # 0 /\ x - 1 \in 0 .. n - 1 /\ x - 1 \notin M
  BY <1>3
<1> QED
  BY <1>4

LEMMA SeqElement ==
    ASSUME NEW S, NEW s \in Seq(S), NEW k \in 1 .. Len(s)
    PROVE  s[k] \in S
OBVIOUS

(* A step F that stays in S can be repeated n times from any start in S. *)
StaysIn(F, S, n) == \A s \in S : \A k \in 1 .. n : F[<<s, k>>] \in S

Repeats(f, F, b, n) == f[0] = b /\ \A k \in 1 .. n : f[k] = F[<<f[k - 1], k>>]

LEMMA Recursion ==
    ASSUME NEW S, NEW n \in Nat, NEW b \in S, NEW F, StaysIn(F, S, n)
    PROVE  \E f \in [0 .. n -> S] : Repeats(f, F, b, n)
<1>0. \A s \in S : \A k \in 1 .. n : F[<<s, k>>] \in S
  BY DEF StaysIn
<1> DEFINE Good(m, f) == f[0] = b /\ \A k \in 1 .. m : f[k] = F[<<f[k - 1], k>>]
           T == {m \in 0 .. n : \E f \in [0 .. m -> S] : Good(m, f)}
<1>1. 0 \in T
  <2> DEFINE f == [k \in 0 .. 0 |-> b]
  <2>1. f \in [0 .. 0 -> S] /\ Good(0, f)
    OBVIOUS
  <2> HIDE DEF f, Good
  <2> QED
    BY <2>1
<1>2. ASSUME NEW m \in 0 .. n - 1, m \in T PROVE m + 1 \in T
  <2>1. PICK f \in [0 .. m -> S] : Good(m, f)
    BY <1>2
  <2> DEFINE g == [k \in 0 .. m + 1 |-> IF k = m + 1 THEN F[<<f[m], m + 1>>] ELSE f[k]]
  <2>2. g \in [0 .. m + 1 -> S]
    <3>1. F[<<f[m], m + 1>>] \in S
      BY <2>1, <1>0
    <3> QED
      BY <2>1, <3>1
  <2>3. g[0] = b
    BY <2>1
  <2>4. ASSUME NEW k \in 1 .. m + 1 PROVE g[k] = F[<<g[k - 1], k>>]
    <3>1. CASE k = m + 1
      <4>1. g[m + 1] = F[<<f[m], m + 1>>] /\ g[m] = f[m] /\ k - 1 = m
        BY <2>1, <3>1
      <4> HIDE DEF g
      <4> QED
        BY <3>1, <4>1
    <3>2. CASE k # m + 1
      BY <2>1, <3>2
    <3> QED
      BY <3>1, <3>2
  <2>5. Good(m + 1, g)
    <3> HIDE DEF g
    <3> QED
      BY <2>3, <2>4
  <2> HIDE DEF g, Good
  <2> QED
    BY <2>2, <2>5
<1>3. n \in T
  <2> HIDE DEF T
  <2>1. \A k \in 0 .. n - 1 : k \in T => k + 1 \in T
    BY <1>2
  <2>2. \A k \in 0 .. n : k \in T
    BY <1>1, <2>1, SetInduction
  <2> QED
    BY <2>2
<1>4. PICK f \in [0 .. n -> S] : Good(n, f)
  BY <1>3
<1>5. Repeats(f, F, b, n)
  BY <1>4 DEF Repeats
<1> QED
  BY <1>5

-------------------------------------------------------------------------------
(* What is kept true of a set. *)

LocalSet ==
    [cids : [1 .. LocalSize -> LocalEntry], next : 1 .. MaxPathId, fifo : Seq(0 .. MaxPathId - 1)]

(* No two entries have the same number. *)
Distinct(c) ==
    \A i, j \in 1 .. LocalSize : c[i].seq = c[j].seq /\ c[i].seq # NoSeq => i = j

(* An entry has a number that has been used, unless it is idle. *)
Numbered(l, i) ==
    l.cids[i].seq < l.next /\ (l.cids[i].state = "idle" <=> l.cids[i].seq = NoSeq)

LocalInv(l) ==
    /\ l \in LocalSet
    /\ Distinct(l.cids)
    /\ \A i \in 1 .. LocalSize : Numbered(l, i)
    /\ PendingIsFifo(l)

(* The numbers that have been sent and not been acknowledged or lost. *)
Inflight(l) == {l.cids[i].seq : i \in {j \in 1 .. LocalSize : l.cids[j].state = "inflight"}}

(* The entries d are those of c in another order. *)
Rearranged(c, d) ==
    /\ d \in [1 .. LocalSize -> LocalEntry]
    /\ Distinct(d)
    /\ \A i \in 1 .. LocalSize : \E j \in 1 .. LocalSize : d[j] = c[i]
    /\ \A j \in 1 .. LocalSize : \E i \in 1 .. LocalSize : d[j] = c[i]

(* Rearranging is transitive. *)
LEMMA RearrangedTwice ==
    ASSUME NEW c, NEW d, NEW e, Rearranged(c, d), Rearranged(d, e)
    PROVE  Rearranged(c, e)
<1>1. ASSUME NEW i \in 1 .. LocalSize PROVE \E j \in 1 .. LocalSize : e[j] = c[i]
  <2>1. PICK k \in 1 .. LocalSize : d[k] = c[i]
    BY DEF Rearranged
  <2>2. PICK j \in 1 .. LocalSize : e[j] = d[k]
    BY DEF Rearranged
  <2> QED
    BY <2>1, <2>2
<1>2. ASSUME NEW j \in 1 .. LocalSize PROVE \E i \in 1 .. LocalSize : e[j] = c[i]
  <2>1. PICK k \in 1 .. LocalSize : e[j] = d[k]
    BY DEF Rearranged
  <2>2. PICK i \in 1 .. LocalSize : d[k] = c[i]
    BY DEF Rearranged
  <2> QED
    BY <2>1, <2>2
<1> QED
  BY <1>1, <1>2 DEF Rearranged

(* Exchanging two entries rearranges the set. *)
LEMMA SwapRearranges ==
    ASSUME NEW c \in [1 .. LocalSize -> LocalEntry], Distinct(c),
           NEW i \in 1 .. LocalSize, NEW j \in 1 .. LocalSize
    PROVE  /\ Rearranged(c, Swap(c, i, j))
           /\ Swap(c, i, j)[i] = c[j] /\ Swap(c, i, j)[j] = c[i]
           /\ \A k \in 1 .. LocalSize : k # i /\ k # j => Swap(c, i, j)[k] = c[k]
<1> DEFINE d == Swap(c, i, j)
<1>1. /\ d \in [1 .. LocalSize -> LocalEntry]
      /\ d[i] = c[j] /\ d[j] = c[i]
      /\ \A k \in 1 .. LocalSize : k # i /\ k # j => d[k] = c[k]
  BY DEF Swap
<1> HIDE DEF d
<1>2. \A k \in 1 .. LocalSize : \E m \in 1 .. LocalSize : d[m] = c[k]
  BY <1>1
<1>3. \A k \in 1 .. LocalSize : \E m \in 1 .. LocalSize : d[k] = c[m]
  BY <1>1
<1>4. Distinct(d)
  BY <1>1 DEF Distinct
<1> QED
  BY <1>1, <1>2, <1>3, <1>4 DEF Rearranged, d

(* A set whose entries are those of l in another order, with the pending   *)
(* ones where its queue says, is as good as l.                              *)
LEMMA RearrangedInv ==
    ASSUME NEW l, NEW m, l \in LocalSet, m \in LocalSet, m.next = l.next, Rearranged(l.cids, m.cids),
           \A i \in 1 .. LocalSize : Numbered(l, i),
           PendingIsFifo(m)
    PROVE  LocalInv(m) /\ Issued(m) = Issued(l) /\ Inflight(m) = Inflight(l)
<1>1. ASSUME NEW j \in 1 .. LocalSize PROVE Numbered(m, j)
  <2>1. PICK i \in 1 .. LocalSize : m.cids[j] = l.cids[i]
    BY DEF Rearranged
  <2> QED
    BY <2>1 DEF Numbered
<1>2. DOMAIN l.cids = 1 .. LocalSize /\ DOMAIN m.cids = 1 .. LocalSize
  BY DEF LocalSet
<1>3. Issued(m) \subseteq Issued(l) /\ Inflight(m) \subseteq Inflight(l)
  <2>1. \A j \in 1 .. LocalSize : \E i \in 1 .. LocalSize : m.cids[j] = l.cids[i]
    BY DEF Rearranged
  <2> QED
    BY <1>2, <2>1 DEF Issued, Inflight
<1>4. Issued(l) \subseteq Issued(m) /\ Inflight(l) \subseteq Inflight(m)
  <2>1. \A i \in 1 .. LocalSize : \E j \in 1 .. LocalSize : m.cids[j] = l.cids[i]
    BY DEF Rearranged
  <2> QED
    BY <1>2, <2>1 DEF Issued, Inflight
<1> QED
  BY <1>1, <1>3, <1>4 DEF LocalInv, Rearranged

(* An entry of which only the state is set. *)
LEMMA EntrySet ==
    ASSUME NEW c \in [1 .. LocalSize -> LocalEntry], NEW i \in 1 .. LocalSize,
           NEW e \in LocalEntry, NEW d, d = [c EXCEPT ![i] = e]
    PROVE  /\ d \in [1 .. LocalSize -> LocalEntry] /\ d[i] = e
           /\ \A j \in 1 .. LocalSize : j # i => d[j] = c[j]
OBVIOUS

(* The numbers, once the state of entry i has been set. *)
LEMMA StateSet ==
    ASSUME NEW l, l \in LocalSet, Distinct(l.cids), NEW i \in 1 .. LocalSize, l.cids[i].seq # NoSeq,
           NEW m, m \in LocalSet, m.cids[i].seq = l.cids[i].seq,
           m.cids[i].state # "idle" /\ m.cids[i].state # "inflight",
           \A j \in 1 .. LocalSize : j # i => m.cids[j] = l.cids[j]
    PROVE  /\ Distinct(m.cids)
           /\ Issued(m) = Issued(l) \cup {l.cids[i].seq}
           /\ Inflight(m) = Inflight(l) \ {l.cids[i].seq}
<1>1. Distinct(m.cids)
  BY DEF Distinct
<1>2. DOMAIN l.cids = 1 .. LocalSize /\ DOMAIN m.cids = 1 .. LocalSize
  BY DEF LocalSet
<1>3. Issued(m) = Issued(l) \cup {l.cids[i].seq}
  <2>1. ASSUME NEW q PROVE q \in Issued(m) <=> \E j \in 1 .. LocalSize : m.cids[j].state # "idle" /\ m.cids[j].seq = q
    BY <1>2 DEF Issued
  <2>2. ASSUME NEW q PROVE q \in Issued(l) <=> \E j \in 1 .. LocalSize : l.cids[j].state # "idle" /\ l.cids[j].seq = q
    BY <1>2 DEF Issued
  <2> QED
    BY <2>1, <2>2
<1>4. Inflight(m) = Inflight(l) \ {l.cids[i].seq}
  <2>1. ASSUME NEW q PROVE q \in Inflight(m) <=> \E j \in 1 .. LocalSize : m.cids[j].state = "inflight" /\ m.cids[j].seq = q
    BY DEF Inflight
  <2>2. ASSUME NEW q PROVE q \in Inflight(l) <=> \E j \in 1 .. LocalSize : l.cids[j].state = "inflight" /\ l.cids[j].seq = q
    BY DEF Inflight
  <2> QED
    BY <2>1, <2>2 DEF Distinct
<1> QED
  BY <1>1, <1>3, <1>4

(* do_mark_pending: what is pending comes first, in the order in which it   *)
(* became pending.  Entry i has a number, and may still be marked idle.     *)
LEMMA MarkPendingProp ==
    ASSUME NEW l, l \in LocalSet, Distinct(l.cids), NEW i \in 1 .. LocalSize, l.cids[i].seq # NoSeq,
           \A j \in 1 .. LocalSize : l.cids[j].seq < l.next /\ (j # i => Numbered(l, j)),
           PendingIsFifo(l),
           NEW m, m = MarkPending(l, i)
    PROVE  /\ LocalInv(m) /\ m.next = l.next
           /\ Issued(m) = Issued(l) \cup {l.cids[i].seq}
           /\ Inflight(m) = Inflight(l) \ {l.cids[i].seq}
<1> DEFINE e == [l.cids[i] EXCEPT !.state = "pending"]
           c == [l.cids EXCEPT ![i].state = "pending"]
           s == [cids |-> c, next |-> l.next, fifo |-> l.fifo]
           q == l.cids[i].seq
           p == Len(l.fifo)
           rest == (1 .. i - 1) \ PendingAt(c)
<1>1. /\ s \in LocalSet /\ s.next = l.next /\ s.fifo = l.fifo /\ s.cids = c /\ Distinct(c)
      /\ Issued(s) = Issued(l) \cup {q} /\ Inflight(s) = Inflight(l) \ {q}
      /\ c[i].state = "pending" /\ c[i].seq = q
      /\ \A j \in 1 .. LocalSize : j # i => c[j] = l.cids[j]
  <2>1. e \in LocalEntry /\ e.state = "pending" /\ e.seq = q
    <3>1. l.cids[i] \in LocalEntry
      BY DEF LocalSet
    <3> QED
      BY <3>1 DEF LocalEntry
  <2>2. c = [l.cids EXCEPT ![i] = e] /\ l.cids \in [1 .. LocalSize -> LocalEntry]
    BY DEF LocalSet
  <2> HIDE DEF e, c
  <2>3. /\ c \in [1 .. LocalSize -> LocalEntry] /\ c[i] = e
        /\ \A j \in 1 .. LocalSize : j # i => c[j] = l.cids[j]
    BY <2>1, <2>2, EntrySet
  <2>4. s \in LocalSet /\ s.next = l.next /\ s.fifo = l.fifo /\ s.cids = c
    BY <2>3 DEF LocalSet
  <2> HIDE DEF s
  <2>5. Distinct(s.cids) /\ Issued(s) = Issued(l) \cup {q} /\ Inflight(s) = Inflight(l) \ {q}
    <3>1. s.cids[i].seq = l.cids[i].seq /\ s.cids[i].state # "idle" /\ s.cids[i].state # "inflight"
      BY <2>1, <2>3, <2>4
    <3>2. \A j \in 1 .. LocalSize : j # i => s.cids[j] = l.cids[j]
      BY <2>3, <2>4
    <3>3. s \in LocalSet
      BY <2>4
    <3> QED
      BY <3>1, <3>2, <3>3, StateSet
  <2> QED
    BY <2>1, <2>3, <2>4, <2>5
<1>2. /\ c \in [1 .. LocalSize -> LocalEntry] /\ DOMAIN l.cids = 1 .. LocalSize /\ p \in Nat
      /\ q \in 0 .. MaxPathId - 1 /\ l.fifo \in Seq(0 .. MaxPathId - 1) /\ LocalSize \in Nat
  <2>1. c \in [1 .. LocalSize -> LocalEntry] /\ DOMAIN l.cids = 1 .. LocalSize
    BY <1>1 DEF LocalSet
  <2>2. p \in Nat /\ l.fifo \in Seq(0 .. MaxPathId - 1) /\ LocalSize \in Nat
    BY LocalCidsAssumption DEF LocalSet
  <2>3. q \in 0 .. MaxPathId - 1
    <3>1. l.cids[i] \in LocalEntry
      BY DEF LocalSet
    <3> QED
      BY <3>1, LocalCidsAssumption DEF LocalEntry, NoSeq
  <2> QED
    BY <2>1, <2>2, <2>3
<1>a. m = [l EXCEPT !.cids = IF rest = {} THEN c
                             ELSE Swap(c, i, CHOOSE j \in rest : \A k \in rest : j <= k),
                    !.fifo = IF Contains(@, c[i].seq) THEN @ ELSE Append(@, c[i].seq)]
  BY Zenon DEF MarkPending
<1> HIDE DEF e, c, s
<1>3. m = [l EXCEPT !.cids = IF rest = {} THEN c
                             ELSE Swap(c, i, CHOOSE j \in rest : \A k \in rest : j <= k),
                    !.fifo = IF Contains(@, q) THEN @ ELSE Append(@, q)]
  BY <1>1, <1>a
<1> HIDE DEF q, p, rest
<1>4. \A j \in 1 .. LocalSize : Numbered(s, j)
  <2> SUFFICES ASSUME NEW j \in 1 .. LocalSize PROVE Numbered(s, j)
    OBVIOUS
  <2>1. CASE j = i
    BY <2>1, <1>1 DEF Numbered, q
  <2>2. CASE j # i
    <3>1. s.cids[j] = l.cids[j] /\ Numbered(l, j)
      BY <2>2, <1>1
    <3> QED
      BY <3>1, <1>1 DEF Numbered
  <2> QED
    BY <2>1, <2>2
<1>5. PendingAt(c) = PendingAt(l.cids) \cup {i} /\ PendingAt(l.cids) = 1 .. p /\ p <= LocalSize
  <2>1. PendingAt(l.cids) = 1 .. p
    BY DEF PendingIsFifo, p
  <2>2. p <= LocalSize
    <3>1. 1 .. p \subseteq 1 .. LocalSize
      BY <1>2, <2>1 DEF PendingAt
    <3> QED
      BY <3>1, <1>2
  <2>3. PendingAt(c) = PendingAt(l.cids) \cup {i}
    BY <1>1, <1>2 DEF PendingAt
  <2> QED
    BY <2>1, <2>2, <2>3
<1>6. CASE i <= p
  <2>1. rest = {}
    BY <1>5, <1>6, <1>2 DEF rest
  <2>2. Contains(l.fifo, q)
    BY <1>6, <1>2 DEF Contains, PendingIsFifo, p, q
  <2>3. m = [l EXCEPT !.cids = c]
    BY <1>3, <2>1, <2>2 DEF LocalSet
  <2>4. m = s
    BY <2>3, <1>1 DEF LocalSet
  <2>5. PendingIsFifo(s)
    <3>1. PendingAt(c) = 1 .. p
      BY <1>2, <1>5, <1>6
    <3>2. \A k \in 1 .. p : c[k].seq = l.cids[k].seq
      BY <1>1, <1>2, <1>5 DEF q
    <3> QED
      BY <1>1, <3>1, <3>2 DEF PendingIsFifo, p
  <2> QED
    BY <1>1, <1>4, <2>4, <2>5 DEF LocalInv, q
<1>7. CASE i > p
  <2>1. ~Contains(l.fifo, q)
    BY <1>2, <1>5, <1>7 DEF Contains, PendingIsFifo, Distinct, p, q
  <2>2. (IF rest = {} THEN c ELSE Swap(c, i, CHOOSE j \in rest : \A k \in rest : j <= k)) = Swap(c, i, p + 1)
    <3>1. rest = p + 1 .. i - 1
      BY <1>2, <1>5, <1>7 DEF rest
    <3>2. CASE i = p + 1
      <4>1. rest = {}
        BY <3>1, <3>2, <1>2
      <4>2. Swap(c, i, p + 1) = c
        BY <3>2, <1>2 DEF Swap
      <4> QED
        BY <4>1, <4>2
    <3>3. CASE i > p + 1
      <4>1. p + 1 \in rest /\ \A k \in rest : p + 1 <= k
        BY <3>1, <3>3, <1>2
      <4>2. \A j \in rest : (\A k \in rest : j <= k) => j = p + 1
        <5>1. ASSUME NEW j \in rest, \A k \in rest : j <= k PROVE j = p + 1
          <6>1. j <= p + 1 /\ p + 1 <= j /\ j \in Int /\ p + 1 \in Int
            BY <4>1, <5>1, <3>1, <1>2
          <6> QED
            BY <6>1
        <5> QED
          BY <5>1
      <4>3. (CHOOSE j \in rest : \A k \in rest : j <= k) = p + 1
        BY <4>1, <4>2
      <4> QED
        BY <4>1, <4>3
    <3>4. i = p + 1 \/ i > p + 1
      BY <1>7, <1>2
    <3> QED
      BY <3>2, <3>3, <3>4
  <2> DEFINE d == Swap(c, i, p + 1)
  <2>3. m = [l EXCEPT !.cids = d, !.fifo = Append(@, q)]
    BY <1>3, <2>1, <2>2 DEF LocalSet
  <2>4. /\ Rearranged(c, d) /\ d[i] = c[p + 1] /\ d[p + 1] = c[i]
        /\ \A k \in 1 .. LocalSize : k # i /\ k # p + 1 => d[k] = c[k]
    <3>1. p + 1 \in 1 .. LocalSize
      BY <1>2, <1>7
    <3>2. Distinct(c) /\ c \in [1 .. LocalSize -> LocalEntry]
      BY <1>1, <1>2
    <3> QED
      BY <3>1, <3>2, SwapRearranges
  <2> HIDE DEF d
  <2>5. m.cids = d /\ m.fifo = Append(l.fifo, q) /\ m.next = l.next /\ m \in LocalSet
    <3>1. m = [cids |-> d, next |-> l.next, fifo |-> Append(l.fifo, q)]
      BY <2>3 DEF LocalSet
    <3>2. Append(l.fifo, q) \in Seq(0 .. MaxPathId - 1)
      BY <1>2
    <3>3. d \in [1 .. LocalSize -> LocalEntry]
      BY <2>4 DEF Rearranged
    <3> QED
      BY <3>1, <3>2, <3>3 DEF LocalSet
  <2>6. PendingIsFifo(m)
    <3>1. Len(m.fifo) = p + 1 /\ \A k \in 1 .. p : m.fifo[k] = l.fifo[k]
      BY <2>5, <1>2 DEF p
    <3>2. m.fifo[p + 1] = q
      BY <2>5, <1>2 DEF p
    <3>3. PendingAt(d) = 1 .. p + 1
      <4>1. \A k \in 1 .. LocalSize : d[k].state = "pending" <=> k \in 1 .. p + 1
        <5>1. \A k \in 1 .. LocalSize : c[k].state = "pending" <=> k \in 1 .. p \/ k = i
          BY <1>2, <1>5 DEF PendingAt
        <5> QED
          BY <5>1, <2>4, <1>1, <1>2, <1>7
      <4>2. DOMAIN d = 1 .. LocalSize /\ 1 .. p + 1 \subseteq 1 .. LocalSize
        BY <2>4, <1>2, <1>7 DEF Rearranged
      <4> HIDE <1>2
      <4> QED
        BY <4>1, <4>2 DEF PendingAt
    <3>4. \A k \in 1 .. p + 1 : d[k].seq = m.fifo[k]
      <4>1. \A k \in 1 .. p : l.cids[k].seq = l.fifo[k]
        BY DEF PendingIsFifo, p
      <4>2. \A k \in 1 .. p : k # i /\ k # p + 1 /\ k \in 1 .. LocalSize
        BY <1>2, <1>5, <1>7
      <4>3. \A k \in 1 .. p : d[k].seq = m.fifo[k]
        BY <4>1, <4>2, <3>1, <2>4, <1>1
      <4>4. d[p + 1].seq = m.fifo[p + 1]
        BY <3>2, <2>4, <1>1
      <4>5. \A k \in 1 .. p + 1 : k \in 1 .. p \/ k = p + 1
        BY <1>2
      <4> QED
        BY <4>3, <4>4, <4>5
    <3> QED
      BY <3>1, <3>3, <3>4, <2>5 DEF PendingIsFifo
  <2>7. LocalInv(m) /\ Issued(m) = Issued(s) /\ Inflight(m) = Inflight(s)
    BY <1>1, <1>4, <2>4, <2>5, <2>6, RearrangedInv
  <2> QED
    BY <1>1, <2>5, <2>7 DEF q
<1> QED
  BY <1>6, <1>7, <1>2

(* The only occurrence of a value is taken out of a sequence. *)
LEMMA RemoveFirstProp ==
    ASSUME NEW S, NEW s \in Seq(S), NEW i \in 1 .. Len(s), \A j \in 1 .. Len(s) : s[j] = s[i] => j = i,
           NEW q, q = s[i]
    PROVE  /\ RemoveFirst(s, q) \in Seq(S) /\ Len(RemoveFirst(s, q)) = Len(s) - 1
           /\ \A j \in 1 .. Len(s) - 1 : /\ j < i => RemoveFirst(s, q)[j] = s[j]
                                         /\ j >= i => RemoveFirst(s, q)[j] = s[j + 1]
<1> DEFINE f == RemoveFirst(s, q)
<1> DEFINE I == {j \in 1 .. Len(s) : s[j] = q}
<1>1. I = {i}
  OBVIOUS
<1>2. Min(I) = i
  BY <1>1 DEF Min
<1>3. SelectInSeq(s, LAMBDA v : v = q) = i
  BY <1>1, <1>2 DEF SelectInSeq
<1>4. f = SubSeq(s, 1, i - 1) \o SubSeq(s, i + 1, Len(s))
  <2>1. f = RemoveAt(s, SelectInSeq(s, LAMBDA v : v = q))
    BY DEF RemoveFirst
  <2> QED
    BY <2>1, <1>3 DEF RemoveAt
<1>5. /\ SubSeq(s, 1, i - 1) \in Seq(S) /\ Len(SubSeq(s, 1, i - 1)) = i - 1
      /\ \A j \in 1 .. i - 1 : SubSeq(s, 1, i - 1)[j] = s[j]
  OBVIOUS
<1>6. /\ SubSeq(s, i + 1, Len(s)) \in Seq(S) /\ Len(SubSeq(s, i + 1, Len(s))) = Len(s) - i
      /\ \A j \in 1 .. Len(s) - i : SubSeq(s, i + 1, Len(s))[j] = s[i + j]
  OBVIOUS
<1> QED
  <2> DEFINE a == SubSeq(s, 1, i - 1)
             b == SubSeq(s, i + 1, Len(s))
  <2>1. a \in Seq(S) /\ b \in Seq(S) /\ Len(a) = i - 1 /\ Len(b) = Len(s) - i /\ f = a \o b
    BY <1>4, <1>5, <1>6
  <2> HIDE DEF a, b, f
  <2>2. f \in Seq(S) /\ Len(f) = Len(s) - 1
    BY <2>1
  <2>3. ASSUME NEW j \in 1 .. Len(s) - 1 PROVE (j < i => f[j] = s[j]) /\ (j >= i => f[j] = s[j + 1])
    <3>1. CASE j < i
      <4>1. f[j] = a[j]
        BY <2>1, <3>1
      <4> QED
        BY <4>1, <3>1, <1>5 DEF a
    <3>2. CASE j >= i
      <4>0. j - (i - 1) \in 1 .. Len(s) - i /\ i + (j - (i - 1)) = j + 1 /\ j > Len(a) /\ j <= Len(a) + Len(b)
        BY <2>1, <3>2
      <4>1. f[j] = b[j - (i - 1)] /\ j - (i - 1) \in 1 .. Len(s) - i /\ i + (j - (i - 1)) = j + 1
        BY <2>1, <4>0
      <4>2. b[j - (i - 1)] = s[j + 1]
        BY <4>1, <1>6 DEF b
      <4> QED
        BY <4>1, <4>2, <3>2
    <3> QED
      BY <3>1, <3>2
  <2> QED
    BY <2>2, <2>3 DEF f

(* A value that does not occur. *)
LEMMA RemoveFirstNone ==
    ASSUME NEW s, NEW q, \A j \in 1 .. Len(s) : s[j] # q
    PROVE  RemoveFirst(s, q) = s
BY DEF RemoveFirst

(* An entry that is swapped with the pending entries after it. *)
LEMMA MovedRearranges ==
    ASSUME NEW c \in [1 .. LocalSize -> LocalEntry], Distinct(c), NEW i \in 1 .. LocalSize,
           NEW p \in 0 .. LocalSize,
           \A j \in 1 .. LocalSize : c[j].state = "pending" <=> j <= p /\ j # i
    PROVE  /\ Rearranged(c, MovedBehindPending(c, i))
           /\ i <= p => /\ BehindPending(c, i) = p /\ MovedBehindPending(c, i)[p] = c[i]
                        /\ \A j \in 1 .. LocalSize : j < i \/ j > p => MovedBehindPending(c, i)[j] = c[j]
                        /\ \A j \in 1 .. LocalSize : i <= j /\ j < p => MovedBehindPending(c, i)[j] = c[j + 1]
           /\ i > p => BehindPending(c, i) = i /\ MovedBehindPending(c, i) = c
<1> DEFINE k == BehindPending(c, i)
           d == MovedBehindPending(c, i)
<1>1. LocalSize \in Nat /\ Len(c) = LocalSize /\ DOMAIN c = 1 .. LocalSize
  BY LocalCidsAssumption
<1>a. PendingAt(c) = (1 .. p) \ {i}
  BY <1>1 DEF PendingAt
<1> DEFINE b == IF i <= p THEN p ELSE i
           Ok(x) == i + 1 .. x \subseteq PendingAt(c) /\ x + 1 \notin PendingAt(c)
<1>2. b \in i .. LocalSize /\ Ok(b)
  BY <1>1, <1>a
<1>3. ASSUME NEW x \in i .. LocalSize, Ok(x) PROVE x = b
  <2>1. CASE x < b
    <3>1. x + 1 \in PendingAt(c)
      BY <2>1, <1>1, <1>a
    <3> QED
      BY <3>1, <1>3
  <2>2. CASE x > b
    <3>1. b + 1 \in i + 1 .. x
      BY <2>2, <1>1
    <3>2. b + 1 \in PendingAt(c)
      BY <3>1, <1>3
    <3> QED
      BY <3>2, <1>2
  <2> QED
    BY <2>1, <2>2, <1>1
<1>4. k = b
  <2>1. k = CHOOSE x \in i .. LocalSize : Ok(x)
    BY <1>1 DEF BehindPending
  <2> HIDE DEF Ok, b, k
  <2> QED
    BY <1>2, <1>3, <2>1
<1>5. d = [j \in 1 .. LocalSize |-> IF j \in i .. k - 1 THEN c[j + 1] ELSE IF j = k THEN c[i] ELSE c[j]]
  BY <1>1 DEF MovedBehindPending
<1> HIDE DEF k, d
<1>6. k \in i .. LocalSize
  BY <1>2, <1>4
<1>7. \A j \in 1 .. LocalSize : d[j] = IF j \in i .. k - 1 THEN c[j + 1] ELSE IF j = k THEN c[i] ELSE c[j]
  BY <1>5
<1>8. d \in [1 .. LocalSize -> LocalEntry]
  BY <1>5, <1>6, <1>1
<1>9. ASSUME NEW j \in 1 .. LocalSize PROVE \E x \in 1 .. LocalSize : d[j] = c[x]
  <2>1. CASE j \in i .. k - 1
    <3>1. d[j] = c[j + 1] /\ j + 1 \in 1 .. LocalSize
      BY <2>1, <1>6, <1>7, <1>1
    <3> QED
      BY <3>1
  <2>2. CASE j \notin i .. k - 1
    BY <2>2, <1>7
  <2> QED
    BY <2>1, <2>2
<1>10. ASSUME NEW x \in 1 .. LocalSize PROVE \E j \in 1 .. LocalSize : d[j] = c[x]
  <2>1. CASE x = i
    <3>1. d[k] = c[x] /\ k \in 1 .. LocalSize
      BY <2>1, <1>6, <1>7, <1>1
    <3> QED
      BY <3>1
  <2>2. CASE x \in i + 1 .. k
    <3>1. d[x - 1] = c[x] /\ x - 1 \in 1 .. LocalSize
      BY <2>2, <1>6, <1>7, <1>1
    <3> QED
      BY <3>1
  <2>3. CASE x < i \/ x > k
    <3>1. d[x] = c[x]
      BY <2>3, <1>6, <1>7, <1>1
    <3> QED
      BY <3>1
  <2> QED
    BY <2>1, <2>2, <2>3, <1>6, <1>1
<1>11. Distinct(d)
  <2> SUFFICES ASSUME NEW x \in 1 .. LocalSize, NEW y \in 1 .. LocalSize,
                      d[x].seq = d[y].seq, d[x].seq # NoSeq
               PROVE  x = y
    BY DEF Distinct
  <2> DEFINE f(j) == IF j \in i .. k - 1 THEN j + 1 ELSE IF j = k THEN i ELSE j
  <2>1. d[x] = c[f(x)] /\ d[y] = c[f(y)] /\ f(x) \in 1 .. LocalSize /\ f(y) \in 1 .. LocalSize
    BY <1>6, <1>7, <1>1
  <2>2. f(x) = f(y)
    <3> HIDE DEF f
    <3> QED
      BY <2>1 DEF Distinct
  <2> QED
    BY <2>2, <1>6, <1>1
<1>12. (i <= p => k = p) /\ (i > p => k = i)
  BY <1>4
<1>13. /\ \A j \in 1 .. LocalSize : j < i \/ j > k => d[j] = c[j]
       /\ \A j \in 1 .. LocalSize : i <= j /\ j < k => d[j] = c[j + 1]
       /\ d[k] = c[i]
  BY <1>6, <1>7, <1>1
<1>14. ASSUME i > p PROVE d = c
  <2>1. k = i
    BY <1>12, <1>14
  <2>2. \A j \in 1 .. LocalSize : d[j] = c[j]
    BY <2>1, <1>7
  <2>3. d = [j \in 1 .. LocalSize |-> d[j]] /\ c = [j \in 1 .. LocalSize |-> c[j]]
    BY <1>8
  <2> QED
    BY <2>2, <2>3, Zenon
<1>15. Rearranged(c, d)
  BY <1>8, <1>9, <1>10, <1>11 DEF Rearranged
<1> QED
  BY <1>12, <1>13, <1>14, <1>15 DEF k, d

(* The number of an entry is taken out of the queue, if it is there. *)
LEMMA Dequeued ==
    ASSUME NEW b, Distinct(b), NEW s \in Seq(0 .. MaxPathId - 1), Len(s) <= LocalSize,
           \A j \in 1 .. Len(s) : b[j].seq = s[j],
           NEW i \in 1 .. LocalSize, b[i].seq # NoSeq
    PROVE  /\ RemoveFirst(s, b[i].seq) \in Seq(0 .. MaxPathId - 1)
           /\ i > Len(s) => RemoveFirst(s, b[i].seq) = s
           /\ i <= Len(s) =>
                 /\ Len(RemoveFirst(s, b[i].seq)) = Len(s) - 1
                 /\ \A j \in 1 .. Len(s) - 1 : /\ j < i => RemoveFirst(s, b[i].seq)[j] = s[j]
                                               /\ j >= i => RemoveFirst(s, b[i].seq)[j] = s[j + 1]
<1>1. LocalSize \in Nat /\ Len(s) \in Nat
  BY LocalCidsAssumption
<1>2. ASSUME i > Len(s) PROVE RemoveFirst(s, b[i].seq) = s
  <2>1. \A j \in 1 .. Len(s) : s[j] # b[i].seq
    BY <1>1, <1>2 DEF Distinct
  <2> QED
    BY <2>1, RemoveFirstNone
<1>3. ASSUME i <= Len(s)
      PROVE  /\ RemoveFirst(s, b[i].seq) \in Seq(0 .. MaxPathId - 1)
             /\ Len(RemoveFirst(s, b[i].seq)) = Len(s) - 1
             /\ \A j \in 1 .. Len(s) - 1 : /\ j < i => RemoveFirst(s, b[i].seq)[j] = s[j]
                                           /\ j >= i => RemoveFirst(s, b[i].seq)[j] = s[j + 1]
  <2>1. i \in 1 .. Len(s) /\ b[i].seq = s[i]
    BY <1>1, <1>3
  <2>2. \A j \in 1 .. Len(s) : s[j] = s[i] => j = i
    BY <2>1, <1>1 DEF Distinct
  <2> QED
    BY <2>1, <2>2, RemoveFirstProp
<1> QED
  BY <1>1, <1>2, <1>3

(* The pending entries of b come first, in the order of the queue s. *)
Queued(b, s) ==
    /\ s \in Seq(0 .. MaxPathId - 1) /\ Len(s) <= LocalSize
    /\ \A j \in 1 .. LocalSize : b[j].state = "pending" <=> j <= Len(s)
    /\ \A j \in 1 .. Len(s) : b[j].seq = s[j]

SameBut(b, c, i) == \A j \in 1 .. LocalSize : j # i => c[j] = b[j]

LEMMA QueuedIntro ==
    ASSUME NEW b, NEW s \in Seq(0 .. MaxPathId - 1), NEW n \in 0 .. LocalSize, Len(s) = n,
           \A j \in 1 .. LocalSize : b[j].state = "pending" <=> j <= n,
           \A j \in 1 .. n : b[j].seq = s[j]
    PROVE  Queued(b, s)
BY LocalCidsAssumption DEF Queued

(* An entry that is not pending any more leaves the queue: b are the       *)
(* entries and s is the queue before, c has the entry in its new state.     *)
LEMMA TakenOut ==
    ASSUME NEW b, NEW s, NEW i \in 1 .. LocalSize, NEW c \in [1 .. LocalSize -> LocalEntry],
           Distinct(b), Queued(b, s), b[i].seq # NoSeq,
           Distinct(c), SameBut(b, c, i), c[i].state # "pending"
    PROVE  /\ Rearranged(c, MovedBehindPending(c, i))
           /\ i > Len(s) => MovedBehindPending(c, i) = c /\ RemoveFirst(s, b[i].seq) = s
           /\ BehindPending(c, i) \in 1 .. LocalSize
           /\ MovedBehindPending(c, i)[BehindPending(c, i)] = c[i]
           /\ Queued(MovedBehindPending(c, i), RemoveFirst(s, b[i].seq))
<1>0. /\ s \in Seq(0 .. MaxPathId - 1) /\ Len(s) <= LocalSize
      /\ \A j \in 1 .. LocalSize : b[j].state = "pending" <=> j <= Len(s)
      /\ \A j \in 1 .. Len(s) : b[j].seq = s[j]
      /\ \A j \in 1 .. LocalSize : j # i => c[j] = b[j]
  BY DEF Queued, SameBut
<1> DEFINE p == Len(s)
           k == BehindPending(c, i)
           d == MovedBehindPending(c, i)
           f == RemoveFirst(s, b[i].seq)
<1>1. p \in 0 .. LocalSize /\ LocalSize \in Nat
  BY <1>0, LocalCidsAssumption
<1>2. \A j \in 1 .. LocalSize : c[j].state = "pending" <=> j <= p /\ j # i
  BY <1>0
<1>3. /\ f \in Seq(0 .. MaxPathId - 1)
      /\ i > p => f = s
      /\ i <= p => Len(f) = p - 1 /\ \A j \in 1 .. p - 1 : /\ j < i => f[j] = s[j]
                                                           /\ j >= i => f[j] = s[j + 1]
  BY <1>0, Dequeued
<1>4. \A j \in 1 .. p : b[j].seq = s[j]
  BY <1>0
<1> HIDE DEF p
<1>5. /\ Rearranged(c, d)
      /\ i <= p => /\ k = p /\ d[p] = c[i]
                   /\ \A j \in 1 .. LocalSize : j < i \/ j > p => d[j] = c[j]
                   /\ \A j \in 1 .. LocalSize : i <= j /\ j < p => d[j] = c[j + 1]
      /\ i > p => k = i /\ d = c
  BY <1>1, <1>2, MovedRearranges
<1> HIDE DEF k, d, f
<1>6. DOMAIN d = 1 .. LocalSize /\ DOMAIN c = 1 .. LocalSize
  BY <1>5 DEF Rearranged
<1>7. ASSUME i <= p
      PROVE  /\ k \in 1 .. LocalSize /\ d[k] = c[i] /\ Len(f) = p - 1
             /\ \A j \in 1 .. LocalSize : d[j].state = "pending" <=> j <= p - 1
             /\ \A j \in 1 .. p - 1 : d[j].seq = f[j]
  <2>1. ASSUME NEW j \in 1 .. LocalSize PROVE d[j].state = "pending" <=> j <= p - 1
    <3>1. CASE i <= j /\ j < p
      <4>1. d[j] = c[j + 1] /\ j + 1 \in 1 .. LocalSize /\ j + 1 <= p /\ j + 1 # i
        BY <3>1, <1>1, <1>5, <1>7
      <4> QED
        BY <4>1, <3>1, <1>1, <1>2
    <3>2. CASE j = p
      BY <3>2, <1>1, <1>5, <1>7
    <3>3. CASE j < i \/ j > p
      <4>1. d[j] = c[j]
        BY <3>3, <1>5, <1>7
      <4> QED
        BY <4>1, <3>3, <1>1, <1>2, <1>7
    <3> QED
      BY <3>1, <3>2, <3>3, <1>1
  <2>3. ASSUME NEW j \in 1 .. p - 1 PROVE d[j].seq = f[j]
    <3>1. CASE j < i
      <4>1. d[j] = c[j] /\ c[j] = b[j] /\ j \in 1 .. p
        BY <3>1, <1>0, <1>1, <1>5, <1>7
      <4> QED
        BY <4>1, <3>1, <1>3, <1>4, <1>7
    <3>2. CASE j >= i
      <4>1. d[j] = c[j + 1] /\ c[j + 1] = b[j + 1] /\ j + 1 \in 1 .. p
        BY <3>2, <1>0, <1>1, <1>5, <1>7
      <4> QED
        BY <4>1, <3>2, <1>3, <1>4, <1>7
    <3> QED
      BY <3>1, <3>2, <1>1
  <2> QED
    BY <2>1, <2>3, <1>1, <1>3, <1>5, <1>7
<1>8. ASSUME i > p
      PROVE  /\ k \in 1 .. LocalSize /\ d[k] = c[i] /\ f = s /\ d = c
             /\ \A j \in 1 .. LocalSize : c[j].state = "pending" <=> j <= p
             /\ \A j \in 1 .. p : c[j].seq = s[j]
  <2>1. f = s /\ d = c /\ k = i
    BY <1>3, <1>5, <1>8
  <2>2. \A j \in 1 .. LocalSize : c[j].state = "pending" <=> j <= p
    BY <1>1, <1>2, <1>8
  <2>3. \A j \in 1 .. p : c[j].seq = s[j]
    BY <1>0, <1>1, <1>4, <1>8
  <2> QED
    BY <2>1, <2>2, <2>3
<1>9. i <= p \/ i > p
  BY <1>1
<1>10. i > p => d = c /\ f = s
  BY <1>3, <1>5
<1>11. Rearranged(c, d)
  BY <1>5
<1>12. Queued(d, f)
  <2>1. CASE i <= p
    <3>1. f \in Seq(0 .. MaxPathId - 1) /\ Len(f) = p - 1 /\ p - 1 \in 0 .. LocalSize
      BY <1>1, <1>3, <1>7, <2>1
    <3>2. /\ \A j \in 1 .. LocalSize : d[j].state = "pending" <=> j <= p - 1
          /\ \A j \in 1 .. p - 1 : d[j].seq = f[j]
      BY <1>7, <2>1
    <3> QED
      BY <3>1, <3>2, QueuedIntro
  <2>2. CASE i > p
    <3>1. f \in Seq(0 .. MaxPathId - 1) /\ Len(f) = p /\ p \in 0 .. LocalSize
      BY <1>1, <1>3, <1>8, <2>2 DEF p
    <3>2. /\ \A j \in 1 .. LocalSize : d[j].state = "pending" <=> j <= p
          /\ \A j \in 1 .. p : d[j].seq = f[j]
      BY <1>8, <2>2
    <3> QED
      BY <3>1, <3>2, QueuedIntro
  <2> QED
    BY <2>1, <2>2, <1>9
<1>13. k \in 1 .. LocalSize /\ d[k] = c[i]
  BY <1>7, <1>8, <1>9
<1> QED
  BY <1>10, <1>11, <1>12, <1>13, Zenon DEF p, k, d, f

(* The invariant in the two forms. *)
LEMMA FifoIsQueued ==
    ASSUME NEW l, l \in LocalSet
    PROVE  /\ LocalSize \in Nat \ {0} /\ DOMAIN l.cids = 1 .. LocalSize
           /\ \A j \in 1 .. LocalSize : l.cids[j] \in LocalEntry
           /\ PendingIsFifo(l) <=> Queued(l.cids, l.fifo)
<1>1. LocalSize \in Nat \ {0} /\ Len(l.fifo) \in Nat /\ l.cids \in [1 .. LocalSize -> LocalEntry]
      /\ l.fifo \in Seq(0 .. MaxPathId - 1)
  BY LocalCidsAssumption DEF LocalSet
<1>2. ASSUME PendingIsFifo(l) PROVE Queued(l.cids, l.fifo)
  <2>1. PendingAt(l.cids) = 1 .. Len(l.fifo) /\ \A j \in 1 .. Len(l.fifo) : l.cids[j].seq = l.fifo[j]
    BY <1>2 DEF PendingIsFifo
  <2>2. 1 .. Len(l.fifo) \subseteq 1 .. LocalSize
    BY <1>1, <2>1 DEF PendingAt
  <2>3. Len(l.fifo) <= LocalSize
    BY <1>1, <2>2
  <2>4. ASSUME NEW j \in 1 .. LocalSize PROVE l.cids[j].state = "pending" <=> j <= Len(l.fifo)
    <3>1. l.cids[j].state = "pending" <=> j \in PendingAt(l.cids)
      BY <1>1 DEF PendingAt
    <3> QED
      BY <3>1, <1>1, <2>1
  <2> QED
    BY <1>1, <2>1, <2>3, <2>4 DEF Queued
<1>3. ASSUME Queued(l.cids, l.fifo) PROVE PendingIsFifo(l)
  <2>1. PendingAt(l.cids) = 1 .. Len(l.fifo)
    BY <1>1, <1>3 DEF PendingAt, Queued
  <2> QED
    BY <2>1, <1>3 DEF PendingIsFifo, Queued
<1> QED
  BY <1>1, <1>2, <1>3

(* do_mark_delivered: the entry leaves the queue, wherever it is in it. *)
LEMMA MarkDeliveredProp ==
    ASSUME NEW l, LocalInv(l), NEW i \in 1 .. LocalSize, l.cids[i].seq # NoSeq
    PROVE  /\ LocalInv(MarkDelivered(l, i)) /\ MarkDelivered(l, i).next = l.next
           /\ Issued(MarkDelivered(l, i)) = Issued(l)
           /\ Inflight(MarkDelivered(l, i)) = Inflight(l) \ {l.cids[i].seq}
<1> DEFINE e == [l.cids[i] EXCEPT !.state = "delivered"]
           c == [l.cids EXCEPT ![i].state = "delivered"]
           q == l.cids[i].seq
           f == RemoveFirst(l.fifo, q)
           d == MovedBehindPending(c, i)
           s == [cids |-> c, next |-> l.next, fifo |-> f]
           m == MarkDelivered(l, i)
<1>1. l \in LocalSet /\ Distinct(l.cids) /\ PendingIsFifo(l) /\ \A j \in 1 .. LocalSize : Numbered(l, j)
  BY DEF LocalInv
<1>2. /\ LocalSize \in Nat \ {0} /\ DOMAIN l.cids = 1 .. LocalSize
      /\ \A j \in 1 .. LocalSize : l.cids[j] \in LocalEntry
      /\ Queued(l.cids, l.fifo)
  BY <1>1, FifoIsQueued
<1>3. m = [l EXCEPT !.cids = IF i \in PendingAt(l.cids) THEN d ELSE c, !.fifo = f]
  BY <1>1 DEF MarkDelivered, LocalSet
<1>4. e \in LocalEntry /\ e.state = "delivered" /\ e.seq = q
  BY <1>2 DEF LocalEntry
<1>5. c = [l.cids EXCEPT ![i] = e] /\ l.cids \in [1 .. LocalSize -> LocalEntry]
  BY <1>1 DEF LocalSet
<1> HIDE DEF e, c
<1>6. /\ c \in [1 .. LocalSize -> LocalEntry] /\ c[i] = e
      /\ \A j \in 1 .. LocalSize : j # i => c[j] = l.cids[j]
  BY <1>4, <1>5, EntrySet
<1>7. Distinct(c)
  BY <1>1, <1>4, <1>6 DEF Distinct
<1>8. Rearranged(c, d) /\ Queued(d, f) /\ (i > Len(l.fifo) => d = c /\ f = l.fifo)
  <2>1. c[i].state # "pending" /\ SameBut(l.cids, c, i)
    BY <1>4, <1>6 DEF SameBut
  <2> QED
    BY <2>1, <1>1, <1>2, <1>6, <1>7, TakenOut
<1> HIDE DEF d, f, m
<1>9. m = [l EXCEPT !.cids = d, !.fifo = f]
  <2>1. CASE i \in PendingAt(l.cids)
    BY <2>1, <1>3
  <2>2. CASE i \notin PendingAt(l.cids)
    <3>1. i > Len(l.fifo)
      BY <2>2, <1>2 DEF PendingAt, Queued
    <3> QED
      BY <3>1, <1>3, <1>8
  <2> QED
    BY <2>1, <2>2
<1>10. m \in LocalSet /\ m.cids = d /\ m.fifo = f /\ m.next = l.next
  BY <1>1, <1>8, <1>9 DEF LocalSet, Rearranged, Queued
<1>11. s \in LocalSet /\ s.cids = c /\ s.next = l.next
  BY <1>1, <1>6, <1>8 DEF LocalSet, Queued
<1> HIDE DEF s
<1>12. Issued(s) = Issued(l) \cup {q} /\ Inflight(s) = Inflight(l) \ {q}
  <2>1. s.cids[i].seq = l.cids[i].seq /\ s.cids[i].state # "idle" /\ s.cids[i].state # "inflight"
    BY <1>4, <1>6, <1>11
  <2>2. \A j \in 1 .. LocalSize : j # i => s.cids[j] = l.cids[j]
    BY <1>6, <1>11
  <2>3. s \in LocalSet
    BY <1>11
  <2> QED
    BY <1>1, <2>1, <2>2, <2>3, StateSet
<1>13. \A j \in 1 .. LocalSize : Numbered(s, j)
  BY <1>1, <1>4, <1>6, <1>11 DEF Numbered
<1>14. PendingIsFifo(m)
  BY <1>8, <1>10, FifoIsQueued
<1>15. LocalInv(m) /\ Issued(m) = Issued(s) /\ Inflight(m) = Inflight(s)
  <2>1. m.next = s.next /\ Rearranged(s.cids, m.cids)
    BY <1>8, <1>10, <1>11
  <2> QED
    BY <2>1, <1>10, <1>11, <1>13, <1>14, RearrangedInv
<1>16. q \in Issued(l)
  <2>1. l.cids[i].state # "idle"
    BY <1>1 DEF Numbered
  <2> QED
    BY <2>1, <1>2 DEF Issued
<1> QED
  BY <1>10, <1>12, <1>15, <1>16 DEF m, q

(* The entry with a number is found, and it is the only one. *)
LEMMA FoundEntry ==
    ASSUME NEW l, LocalInv(l), NEW q, q # NoSeq, IndicesOf(l, q) # {}
    PROVE  \E i \in 1 .. LocalSize :
              /\ (CHOOSE j \in IndicesOf(l, q) : TRUE) = i
              /\ l.cids[i].seq = q /\ l.cids[i].state # "idle"
              /\ \A j \in 1 .. LocalSize : l.cids[j].seq = q => j = i
<1> DEFINE i == CHOOSE j \in IndicesOf(l, q) : TRUE
<1>1. i \in IndicesOf(l, q)
  OBVIOUS
<1> HIDE DEF i
<1>2. DOMAIN l.cids = 1 .. LocalSize
  BY DEF LocalInv, LocalSet
<1>3. i \in 1 .. LocalSize /\ l.cids[i].seq = q
  BY <1>1, <1>2 DEF IndicesOf
<1>4. l.cids[i].state # "idle"
  BY <1>3 DEF LocalInv, Numbered
<1>5. \A j \in 1 .. LocalSize : l.cids[j].seq = q => j = i
  BY <1>3 DEF LocalInv, Distinct
<1> QED
  BY <1>3, <1>4, <1>5 DEF i

(* What an entry's number and state say of the sets of numbers. *)
LEMMA EntryNumbers ==
    ASSUME NEW l, LocalInv(l), NEW q
    PROVE  /\ q \in Issued(l) <=> \E j \in 1 .. LocalSize : l.cids[j].state # "idle" /\ l.cids[j].seq = q
           /\ q \in Inflight(l) <=> \E j \in 1 .. LocalSize : l.cids[j].state = "inflight" /\ l.cids[j].seq = q
           /\ IndicesOf(l, q) = {} <=> ~ \E j \in 1 .. LocalSize : l.cids[j].seq = q
           /\ q \in Issued(l) => q \in 0 .. l.next - 1
           /\ q \in Inflight(l) => q \in Issued(l)
<1>1. DOMAIN l.cids = 1 .. LocalSize
  BY DEF LocalInv, LocalSet
<1>2. q \in Issued(l) <=> \E j \in 1 .. LocalSize : l.cids[j].state # "idle" /\ l.cids[j].seq = q
  BY <1>1 DEF Issued
<1>3. q \in Inflight(l) <=> \E j \in 1 .. LocalSize : l.cids[j].state = "inflight" /\ l.cids[j].seq = q
  BY DEF Inflight
<1>4. IndicesOf(l, q) = {} <=> ~ \E j \in 1 .. LocalSize : l.cids[j].seq = q
  BY <1>1 DEF IndicesOf
<1>5. ASSUME q \in Issued(l) PROVE q \in 0 .. l.next - 1
  <2>1. PICK j \in 1 .. LocalSize : l.cids[j].state # "idle" /\ l.cids[j].seq = q
    BY <1>2, <1>5
  <2>2. l.cids[j] \in LocalEntry /\ l.next \in Nat /\ Numbered(l, j)
    BY LocalCidsAssumption DEF LocalInv, LocalSet
  <2> QED
    BY <2>1, <2>2, LocalCidsAssumption DEF LocalEntry, Numbered, NoSeq
<1> QED
  BY <1>2, <1>3, <1>4, <1>5

(* quicly_local_cid_on_acked *)
LEMMA OnAckedProp ==
    ASSUME NEW l, LocalInv(l), NEW q, q # NoSeq
    PROVE  /\ LocalInv(OnAcked(l, q)) /\ OnAcked(l, q).next = l.next
           /\ Issued(OnAcked(l, q)) = Issued(l)
           /\ Inflight(OnAcked(l, q)) = Inflight(l) \ {q}
<1>1. CASE IndicesOf(l, q) = {}
  <2>1. OnAcked(l, q) = l
    BY <1>1 DEF OnAcked
  <2>2. q \notin Inflight(l)
    BY <1>1, EntryNumbers
  <2> QED
    BY <2>1, <2>2
<1>2. CASE IndicesOf(l, q) # {}
  <2>1. PICK i \in 1 .. LocalSize :
              /\ (CHOOSE j \in IndicesOf(l, q) : TRUE) = i
              /\ l.cids[i].seq = q
    BY <1>2, FoundEntry
  <2>2. OnAcked(l, q) = MarkDelivered(l, i)
    BY <1>2, <2>1 DEF OnAcked
  <2> QED
    BY <2>1, <2>2, MarkDeliveredProp
<1> QED
  BY <1>1, <1>2

(* quicly_local_cid_on_lost *)
LEMMA OnLostProp ==
    ASSUME NEW l, LocalInv(l), NEW q, q # NoSeq
    PROVE  /\ LocalInv(OnLost(l, q)) /\ OnLost(l, q).next = l.next
           /\ Issued(OnLost(l, q)) = Issued(l)
           /\ Inflight(OnLost(l, q)) = Inflight(l) \ {q}
<1>1. CASE IndicesOf(l, q) = {}
  <2>1. OnLost(l, q) = l
    BY <1>1 DEF OnLost
  <2>2. q \notin Inflight(l)
    BY <1>1, EntryNumbers
  <2> QED
    BY <2>1, <2>2
<1>2. CASE IndicesOf(l, q) # {}
  <2>1. PICK i \in 1 .. LocalSize :
              /\ (CHOOSE j \in IndicesOf(l, q) : TRUE) = i
              /\ l.cids[i].seq = q /\ l.cids[i].state # "idle"
              /\ \A j \in 1 .. LocalSize : l.cids[j].seq = q => j = i
    BY <1>2, FoundEntry
  <2>2. OnLost(l, q) = IF l.cids[i].state = "delivered" THEN l ELSE MarkPending(l, i)
    BY <1>2, <2>1 DEF OnLost
  <2>3. q \in Issued(l) /\ (l.cids[i].state = "delivered" => q \notin Inflight(l))
    BY <2>1, EntryNumbers
  <2>4. CASE l.cids[i].state = "delivered"
    BY <2>2, <2>3, <2>4
  <2>5. CASE l.cids[i].state # "delivered"
    <3>1. OnLost(l, q) = MarkPending(l, i)
      BY <2>2, <2>5
    <3>2. /\ l \in LocalSet /\ Distinct(l.cids) /\ PendingIsFifo(l) /\ l.cids[i].seq # NoSeq
          /\ \A j \in 1 .. LocalSize : l.cids[j].seq < l.next /\ (j # i => Numbered(l, j))
      BY <2>1 DEF LocalInv, Numbered
    <3>3. /\ LocalInv(MarkPending(l, i)) /\ MarkPending(l, i).next = l.next
          /\ Issued(MarkPending(l, i)) = Issued(l) \cup {q}
          /\ Inflight(MarkPending(l, i)) = Inflight(l) \ {q}
      BY <2>1, <3>2, MarkPendingProp
    <3> QED
      BY <2>3, <3>1, <3>3
  <2> QED
    BY <2>4, <2>5
<1> QED
  BY <1>1, <1>2

(* generate_cid and do_mark_pending: the idle entry i gets the next number, *)
(* while there is one.                                                      *)
LEMMA GenerateProp ==
    ASSUME NEW l, LocalInv(l), NEW i \in 1 .. LocalSize, l.cids[i].state = "idle"
    PROVE  /\ LocalInv(Generate(l, i)) /\ Inflight(Generate(l, i)) = Inflight(l)
           /\ \/ l.next = MaxPathId /\ Generate(l, i) = l
              \/ /\ Generate(l, i).next = l.next + 1
                 /\ Issued(Generate(l, i)) = Issued(l) \cup {l.next}
<1>1. l \in LocalSet /\ Distinct(l.cids) /\ PendingIsFifo(l) /\ \A j \in 1 .. LocalSize : Numbered(l, j)
  BY DEF LocalInv
<1>2. /\ LocalSize \in Nat \ {0} /\ DOMAIN l.cids = 1 .. LocalSize /\ Queued(l.cids, l.fifo)
      /\ l.next \in 1 .. MaxPathId /\ MaxPathId \in Nat
      /\ l.cids \in [1 .. LocalSize -> LocalEntry]
  BY <1>1, FifoIsQueued, LocalCidsAssumption DEF LocalSet
<1>3. CASE l.next >= MaxPathId
  <2>1. Generate(l, i) = l
    BY <1>3 DEF Generate
  <2> QED
    BY <2>1, <1>2, <1>3
<1>4. CASE ~(l.next >= MaxPathId)
  <2> DEFINE e == [l.cids[i] EXCEPT !.seq = l.next]
             c == [l.cids EXCEPT ![i].seq = l.next]
             s == [l EXCEPT !.cids[i].seq = l.next, !.next = @ + 1]
             n == l.next
  <2>1. Generate(l, i) = MarkPending(s, i)
    BY <1>4, Zenon DEF Generate
  <2>2. e \in LocalEntry /\ e.state = "idle" /\ e.seq = n
    <3>1. l.cids[i] \in LocalEntry /\ n \in -1 .. MaxPathId - 1
      BY <1>2, <1>4
    <3> QED
      BY <3>1 DEF LocalEntry
  <2>3. c = [l.cids EXCEPT ![i] = e] /\ s = [cids |-> c, next |-> n + 1, fifo |-> l.fifo]
    <3>1. c = [l.cids EXCEPT ![i] = e]
      BY <1>2
    <3>2. s = [l EXCEPT !.cids = c, !.next = n + 1]
      BY <1>1 DEF LocalSet
    <3> HIDE DEF c, s
    <3> QED
      BY <3>1, <3>2, <1>1 DEF LocalSet
  <2> HIDE DEF e, c, s
  <2>4. /\ c \in [1 .. LocalSize -> LocalEntry] /\ c[i] = e
        /\ \A j \in 1 .. LocalSize : j # i => c[j] = l.cids[j]
    BY <2>2, <2>3, <1>2, EntrySet
  <2>5. s \in LocalSet /\ s.cids = c /\ s.next = n + 1 /\ s.fifo = l.fifo
    <3>1. n + 1 \in 1 .. MaxPathId
      BY <1>2, <1>4
    <3> QED
      BY <3>1, <2>3, <2>4, <1>1 DEF LocalSet
  <2>6. \A j \in 1 .. LocalSize : l.cids[j].seq < n /\ l.cids[j].seq \in Int
    <3>1. ASSUME NEW j \in 1 .. LocalSize PROVE l.cids[j].seq < n /\ l.cids[j].seq \in Int
      <4>1. l.cids[j] \in LocalEntry /\ Numbered(l, j)
        BY <1>1, <1>2
      <4> QED
        BY <4>1, <1>2 DEF LocalEntry, Numbered
    <3> QED
      BY <3>1
  <2>7. Distinct(c)
    <3> SUFFICES ASSUME NEW x \in 1 .. LocalSize, NEW y \in 1 .. LocalSize,
                        c[x].seq = c[y].seq, c[x].seq # NoSeq
                 PROVE  x = y
      BY DEF Distinct
    <3>1. CASE x # i /\ y # i
      BY <3>1, <2>4, <1>1 DEF Distinct
    <3>2. CASE x = i /\ y # i
      <4>1. l.cids[y].seq = n
        BY <3>2, <2>2, <2>4
      <4> QED
        BY <4>1, <2>6
    <3>3. CASE x # i /\ y = i
      <4>1. l.cids[x].seq = n
        BY <3>3, <2>2, <2>4
      <4> QED
        BY <4>1, <2>6
    <3> QED
      BY <3>1, <3>2, <3>3
  <2>8. \A j \in 1 .. LocalSize : s.cids[j].seq < s.next /\ (j # i => Numbered(s, j))
    <3>1. ASSUME NEW j \in 1 .. LocalSize PROVE s.cids[j].seq < s.next /\ (j # i => Numbered(s, j))
      <4>1. CASE j = i
        BY <4>1, <2>2, <2>4, <2>5, <1>2
      <4>2. CASE j # i
        <5>1. s.cids[j] = l.cids[j] /\ l.cids[j].seq < n /\ l.cids[j].seq \in Int
          BY <4>2, <2>4, <2>5, <2>6
        <5>2. l.cids[j].seq < n + 1
          BY <5>1, <1>2
        <5> QED
          BY <5>1, <5>2, <2>5, <1>1 DEF Numbered
      <4> QED
        BY <4>1, <4>2
    <3> QED
      BY <3>1
  <2>9. Queued(c, l.fifo)
    <3>1. /\ l.fifo \in Seq(0 .. MaxPathId - 1) /\ Len(l.fifo) \in 0 .. LocalSize
          /\ \A j \in 1 .. LocalSize : l.cids[j].state = "pending" <=> j <= Len(l.fifo)
          /\ \A j \in 1 .. Len(l.fifo) : l.cids[j].seq = l.fifo[j]
      BY <1>2 DEF Queued
    <3>2. \A j \in 1 .. LocalSize : c[j].state = l.cids[j].state
      BY <2>2, <2>4
    <3>3. ~(i <= Len(l.fifo))
      BY <3>1
    <3>4. \A j \in 1 .. Len(l.fifo) : c[j] = l.cids[j]
      <4>1. \A j \in 1 .. Len(l.fifo) : j \in 1 .. LocalSize /\ j # i
        <5> HIDE <1>2
        <5>1. Len(l.fifo) \in 0 .. LocalSize /\ LocalSize \in Nat
          BY <3>1, LocalCidsAssumption
        <5> QED
          BY <5>1, <3>3
      <4> QED
        BY <4>1, <2>4
    <3>5. /\ \A j \in 1 .. LocalSize : c[j].state = "pending" <=> j <= Len(l.fifo)
          /\ \A j \in 1 .. Len(l.fifo) : c[j].seq = l.fifo[j]
      BY <3>1, <3>2, <3>4
    <3> QED
      BY <3>1, <3>5, QueuedIntro
  <2>10. PendingIsFifo(s)
    BY <2>5, <2>9, FifoIsQueued
  <2>11. /\ LocalInv(MarkPending(s, i)) /\ MarkPending(s, i).next = s.next
         /\ Issued(MarkPending(s, i)) = Issued(s) \cup {s.cids[i].seq}
         /\ Inflight(MarkPending(s, i)) = Inflight(s) \ {s.cids[i].seq}
    <3>1. s \in LocalSet /\ Distinct(s.cids) /\ s.cids[i].seq # NoSeq
      BY <2>2, <2>4, <2>5, <2>7, <1>2 DEF NoSeq
    <3> QED
      BY <3>1, <2>8, <2>10, MarkPendingProp
  <2>12. Issued(s) = Issued(l) /\ Inflight(s) = Inflight(l)
    <3>1. DOMAIN s.cids = 1 .. LocalSize
      BY <2>4, <2>5
    <3>2. ASSUME NEW x PROVE x \in Issued(s) <=> x \in Issued(l)
      <4>1. x \in Issued(s) <=> \E j \in 1 .. LocalSize : s.cids[j].state # "idle" /\ s.cids[j].seq = x
        BY <3>1 DEF Issued
      <4>2. x \in Issued(l) <=> \E j \in 1 .. LocalSize : l.cids[j].state # "idle" /\ l.cids[j].seq = x
        BY EntryNumbers
      <4> QED
        BY <4>1, <4>2, <2>2, <2>4, <2>5
    <3>3. ASSUME NEW x PROVE x \in Inflight(s) <=> x \in Inflight(l)
      <4>1. x \in Inflight(s) <=> \E j \in 1 .. LocalSize : s.cids[j].state = "inflight" /\ s.cids[j].seq = x
        BY DEF Inflight
      <4>2. x \in Inflight(l) <=> \E j \in 1 .. LocalSize : l.cids[j].state = "inflight" /\ l.cids[j].seq = x
        BY EntryNumbers
      <4> QED
        BY <4>1, <4>2, <2>2, <2>4, <2>5
    <3> QED
      BY <3>2, <3>3
  <2>13. n \notin Inflight(l) /\ s.cids[i].seq = n
    <3>1. n \notin 0 .. n - 1
      BY <1>2
    <3> QED
      BY <3>1, <2>2, <2>4, <2>5, EntryNumbers
  <2>14. Inflight(l) \ {n} = Inflight(l)
    BY <2>13
  <2> QED
    BY <2>1, <2>5, <2>11, <2>12, <2>13, <2>14
<1> QED
  BY <1>3, <1>4

(* quicly_local_cid_retire: the number is given up, and the entry gets the  *)
(* next one.                                                                *)
LEMMA RetireProp ==
    ASSUME NEW l, LocalInv(l), NEW q, q # NoSeq
    PROVE  /\ LocalInv(Retire(l, q)) /\ Inflight(Retire(l, q)) = Inflight(l) \ {q}
           /\ \/ Retire(l, q).next = l.next /\ Issued(Retire(l, q)) = Issued(l) \ {q}
              \/ /\ Retire(l, q).next = l.next + 1
                 /\ Issued(Retire(l, q)) = (Issued(l) \ {q}) \cup {l.next}
<1>1. CASE IndicesOf(l, q) = {}
  <2>1. Retire(l, q) = l
    BY <1>1 DEF Retire
  <2>2. q \notin Issued(l) /\ q \notin Inflight(l)
    BY <1>1, EntryNumbers
  <2> QED
    BY <2>1, <2>2
<1>2. CASE IndicesOf(l, q) # {}
  <2>1. PICK i \in 1 .. LocalSize :
              /\ (CHOOSE j \in IndicesOf(l, q) : TRUE) = i
              /\ l.cids[i].seq = q /\ l.cids[i].state # "idle"
              /\ \A j \in 1 .. LocalSize : l.cids[j].seq = q => j = i
    BY <1>2, FoundEntry
  <2> DEFINE e == [state |-> "idle", seq |-> NoSeq]
             c == [l.cids EXCEPT ![i] = e]
             d == MovedBehindPending(c, i)
             k == BehindPending(c, i)
             f == RemoveFirst(l.fifo, q)
             s == [cids |-> c, next |-> l.next, fifo |-> f]
             m == [l EXCEPT !.cids = d, !.fifo = f]
  <2>2. Retire(l, q) = Generate(m, k)
    BY <1>2, <2>1, Zenon DEF Retire
  <2>3. l \in LocalSet /\ Distinct(l.cids) /\ PendingIsFifo(l) /\ \A j \in 1 .. LocalSize : Numbered(l, j)
    BY DEF LocalInv
  <2>4. /\ LocalSize \in Nat \ {0} /\ Queued(l.cids, l.fifo) /\ l.cids \in [1 .. LocalSize -> LocalEntry]
    BY <2>3, FifoIsQueued DEF LocalSet
  <2>5. e \in LocalEntry /\ e.state = "idle" /\ e.seq = NoSeq
    BY LocalCidsAssumption DEF LocalEntry, NoSeq
  <2>6. c = [l.cids EXCEPT ![i] = e]
    OBVIOUS
  <2> HIDE DEF e, c
  <2>7. /\ c \in [1 .. LocalSize -> LocalEntry] /\ c[i] = e
        /\ \A j \in 1 .. LocalSize : j # i => c[j] = l.cids[j]
    BY <2>4, <2>5, <2>6, EntrySet
  <2>8. Distinct(c)
    BY <2>3, <2>5, <2>7 DEF Distinct
  <2>9. Rearranged(c, d) /\ Queued(d, f) /\ k \in 1 .. LocalSize /\ d[k] = c[i]
    <3>1. c[i].state # "pending" /\ SameBut(l.cids, c, i) /\ l.cids[i].seq # NoSeq
      BY <2>1, <2>5, <2>7 DEF SameBut
    <3>2. f = RemoveFirst(l.fifo, l.cids[i].seq)
      BY <2>1
    <3> HIDE DEF f
    <3> QED
      BY <3>1, <3>2, <2>3, <2>4, <2>7, <2>8, TakenOut
  <2> HIDE DEF d, f, k
  <2>10. m \in LocalSet /\ m.cids = d /\ m.fifo = f /\ m.next = l.next
    BY <2>3, <2>9 DEF LocalSet, Rearranged, Queued
  <2>11. s \in LocalSet /\ s.cids = c /\ s.next = l.next
    BY <2>3, <2>7, <2>9 DEF LocalSet, Queued
  <2> HIDE DEF s, m
  <2>12. \A j \in 1 .. LocalSize : Numbered(s, j)
    <3>1. ASSUME NEW j \in 1 .. LocalSize PROVE Numbered(s, j)
      <4>1. CASE j = i
        <5>1. NoSeq < l.next
          BY <2>3, LocalCidsAssumption DEF LocalSet, NoSeq
        <5> QED
          BY <4>1, <5>1, <2>5, <2>7, <2>11 DEF Numbered
      <4>2. CASE j # i
        BY <4>2, <2>3, <2>7, <2>11 DEF Numbered
      <4> QED
        BY <4>1, <4>2
    <3> QED
      BY <3>1
  <2>13. LocalInv(m) /\ Issued(m) = Issued(s) /\ Inflight(m) = Inflight(s)
    <3>1. m.next = s.next /\ Rearranged(s.cids, m.cids)
      BY <2>9, <2>10, <2>11
    <3>2. PendingIsFifo(m)
      BY <2>9, <2>10, FifoIsQueued
    <3> QED
      BY <3>1, <3>2, <2>10, <2>11, <2>12, RearrangedInv
  <2>14. Issued(s) = Issued(l) \ {q} /\ Inflight(s) = Inflight(l) \ {q}
    <3>1. DOMAIN s.cids = 1 .. LocalSize
      BY <2>7, <2>11
    <3>2. ASSUME NEW x PROVE x \in Issued(s) <=> x \in Issued(l) \ {q}
      <4>1. x \in Issued(s) <=> \E j \in 1 .. LocalSize : s.cids[j].state # "idle" /\ s.cids[j].seq = x
        BY <3>1 DEF Issued
      <4>2. x \in Issued(l) <=> \E j \in 1 .. LocalSize : l.cids[j].state # "idle" /\ l.cids[j].seq = x
        BY EntryNumbers
      <4> QED
        BY <4>1, <4>2, <2>1, <2>5, <2>7, <2>11
    <3>3. ASSUME NEW x PROVE x \in Inflight(s) <=> x \in Inflight(l) \ {q}
      <4>1. x \in Inflight(s) <=> \E j \in 1 .. LocalSize : s.cids[j].state = "inflight" /\ s.cids[j].seq = x
        BY DEF Inflight
      <4>2. x \in Inflight(l) <=> \E j \in 1 .. LocalSize : l.cids[j].state = "inflight" /\ l.cids[j].seq = x
        BY EntryNumbers
      <4> QED
        BY <4>1, <4>2, <2>1, <2>5, <2>7, <2>11
    <3> QED
      BY <3>2, <3>3
  <2>15. /\ LocalInv(Generate(m, k)) /\ Inflight(Generate(m, k)) = Inflight(m)
         /\ \/ m.next = MaxPathId /\ Generate(m, k) = m
            \/ /\ Generate(m, k).next = m.next + 1
               /\ Issued(Generate(m, k)) = Issued(m) \cup {m.next}
    <3>1. m.cids[k].state = "idle"
      BY <2>5, <2>7, <2>9, <2>10
    <3> QED
      BY <3>1, <2>9, <2>13, GenerateProp
  <2> QED
    BY <2>2, <2>10, <2>13, <2>14, <2>15
<1> QED
  BY <1>1, <1>2

(* The NEW_CONNECTION_ID frames of a packet are acknowledged: their numbers are not in flight any more.  *)
LEMMA OnAckedInTurnProp ==
    ASSUME NEW l, LocalInv(l), NEW qs \in Seq(0 .. MaxPathId - 1)
    PROVE  /\ LocalInv(AckedInTurn(l, qs)[Len(qs)]) /\ AckedInTurn(l, qs)[Len(qs)].next = l.next
           /\ Issued(AckedInTurn(l, qs)[Len(qs)]) = Issued(l)
           /\ \A x : x \in Inflight(AckedInTurn(l, qs)[Len(qs)]) <=>
                 x \in Inflight(l) /\ \A j \in 1 .. Len(qs) : qs[j] # x
<1> DEFINE n == Len(qs)
           g == AckedInTurn(l, qs)
           S == {s \in LocalSet : LocalInv(s) /\ s.next = l.next /\ Issued(s) = Issued(l)}
           F == [x \in S \X (1 .. n) |-> OnAcked(x[1], qs[x[2]])]
<1>1. n \in Nat /\ l \in S
  BY DEF LocalInv
<1>2. ASSUME NEW k \in 1 .. n PROVE qs[k] # NoSeq
  <2>1. qs[k] \in 0 .. MaxPathId - 1
    BY SeqElement
  <2> QED
    BY <2>1, LocalCidsAssumption DEF NoSeq
<1>3. ASSUME NEW s \in S, NEW k \in 1 .. n
      PROVE  /\ OnAcked(s, qs[k]) \in S
             /\ Inflight(OnAcked(s, qs[k])) = Inflight(s) \ {qs[k]}
  BY <1>2, OnAckedProp DEF LocalInv
<1>4. ASSUME NEW s \in S, NEW k \in 1 .. n PROVE F[<<s, k>>] = OnAcked(s, qs[k])
  OBVIOUS
<1> HIDE DEF S, F, n
<1>5. PICK f \in [0 .. n -> S] : f[0] = l /\ \A k \in 1 .. n : f[k] = F[<<f[k - 1], k>>]
  <2>1. StaysIn(F, S, n)
    BY <1>3, <1>4 DEF StaysIn
  <2>2. \E f \in [0 .. n -> S] : Repeats(f, F, l, n)
    BY <1>1, <2>1, Recursion
  <2> QED
    BY <2>2 DEF Repeats
<1>6. f = [k \in 0 .. n |-> IF k = 0 THEN l ELSE OnAcked(f[k - 1], qs[k])]
  <2>1. ASSUME NEW k \in 0 .. n PROVE f[k] = IF k = 0 THEN l ELSE OnAcked(f[k - 1], qs[k])
    <3>1. CASE k = 0
      BY <3>1, <1>5
    <3>2. CASE k # 0
      <4>1. k \in 1 .. n /\ k - 1 \in 0 .. n
        BY <3>2, <1>1
      <4> QED
        BY <4>1, <3>2, <1>4, <1>5
    <3> QED
      BY <3>1, <3>2
  <2>2. f = [k \in 0 .. n |-> f[k]]
    BY <1>5
  <2> QED
    BY <2>1, <2>2, Zenon
<1>7. g = [k \in 0 .. n |-> IF k = 0 THEN l ELSE OnAcked(g[k - 1], qs[k])]
  BY <1>6 DEF AckedInTurn, n
<1> HIDE DEF g
<1>8. g[0] = l
  BY <1>1, <1>7
<1>9. \A k \in 1 .. n : g[k] = OnAcked(g[k - 1], qs[k])
  BY <1>1, <1>7
<1> DEFINE T == {k \in 0 .. n : g[k] \in S /\ \A x : x \in Inflight(g[k]) <=>
                                 x \in Inflight(l) /\ \A j \in 1 .. k : qs[j] # x}
<1>10. 0 \in T
  BY <1>1, <1>8
<1>11. ASSUME NEW k \in 0 .. n - 1, k \in T PROVE k + 1 \in T
  <2>1. g[k] \in S /\ k + 1 \in 1 .. n /\ k + 1 \in 0 .. n
    BY <1>1, <1>11
  <2>2. g[k + 1] = OnAcked(g[k], qs[k + 1])
    BY <2>1, <1>1, <1>9
  <2>3. g[k + 1] \in S /\ Inflight(g[k + 1]) = Inflight(g[k]) \ {qs[k + 1]}
    BY <2>1, <2>2, <1>3
  <2>4. ASSUME NEW x
        PROVE  x \in Inflight(g[k + 1]) <=> x \in Inflight(l) /\ \A j \in 1 .. k + 1 : qs[j] # x
    <3>1. x \in Inflight(g[k]) <=> x \in Inflight(l) /\ \A j \in 1 .. k : qs[j] # x
      BY <1>11
    <3>2. (\A j \in 1 .. k + 1 : qs[j] # x) <=> (\A j \in 1 .. k : qs[j] # x) /\ qs[k + 1] # x
      BY <1>1
    <3> QED
      BY <2>3, <3>1, <3>2
  <2> QED
    BY <2>1, <2>3, <2>4
<1>12. n \in T
  <2> HIDE DEF T
  <2>1. \A k \in 0 .. n : k \in T
    BY <1>1, <1>10, <1>11, SetInduction
  <2> QED
    BY <2>1, <1>1
<1> QED
  BY <1>12 DEF S, n, g

(* The NEW_CONNECTION_ID frames of a packet are lost. *)
LEMMA OnLostInTurnProp ==
    ASSUME NEW l, LocalInv(l), NEW qs \in Seq(0 .. MaxPathId - 1)
    PROVE  /\ LocalInv(LostInTurn(l, qs)[Len(qs)]) /\ LostInTurn(l, qs)[Len(qs)].next = l.next
           /\ Issued(LostInTurn(l, qs)[Len(qs)]) = Issued(l)
           /\ \A x : x \in Inflight(LostInTurn(l, qs)[Len(qs)]) <=>
                 x \in Inflight(l) /\ \A j \in 1 .. Len(qs) : qs[j] # x
<1> DEFINE n == Len(qs)
           g == LostInTurn(l, qs)
           S == {s \in LocalSet : LocalInv(s) /\ s.next = l.next /\ Issued(s) = Issued(l)}
           F == [x \in S \X (1 .. n) |-> OnLost(x[1], qs[x[2]])]
<1>1. n \in Nat /\ l \in S
  BY DEF LocalInv
<1>2. ASSUME NEW k \in 1 .. n PROVE qs[k] # NoSeq
  <2>1. qs[k] \in 0 .. MaxPathId - 1
    BY SeqElement
  <2> QED
    BY <2>1, LocalCidsAssumption DEF NoSeq
<1>3. ASSUME NEW s \in S, NEW k \in 1 .. n
      PROVE  /\ OnLost(s, qs[k]) \in S
             /\ Inflight(OnLost(s, qs[k])) = Inflight(s) \ {qs[k]}
  BY <1>2, OnLostProp DEF LocalInv
<1>4. ASSUME NEW s \in S, NEW k \in 1 .. n PROVE F[<<s, k>>] = OnLost(s, qs[k])
  OBVIOUS
<1> HIDE DEF S, F, n
<1>5. PICK f \in [0 .. n -> S] : f[0] = l /\ \A k \in 1 .. n : f[k] = F[<<f[k - 1], k>>]
  <2>1. StaysIn(F, S, n)
    BY <1>3, <1>4 DEF StaysIn
  <2>2. \E f \in [0 .. n -> S] : Repeats(f, F, l, n)
    BY <1>1, <2>1, Recursion
  <2> QED
    BY <2>2 DEF Repeats
<1>6. f = [k \in 0 .. n |-> IF k = 0 THEN l ELSE OnLost(f[k - 1], qs[k])]
  <2>1. ASSUME NEW k \in 0 .. n PROVE f[k] = IF k = 0 THEN l ELSE OnLost(f[k - 1], qs[k])
    <3>1. CASE k = 0
      BY <3>1, <1>5
    <3>2. CASE k # 0
      <4>1. k \in 1 .. n /\ k - 1 \in 0 .. n
        BY <3>2, <1>1
      <4> QED
        BY <4>1, <3>2, <1>4, <1>5
    <3> QED
      BY <3>1, <3>2
  <2>2. f = [k \in 0 .. n |-> f[k]]
    BY <1>5
  <2> QED
    BY <2>1, <2>2, Zenon
<1>7. g = [k \in 0 .. n |-> IF k = 0 THEN l ELSE OnLost(g[k - 1], qs[k])]
  BY <1>6 DEF LostInTurn, n
<1> HIDE DEF g
<1>8. g[0] = l
  BY <1>1, <1>7
<1>9. \A k \in 1 .. n : g[k] = OnLost(g[k - 1], qs[k])
  BY <1>1, <1>7
<1> DEFINE T == {k \in 0 .. n : g[k] \in S /\ \A x : x \in Inflight(g[k]) <=>
                                 x \in Inflight(l) /\ \A j \in 1 .. k : qs[j] # x}
<1>10. 0 \in T
  BY <1>1, <1>8
<1>11. ASSUME NEW k \in 0 .. n - 1, k \in T PROVE k + 1 \in T
  <2>1. g[k] \in S /\ k + 1 \in 1 .. n /\ k + 1 \in 0 .. n
    BY <1>1, <1>11
  <2>2. g[k + 1] = OnLost(g[k], qs[k + 1])
    BY <2>1, <1>1, <1>9
  <2>3. g[k + 1] \in S /\ Inflight(g[k + 1]) = Inflight(g[k]) \ {qs[k + 1]}
    BY <2>1, <2>2, <1>3
  <2>4. ASSUME NEW x
        PROVE  x \in Inflight(g[k + 1]) <=> x \in Inflight(l) /\ \A j \in 1 .. k + 1 : qs[j] # x
    <3>1. x \in Inflight(g[k]) <=> x \in Inflight(l) /\ \A j \in 1 .. k : qs[j] # x
      BY <1>11
    <3>2. (\A j \in 1 .. k + 1 : qs[j] # x) <=> (\A j \in 1 .. k : qs[j] # x) /\ qs[k + 1] # x
      BY <1>1
    <3> QED
      BY <2>3, <3>1, <3>2
  <2> QED
    BY <2>1, <2>3, <2>4
<1>12. n \in T
  <2> HIDE DEF T
  <2>1. \A k \in 0 .. n : k \in T
    BY <1>1, <1>10, <1>11, SetInduction
  <2> QED
    BY <2>1, <1>1
<1> QED
  BY <1>12 DEF S, n, g

LEMMA SubSeqTail ==
    ASSUME NEW S, NEW s \in Seq(S), NEW n \in 1 .. Len(s)
    PROVE  /\ SubSeq(s, n + 1, Len(s)) \in Seq(S) /\ Len(SubSeq(s, n + 1, Len(s))) = Len(s) - n
           /\ \A j \in 1 .. Len(s) - n : SubSeq(s, n + 1, Len(s))[j] = s[j + n]
OBVIOUS

(* The entries from n + 1 to k were not sent, and are pending. *)
Remaining(c, n, k) == n + 1 .. k \subseteq PendingAt(c)

(* The entries after the swaps with which what remains pending moves to the *)
(* front.                                                                   *)
LEMMA MovedToFrontDef ==
    ASSUME NEW c \in [1 .. LocalSize -> LocalEntry], NEW n \in 1 .. LocalSize
    PROVE  /\ \A k \in 0 .. n : MovedToFront(c, n)[k] = c
           /\ \A k \in n + 1 .. LocalSize : Remaining(c, n, k) =>
                 MovedToFront(c, n)[k] = Swap(MovedToFront(c, n)[k - 1], k, k - n)
           /\ \A k \in n + 1 .. LocalSize : ~Remaining(c, n, k) =>
                 MovedToFront(c, n)[k] = MovedToFront(c, n)[k - 1]
<1> DEFINE S == [1 .. LocalSize -> LocalEntry]
           Op(d, k) == IF k <= n THEN c ELSE IF Remaining(c, n, k) THEN Swap(d, k, k - n) ELSE d
           F == [x \in S \X (1 .. LocalSize) |-> Op(x[1], x[2])]
           g == MovedToFront(c, n)
<1>1. LocalSize \in Nat \ {0} /\ c \in S
  BY LocalCidsAssumption
<1>2. ASSUME NEW d \in S, NEW k \in 1 .. LocalSize PROVE Op(d, k) \in S
  <2>1. CASE k <= n
    BY <2>1
  <2>2. CASE ~(k <= n)
    <3>1. k - n \in 1 .. LocalSize
      BY <2>2, <1>1
    <3>2. Swap(d, k, k - n) \in S
      BY <3>1 DEF Swap
    <3> QED
      BY <3>2
  <2> QED
    BY <2>1, <2>2
<1>3. ASSUME NEW d \in S, NEW k \in 1 .. LocalSize PROVE F[<<d, k>>] = Op(d, k)
  OBVIOUS
<1> HIDE DEF S, F, Op
<1>4. PICK f \in [0 .. LocalSize -> S] : Repeats(f, F, c, LocalSize)
  <2>1. StaysIn(F, S, LocalSize)
    BY <1>2, <1>3 DEF StaysIn
  <2> QED
    BY <1>1, <2>1, Recursion
<1>5. ASSUME NEW k \in 0 .. LocalSize
      PROVE  f[k] = IF k <= n THEN c
                    ELSE IF Remaining(c, n, k) THEN Swap(f[k - 1], k, k - n)
                    ELSE f[k - 1]
  <2>1. CASE k = 0
    BY <2>1, <1>4 DEF Repeats
  <2>2. CASE k # 0
    <3>1. k \in 1 .. LocalSize /\ k - 1 \in 0 .. LocalSize
      BY <2>2, <1>1
    <3>2. f[k] = Op(f[k - 1], k)
      BY <3>1, <1>3, <1>4 DEF Repeats
    <3> QED
      BY <3>2 DEF Op
  <2> QED
    BY <2>1, <2>2
<1>6. f = [k \in 0 .. LocalSize |-> IF k <= n THEN c
                                    ELSE IF Remaining(c, n, k) THEN Swap(f[k - 1], k, k - n)
                                    ELSE f[k - 1]]
  <2>1. f = [k \in 0 .. LocalSize |-> f[k]]
    BY <1>4
  <2> QED
    BY <2>1, <1>5, Zenon
<1>7. g = [k \in 0 .. LocalSize |-> IF k <= n THEN c
                                    ELSE IF Remaining(c, n, k) THEN Swap(g[k - 1], k, k - n)
                                    ELSE g[k - 1]]
  BY <1>6 DEF MovedToFront, Remaining
<1> HIDE DEF g
<1>8. \A k \in 0 .. LocalSize : g[k] = IF k <= n THEN c
                                       ELSE IF Remaining(c, n, k) THEN Swap(g[k - 1], k, k - n)
                                       ELSE g[k - 1]
  BY <1>7
<1>9. \A k \in 0 .. n : g[k] = c
  BY <1>1, <1>8
<1>10. ASSUME NEW k \in n + 1 .. LocalSize
       PROVE  /\ Remaining(c, n, k) => g[k] = Swap(g[k - 1], k, k - n)
              /\ ~Remaining(c, n, k) => g[k] = g[k - 1]
  <2>1. k \in 0 .. LocalSize /\ ~(k <= n) 
    BY <1>1
  <2> QED
    BY <2>1, <1>8
<1> QED
  BY <1>9, <1>10 DEF g

(* How far the swaps have come at entry k: the first k - n entries are the  *)
(* ones that were n places behind, those that were sent follow, and the     *)
(* rest is as before.                                                       *)
Shifted(c, d, n, k) ==
    /\ Rearranged(c, d)
    /\ \A j \in 1 .. k - n : d[j] = c[j + n]
    /\ \A j \in k - n + 1 .. k : d[j].state = "inflight"
    /\ \A j \in k + 1 .. LocalSize : d[j] = c[j]

LEMMA ShiftStep ==
    ASSUME NEW c, NEW d, NEW n \in 1 .. LocalSize, NEW i \in n + 1 .. LocalSize,
           Shifted(c, d, n, i - 1)
    PROVE  Shifted(c, Swap(d, i, i - n), n, i)
<1> DEFINE b == i - n
           e == Swap(d, i, b)
<1>1. LocalSize \in Nat \ {0} /\ b \in 1 .. LocalSize /\ i \in 1 .. LocalSize
  BY LocalCidsAssumption
<1>2. d \in [1 .. LocalSize -> LocalEntry] /\ Distinct(d)
  BY DEF Shifted, Rearranged
<1>3. /\ \A j \in 1 .. i - 1 - n : d[j] = c[j + n]
      /\ \A j \in i - 1 - n + 1 .. i - 1 : d[j].state = "inflight"
      /\ \A j \in i - 1 + 1 .. LocalSize : d[j] = c[j]
  BY DEF Shifted
<1> HIDE DEF b
<1>4. /\ Rearranged(d, e) /\ e[i] = d[b] /\ e[b] = d[i]
      /\ \A j \in 1 .. LocalSize : j # i /\ j # b => e[j] = d[j]
  BY <1>1, <1>2, SwapRearranges
<1> HIDE DEF e
<1>5. Rearranged(c, e)
  BY <1>4, RearrangedTwice DEF Shifted
<1>6. ASSUME NEW j \in 1 .. i - n PROVE e[j] = c[j + n]
  <2>1. CASE j = b
    <3>1. d[i] = c[i] /\ j + n = i
      BY <2>1, <1>1, <1>3 DEF b
    <3> QED
      BY <3>1, <2>1, <1>4
  <2>2. CASE j # b
    <3>1. j \in 1 .. i - 1 - n /\ j \in 1 .. LocalSize /\ j # i
      BY <2>2, <1>1 DEF b
    <3>2. e[j] = d[j]
      BY <3>1, <2>2, <1>4
    <3> QED
      BY <3>1, <3>2, <1>3
  <2> QED
    BY <2>1, <2>2
<1>7. ASSUME NEW j \in i - n + 1 .. i PROVE e[j].state = "inflight"
  <2>1. CASE j = i
    <3>1. b \in i - 1 - n + 1 .. i - 1
      BY <1>1 DEF b
    <3> QED
      BY <3>1, <2>1, <1>3, <1>4
  <2>2. CASE j # i
    <3>1. j \in i - 1 - n + 1 .. i - 1 /\ j \in 1 .. LocalSize /\ j # b
      BY <2>2, <1>1 DEF b
    <3>2. e[j] = d[j]
      BY <3>1, <2>2, <1>4
    <3> QED
      BY <3>1, <3>2, <1>3
  <2> QED
    BY <2>1, <2>2
<1>8. ASSUME NEW j \in i + 1 .. LocalSize PROVE e[j] = c[j]
  <2>1. j \in i - 1 + 1 .. LocalSize /\ j \in 1 .. LocalSize /\ j # i /\ j # b
    BY <1>1 DEF b
  <2>2. e[j] = d[j]
    BY <2>1, <1>4
  <2> QED
    BY <2>1, <2>2, <1>3
<1>9. Shifted(c, e, n, i)
  BY <1>5, <1>6, <1>7, <1>8, Zenon DEF Shifted
<1> QED
  BY <1>9 DEF e, b

LEMMA MovedToFrontShifts ==
    ASSUME NEW c \in [1 .. LocalSize -> LocalEntry], Distinct(c),
           NEW p \in 1 .. LocalSize, NEW n \in 1 .. p,
           \A j \in 1 .. n : c[j].state = "inflight",
           \A j \in n + 1 .. LocalSize : c[j].state = "pending" <=> j <= p
    PROVE  Shifted(c, MovedToFront(c, n)[LocalSize], n, p)
<1> DEFINE g == MovedToFront(c, n)
<1>1. LocalSize \in Nat \ {0} /\ n \in 1 .. LocalSize
  BY LocalCidsAssumption
<1>2. /\ \A k \in 0 .. n : g[k] = c
      /\ \A k \in n + 1 .. LocalSize : Remaining(c, n, k) => g[k] = Swap(g[k - 1], k, k - n)
      /\ \A k \in n + 1 .. LocalSize : ~Remaining(c, n, k) => g[k] = g[k - 1]
  BY <1>1, MovedToFrontDef
<1> HIDE DEF g
<1> DEFINE T == {k \in 0 .. p - n : Shifted(c, g[k + n], n, k + n)}
           U == {k \in 0 .. LocalSize - p : g[k + p] = g[p]}
<1>3. 0 \in T
  <2>1. g[n] = c
    BY <1>1, <1>2
  <2>2. Rearranged(c, c)
    BY DEF Rearranged
  <2>3. Shifted(c, c, n, n)
    BY <2>2, <1>1 DEF Shifted
  <2> QED
    BY <2>1, <2>3, <1>1
<1>4. ASSUME NEW k \in 0 .. p - n - 1, k \in T PROVE k + 1 \in T
  <2>1. /\ k + 1 + n \in n + 1 .. LocalSize /\ k + 1 + n <= p /\ (k + 1 + n) - 1 = k + n
        /\ k + 1 \in 0 .. p - n
    BY <1>1
  <2>2. Shifted(c, g[k + n], n, (k + 1 + n) - 1)
    BY <2>1, <1>4
  <2>3. g[k + 1 + n] = Swap(g[k + n], k + 1 + n, (k + 1 + n) - n)
    <3>1. Remaining(c, n, k + 1 + n)
      <4>1. \A j \in n + 1 .. k + 1 + n : j \in n + 1 .. LocalSize /\ j \in 1 .. LocalSize /\ j <= p
        BY <2>1, <1>1
      <4> QED
        BY <4>1 DEF Remaining, PendingAt
    <3> QED
      BY <3>1, <2>1, <1>2
  <2>4. Shifted(c, g[k + 1 + n], n, k + 1 + n)
    BY <2>1, <2>2, <2>3, <1>1, ShiftStep
  <2> QED
    BY <2>1, <2>4
<1>5. Shifted(c, g[p], n, p)
  <2>1. \A k \in 0 .. p - n - 1 : k \in T => k + 1 \in T
    BY <1>4
  <2>2. p - n \in Nat /\ (p - n) + n = p
    BY <1>1
  <2>3. p - n \in T
    <3> HIDE DEF T
    <3>1. \A k \in 0 .. p - n : k \in T
      BY <1>3, <2>1, <2>2, SetInduction
    <3> QED
      BY <3>1, <2>2
  <2> QED
    BY <2>2, <2>3
<1>6. g[LocalSize] = g[p]
  <2>1. 0 \in U
    BY <1>1
  <2>2. ASSUME NEW k \in 0 .. LocalSize - p - 1, k \in U PROVE k + 1 \in U
    <3>1. k + 1 + p \in n + 1 .. LocalSize /\ ~(k + 1 + p <= p) /\ (k + 1 + p) - 1 = k + p
          /\ k + 1 \in 0 .. LocalSize - p
      BY <1>1
    <3>2. ~Remaining(c, n, k + 1 + p)
      <4>1. k + 1 + p \in n + 1 .. k + 1 + p
        BY <3>1
      <4> QED
        BY <4>1, <3>1 DEF Remaining, PendingAt
    <3>3. g[k + 1 + p] = g[k + p]
      BY <3>1, <3>2, <1>2
    <3> QED
      BY <3>1, <3>3, <2>2
  <2>3. LocalSize - p \in Nat /\ (LocalSize - p) + p = LocalSize
    BY <1>1
  <2>4. LocalSize - p \in U
    <3> HIDE DEF U
    <3>1. \A k \in 0 .. LocalSize - p : k \in U
      BY <2>1, <2>2, <2>3, SetInduction
    <3> QED
      BY <3>1, <2>3
  <2> QED
    BY <2>3, <2>4
<1> QED
  BY <1>5, <1>6 DEF g

(* quicly_local_cid_on_sent: the first n entries are in flight, and what    *)
(* remains pending comes first again, in its order.                         *)
LEMMA OnSentProp ==
    ASSUME NEW l, LocalInv(l), NEW n \in 1 .. Len(l.fifo)
    PROVE  /\ LocalInv(OnSent(l, n)) /\ OnSent(l, n).next = l.next /\ Issued(OnSent(l, n)) = Issued(l)
           /\ \A x : x \in Inflight(OnSent(l, n)) <=>
                 x \in Inflight(l) \/ \E j \in 1 .. n : l.cids[j].seq = x
<1> DEFINE p == Len(l.fifo)
           c == [i \in DOMAIN l.cids |-> IF i <= n THEN [l.cids[i] EXCEPT !.state = "inflight"] ELSE l.cids[i]]
           d == MovedToFront(c, n)[LocalSize]
           f == SubSeq(l.fifo, n + 1, Len(l.fifo))
           s == [cids |-> c, next |-> l.next, fifo |-> f]
           m == OnSent(l, n)
<1>1. l \in LocalSet /\ Distinct(l.cids) /\ PendingIsFifo(l) /\ \A j \in 1 .. LocalSize : Numbered(l, j)
  BY DEF LocalInv
<1>2. /\ LocalSize \in Nat \ {0} /\ DOMAIN l.cids = 1 .. LocalSize /\ Queued(l.cids, l.fifo)
      /\ \A j \in 1 .. LocalSize : l.cids[j] \in LocalEntry
  BY <1>1, FifoIsQueued
<1>3. /\ l.fifo \in Seq(0 .. MaxPathId - 1) /\ p \in 1 .. LocalSize /\ n \in 1 .. p /\ n \in 1 .. LocalSize
      /\ \A j \in 1 .. LocalSize : l.cids[j].state = "pending" <=> j <= p
      /\ \A j \in 1 .. p : l.cids[j].seq = l.fifo[j]
  BY <1>2 DEF Queued
<1>4. m = [l EXCEPT !.cids = d, !.fifo = f]
  BY <1>1 DEF OnSent, LocalSet
<1>5. /\ \A i \in 1 .. LocalSize : i <= n => c[i] = [l.cids[i] EXCEPT !.state = "inflight"]
      /\ \A i \in 1 .. LocalSize : ~(i <= n) => c[i] = l.cids[i]
      /\ DOMAIN c = 1 .. LocalSize /\ c = [i \in 1 .. LocalSize |-> c[i]]
  BY <1>2
<1> HIDE DEF c
<1>6. ASSUME NEW i \in 1 .. LocalSize
      PROVE  /\ c[i] \in LocalEntry /\ c[i].seq = l.cids[i].seq
             /\ i <= n => c[i].state = "inflight"
             /\ ~(i <= n) => c[i].state = l.cids[i].state
  <2>1. l.cids[i] \in LocalEntry
    BY <1>2
  <2>2. CASE i <= n
    BY <2>1, <2>2, <1>5 DEF LocalEntry
  <2>3. CASE ~(i <= n)
    BY <2>1, <2>3, <1>5
  <2> QED
    BY <2>2, <2>3
<1>7. c \in [1 .. LocalSize -> LocalEntry]
  BY <1>5, <1>6
<1>8. Distinct(c)
  BY <1>1, <1>6 DEF Distinct
<1>9. Shifted(c, d, n, p)
  <2>1. \A j \in 1 .. n : c[j].state = "inflight"
    <3>1. \A j \in 1 .. n : j \in 1 .. LocalSize /\ j <= n
      BY <1>2, <1>3
    <3> QED
      BY <3>1, <1>6
  <2>2. \A j \in n + 1 .. LocalSize : c[j].state = "pending" <=> j <= p
    <3>1. \A j \in n + 1 .. LocalSize : j \in 1 .. LocalSize /\ ~(j <= n)
      BY <1>2, <1>3
    <3> QED
      BY <3>1, <1>3, <1>6
  <2> HIDE DEF p
  <2> QED
    BY <2>1, <2>2, <1>3, <1>7, <1>8, MovedToFrontShifts
<1> HIDE DEF d, m
<1>10. /\ Rearranged(c, d)
       /\ \A j \in 1 .. p - n : d[j] = c[j + n]
       /\ \A j \in p - n + 1 .. p : d[j].state = "inflight"
       /\ \A j \in p + 1 .. LocalSize : d[j] = c[j]
  BY <1>9 DEF Shifted
<1>11. f \in Seq(0 .. MaxPathId - 1) /\ Len(f) = p - n /\ \A j \in 1 .. p - n : f[j] = l.fifo[j + n]
  BY <1>3, SubSeqTail
<1> HIDE DEF f
<1>12. Queued(d, f)
  <2>1. ASSUME NEW j \in 1 .. LocalSize PROVE d[j].state = "pending" <=> j <= p - n
    <3>1. CASE j <= p - n
      <4>1. d[j] = c[j + n] /\ j + n \in 1 .. LocalSize /\ ~(j + n <= n) /\ j + n <= p
        BY <3>1, <1>2, <1>3, <1>10
      <4>2. c[j + n].state = "pending"
        BY <4>1, <1>3, <1>6
      <4> QED
        BY <4>1, <4>2, <3>1
    <3>2. CASE j \in p - n + 1 .. p
      <4>1. d[j].state = "inflight" /\ ~(j <= p - n)
        BY <3>2, <1>2, <1>3, <1>10
      <4> QED
        BY <4>1
    <3>3. CASE j > p
      <4>1. d[j] = c[j] /\ ~(j <= n) /\ ~(j <= p) /\ ~(j <= p - n)
        BY <3>3, <1>2, <1>3, <1>10
      <4>2. c[j].state # "pending"
        BY <4>1, <1>3, <1>6
      <4> QED
        BY <4>1, <4>2
    <3> QED
      BY <3>1, <3>2, <3>3, <1>2, <1>3
  <2>2. ASSUME NEW j \in 1 .. p - n PROVE d[j].seq = f[j]
    <3>1. d[j] = c[j + n] /\ j + n \in 1 .. LocalSize /\ j + n \in 1 .. p
      BY <1>2, <1>3, <1>10
    <3>2. c[j + n].seq = l.fifo[j + n] /\ f[j] = l.fifo[j + n]
      BY <3>1, <1>3, <1>6, <1>11
    <3> QED
      BY <3>1, <3>2
  <2>3. p - n \in 0 .. LocalSize
    BY <1>2, <1>3
  <2> QED
    BY <2>1, <2>2, <2>3, <1>11, QueuedIntro
<1>13. m \in LocalSet /\ m.cids = d /\ m.fifo = f /\ m.next = l.next
  BY <1>1, <1>4, <1>10, <1>11 DEF LocalSet, Rearranged
<1>14. s \in LocalSet /\ s.cids = c /\ s.next = l.next
  BY <1>1, <1>7, <1>11 DEF LocalSet
<1> HIDE DEF s
<1>15. \A j \in 1 .. LocalSize : Numbered(s, j)
  <2>1. ASSUME NEW j \in 1 .. LocalSize PROVE Numbered(s, j)
    <3>1. c[j].state = "idle" <=> l.cids[j].state = "idle"
      BY <1>3, <1>6
    <3> QED
      BY <3>1, <1>1, <1>6, <1>14 DEF Numbered
  <2> QED
    BY <2>1
<1>16. LocalInv(m) /\ Issued(m) = Issued(s) /\ Inflight(m) = Inflight(s)
  <2>1. m.next = s.next /\ Rearranged(s.cids, m.cids)
    BY <1>10, <1>13, <1>14
  <2>2. PendingIsFifo(m)
    BY <1>12, <1>13, FifoIsQueued
  <2> QED
    BY <2>1, <2>2, <1>13, <1>14, <1>15, RearrangedInv
<1>17. DOMAIN s.cids = 1 .. LocalSize
  BY <1>7, <1>14
<1>18. Issued(s) = Issued(l)
  <2>1. ASSUME NEW x PROVE x \in Issued(s) <=> x \in Issued(l)
    <3>1. x \in Issued(s) <=> \E j \in 1 .. LocalSize : s.cids[j].state # "idle" /\ s.cids[j].seq = x
      BY <1>17 DEF Issued
    <3>2. x \in Issued(l) <=> \E j \in 1 .. LocalSize : l.cids[j].state # "idle" /\ l.cids[j].seq = x
      BY EntryNumbers
    <3>3. \A j \in 1 .. LocalSize : s.cids[j].state # "idle" <=> l.cids[j].state # "idle"
      BY <1>3, <1>6, <1>14
    <3>4. \A j \in 1 .. LocalSize : s.cids[j].seq = l.cids[j].seq
      BY <1>6, <1>14
    <3> HIDE <1>1, <1>2
    <3> QED
      BY <3>1, <3>2, <3>3, <3>4
  <2> QED
    BY <2>1
<1>19. ASSUME NEW x
       PROVE  x \in Inflight(s) <=> x \in Inflight(l) \/ \E j \in 1 .. n : l.cids[j].seq = x
  <2>1. x \in Inflight(s) <=> \E j \in 1 .. LocalSize : s.cids[j].state = "inflight" /\ s.cids[j].seq = x
    BY DEF Inflight
  <2>2. x \in Inflight(l) <=> \E j \in 1 .. LocalSize : l.cids[j].state = "inflight" /\ l.cids[j].seq = x
    BY EntryNumbers
  <2>3. \A j \in 1 .. LocalSize : s.cids[j].seq = l.cids[j].seq
    BY <1>6, <1>14
  <2>4. \A j \in 1 .. LocalSize : s.cids[j].state = "inflight" <=> l.cids[j].state = "inflight" \/ j <= n
    BY <1>6, <1>14
  <2>5. \A j \in 1 .. LocalSize : j <= n <=> j \in 1 .. n
    BY <1>2, <1>3
  <2>6. \A j \in 1 .. n : j \in 1 .. LocalSize
    BY <1>2, <1>3
  <2> QED
    BY <2>1, <2>2, <2>3, <2>4, <2>5, <2>6, Zenon
<1> QED
  BY <1>13, <1>16, <1>18, <1>19 DEF m

(* What is behind entry i stays where it is. *)
LEMMA GenerateKeeps ==
    ASSUME NEW l \in LocalSet, NEW i \in 1 .. LocalSize
    PROVE  \A j \in i + 1 .. LocalSize : Generate(l, i).cids[j] = l.cids[j]
<1>1. LocalSize \in Nat \ {0}
  BY LocalCidsAssumption
<1>2. CASE l.next >= MaxPathId
  BY <1>2 DEF Generate
<1>3. CASE ~(l.next >= MaxPathId)
  <2> DEFINE s == [l EXCEPT !.cids[i].seq = l.next, !.next = @ + 1]
             c == [s.cids EXCEPT ![i].state = "pending"]
             rest == (1 .. i - 1) \ PendingAt(c)
             k == CHOOSE j \in rest : \A x \in rest : j <= x
             d == IF rest = {} THEN c ELSE Swap(c, i, k)
  <2>1. Generate(l, i) = MarkPending(s, i)
    BY <1>3, Zenon DEF Generate
  <2>2. s.cids = [l.cids EXCEPT ![i].seq = l.next] /\ s = [s EXCEPT !.cids = s.cids]
    BY DEF LocalSet
  <2>3. DOMAIN c = 1 .. LocalSize /\ \A j \in i + 1 .. LocalSize : c[j] = l.cids[j]
    <3>1. DOMAIN l.cids = 1 .. LocalSize
      BY DEF LocalSet
    <3>2. \A j \in 1 .. LocalSize : j # i => c[j] = l.cids[j]
      BY <2>2, <3>1
    <3>3. \A j \in i + 1 .. LocalSize : j \in 1 .. LocalSize /\ j # i
      BY <1>1
    <3>4. DOMAIN c = 1 .. LocalSize
      BY <2>2, <3>1
    <3> HIDE DEF c
    <3> QED
      BY <3>2, <3>3, <3>4
  <2>4. MarkPending(s, i) = [s EXCEPT !.cids = d, !.fifo = IF Contains(@, c[i].seq) THEN @ ELSE Append(@, c[i].seq)]
    BY Zenon DEF MarkPending
  <2>5. MarkPending(s, i).cids = d
    <3>1. DOMAIN s = {"cids", "next", "fifo"}
      BY DEF LocalSet
    <3> HIDE DEF s, c, d
    <3> QED
      BY <2>4, <3>1
  <2>6. ASSUME NEW j \in i + 1 .. LocalSize PROVE d[j] = l.cids[j]
    <3>1. CASE rest = {}
      BY <3>1, <2>3
    <3>2. CASE rest # {}
      <4>1. \E x \in rest : \A y \in rest : x <= y
        <5>1. rest \subseteq Nat
          BY <1>1
        <5> HIDE DEF rest
        <5> QED
          BY <5>1, <3>2, LeastElement
      <4>2. k \in rest
        <5> HIDE DEF rest
        <5> QED
          BY <4>1
      <4>3. k \in 1 .. LocalSize /\ k # j /\ j # i /\ j \in 1 .. LocalSize
        <5>1. k \in 1 .. i - 1
          <6> HIDE DEF k, c
          <6> QED
            BY <4>2
        <5> HIDE DEF k
        <5> QED
          BY <5>1, <1>1
      <4> HIDE DEF k, c, rest
      <4>4. Swap(c, i, k)[j] = c[j]
        BY <4>3, <2>3 DEF Swap
      <4> QED
        BY <4>4, <3>2, <2>3
    <3> QED
      BY <3>1, <3>2
  <2> HIDE DEF d, s
  <2> QED
    BY <2>1, <2>5, <2>6
<1> QED
  BY <1>2, <1>3

(* quicly_local_cid_init_set and quicly_local_cid_set_size: every entry is  *)
(* filled, as long as there are numbers.                                    *)
LEMMA InitLocalProp ==
    /\ LocalInv(InitLocal) /\ Inflight(InitLocal) = {} /\ 0 \in Issued(InitLocal)
    /\ \A x \in 0 .. InitLocal.next - 1 : x \in Issued(InitLocal)
<1> DEFINE n == LocalSize - 1
           Good(s, i) == /\ LocalInv(s) /\ Inflight(s) = {}
                         /\ \A x \in 0 .. s.next - 1 : x \in Issued(s)
                         /\ \A j \in i + 2 .. LocalSize : s.cids[j].state = "idle"
           F == [x \in LocalSet \X (1 .. n) |-> IF Good(x[1], x[2] - 1) THEN Generate(x[1], x[2] + 1) ELSE x[1]]
<1>1. LocalSize \in Nat \ {0} /\ MaxPathId \in Nat \ {0} /\ n \in Nat
  BY LocalCidsAssumption
<1>2. Good(FirstCid, 0)
  <2> DEFINE c == [i \in 1 .. LocalSize |-> IF i = 1 THEN [state |-> "delivered", seq |-> 0]
                                            ELSE [state |-> "idle", seq |-> NoSeq]]
  <2>1. FirstCid = [cids |-> c, next |-> 1, fifo |-> << >>]
    BY DEF FirstCid
  <2>2. FirstCid.cids = c /\ FirstCid.next = 1 /\ FirstCid.fifo = << >>
    BY <2>1
  <2>3. c[1] = [state |-> "delivered", seq |-> 0] /\ 1 \in 1 .. LocalSize
        /\ \A j \in 1 .. LocalSize : j # 1 => c[j] = [state |-> "idle", seq |-> NoSeq]
    BY <1>1
  <2>4. ASSUME NEW e, e = [state |-> "delivered", seq |-> 0] \/ e = [state |-> "idle", seq |-> NoSeq]
        PROVE  e \in LocalEntry
    BY <2>4, <1>1 DEF LocalEntry, NoSeq
  <2>5. c \in [1 .. LocalSize -> LocalEntry]
    <3>1. \A j \in 1 .. LocalSize : c[j] \in LocalEntry
      BY <2>3, <2>4
    <3>2. c = [j \in 1 .. LocalSize |-> c[j]]
      OBVIOUS
    <3> HIDE DEF c
    <3> QED
      BY <3>1, <3>2
  <2>6. FirstCid \in LocalSet
    <3> HIDE DEF c
    <3> QED
      BY <2>1, <2>5, <1>1 DEF LocalSet
  <2> HIDE DEF c
  <2>7. Distinct(FirstCid.cids)
    BY <2>2, <2>3 DEF Distinct, NoSeq
  <2>8. \A j \in 1 .. LocalSize : Numbered(FirstCid, j)
    BY <2>2, <2>3 DEF Numbered, NoSeq
  <2>9. PendingIsFifo(FirstCid)
    <3>1. \A j \in 1 .. LocalSize : c[j].state # "pending"
      BY <2>3
    <3>2. DOMAIN c = 1 .. LocalSize
      BY <2>5
    <3>3. PendingAt(c) = {}
      BY <3>1, <3>2 DEF PendingAt
    <3> QED
      BY <2>2, <3>3 DEF PendingIsFifo
  <2>10. Inflight(FirstCid) = {}
    <3>1. \A j \in 1 .. LocalSize : c[j].state # "inflight"
      BY <2>3
    <3> QED
      BY <2>2, <3>1 DEF Inflight
  <2>11. LocalInv(FirstCid)
    BY <2>6, <2>7, <2>8, <2>9 DEF LocalInv
  <2>12. \A x \in 0 .. FirstCid.next - 1 : x \in Issued(FirstCid)
    <3>1. 0 \in Issued(FirstCid)
      BY <2>2, <2>3, <2>11, EntryNumbers
    <3>2. \A x \in 0 .. 0 : x = 0
      OBVIOUS
    <3> QED
      BY <2>2, <3>1, <3>2
  <2>13. \A j \in 0 + 2 .. LocalSize : FirstCid.cids[j].state = "idle"
    <3>1. \A j \in 0 + 2 .. LocalSize : j \in 1 .. LocalSize /\ j # 1
      BY <1>1
    <3> QED
      BY <2>2, <2>3, <3>1
  <2> QED
    BY <2>10, <2>11, <2>12, <2>13
<1>3. ASSUME NEW s, NEW i \in 1 .. n, Good(s, i - 1) PROVE Good(Generate(s, i + 1), i)
  <2>1. i + 1 \in 1 .. LocalSize /\ i + 1 \in (i - 1) + 2 .. LocalSize /\ LocalInv(s) /\ s \in LocalSet
    BY <1>1, <1>3 DEF LocalInv
  <2>2. s.cids[i + 1].state = "idle"
    BY <2>1, <1>3
  <2>3. /\ LocalInv(Generate(s, i + 1)) /\ Inflight(Generate(s, i + 1)) = Inflight(s)
        /\ \/ s.next = MaxPathId /\ Generate(s, i + 1) = s
           \/ /\ Generate(s, i + 1).next = s.next + 1
              /\ Issued(Generate(s, i + 1)) = Issued(s) \cup {s.next}
    BY <2>1, <2>2, GenerateProp
  <2>4. \A j \in i + 2 .. LocalSize : Generate(s, i + 1).cids[j].state = "idle"
    <3>1. \A j \in i + 1 + 1 .. LocalSize : Generate(s, i + 1).cids[j] = s.cids[j]
      BY <2>1, GenerateKeeps
    <3>2. \A j \in i + 2 .. LocalSize : j \in i + 1 + 1 .. LocalSize /\ j \in (i - 1) + 2 .. LocalSize
      BY <1>1
    <3>3. \A j \in (i - 1) + 2 .. LocalSize : s.cids[j].state = "idle"
      BY <1>3
    <3> QED
      BY <3>1, <3>2, <3>3
  <2>5. \A x \in 0 .. Generate(s, i + 1).next - 1 : x \in Issued(Generate(s, i + 1))
    <3>1. \A x \in 0 .. s.next - 1 : x \in Issued(s)
      BY <1>3
    <3>2. s.next \in Nat
      BY <2>1, <1>1 DEF LocalSet
    <3>3. \A x \in 0 .. (s.next + 1) - 1 : x \in 0 .. s.next - 1 \/ x = s.next
      BY <3>2
    <3> QED
      BY <2>3, <3>1, <3>3
  <2>6. Inflight(Generate(s, i + 1)) = {}
    BY <2>3, <1>3
  <2> QED
    BY <2>3, <2>4, <2>5, <2>6
<1>4. ASSUME NEW s \in LocalSet, NEW i \in 1 .. n
      PROVE  F[<<s, i>>] = IF Good(s, i - 1) THEN Generate(s, i + 1) ELSE s
  <2> HIDE DEF Good
  <2> QED
    OBVIOUS
<1> HIDE DEF Good, F
<1>5. FirstCid \in LocalSet /\ \A s, i : Good(s, i) => s \in LocalSet
  BY <1>2 DEF Good, LocalInv
<1>6. StaysIn(F, LocalSet, n)
  BY <1>3, <1>4, <1>5 DEF StaysIn
<1>7. PICK f \in [0 .. n -> LocalSet] : Repeats(f, F, FirstCid, n)
  <2> HIDE DEF n
  <2> QED
    BY <1>1, <1>5, <1>6, Recursion
<1> DEFINE T == {i \in 0 .. n : Good(f[i], i)}
<1>8. \A i \in 0 .. n : i \in T
  <2>1. 0 \in T
    BY <1>1, <1>2, <1>7 DEF Repeats
  <2>2. ASSUME NEW i \in 0 .. n - 1, i \in T PROVE i + 1 \in T
    <3>1. i + 1 \in 1 .. n /\ i + 1 \in 0 .. n /\ (i + 1) - 1 = i /\ i \in 0 .. n
      BY <1>1
    <3>2. f[i + 1] = F[<<f[i], i + 1>>]
      BY <3>1, <1>7 DEF Repeats
    <3>3. Good(f[i], i)
      BY <2>2
    <3>4. f[i + 1] = Generate(f[i], (i + 1) + 1)
      BY <3>1, <3>2, <3>3, <1>4, <1>7
    <3>5. Good(f[i + 1], i + 1)
      BY <3>1, <3>3, <3>4, <1>3
    <3> QED
      BY <3>1, <3>5
  <2> HIDE DEF T, n
  <2> QED
    BY <1>1, <2>1, <2>2, SetInduction
<1>9. f = [i \in 0 .. LocalSize - 1 |-> IF i = 0 THEN FirstCid ELSE Generate(f[i - 1], i + 1)]
  <2>1. ASSUME NEW i \in 0 .. LocalSize - 1
        PROVE  f[i] = IF i = 0 THEN FirstCid ELSE Generate(f[i - 1], i + 1)
    <3>1. CASE i = 0
      BY <3>1, <1>7 DEF Repeats
    <3>2. CASE i # 0
      <4>1. i \in 1 .. n /\ i - 1 \in 0 .. n
        BY <3>2, <1>1
      <4>2. f[i] = F[<<f[i - 1], i>>] /\ Good(f[i - 1], i - 1) /\ f[i - 1] \in LocalSet
        BY <4>1, <1>7, <1>8 DEF Repeats
      <4> QED
        BY <4>1, <4>2, <3>2, <1>4
    <3> QED
      BY <3>1, <3>2
  <2>2. f = [i \in 0 .. LocalSize - 1 |-> f[i]]
    BY <1>7
  <2> QED
    BY <2>1, <2>2, Zenon
<1> DEFINE g == SetSize
<1>10. g = [i \in 0 .. LocalSize - 1 |-> IF i = 0 THEN FirstCid ELSE Generate(g[i - 1], i + 1)]
  BY <1>9 DEF SetSize
<1> HIDE DEF g
<1>11. g[0] = FirstCid /\ \A i \in 1 .. n : g[i] = Generate(g[i - 1], i + 1)
  BY <1>1, <1>10
<1> DEFINE U == {i \in 0 .. n : Good(g[i], i)}
<1>12. \A i \in 0 .. n : i \in U
  <2>1. 0 \in U
    BY <1>1, <1>2, <1>11
  <2>2. ASSUME NEW i \in 0 .. n - 1, i \in U PROVE i + 1 \in U
    <3>1. i + 1 \in 1 .. n /\ i + 1 \in 0 .. n /\ (i + 1) - 1 = i
      BY <1>1
    <3>2. g[i + 1] = Generate(g[i], (i + 1) + 1) /\ Good(g[i], (i + 1) - 1)
      BY <3>1, <1>11, <2>2
    <3>3. Good(g[i + 1], i + 1)
      BY <3>1, <3>2, <1>3
    <3> QED
      BY <3>1, <3>3
  <2> HIDE DEF U, n
  <2> QED
    BY <1>1, <2>1, <2>2, SetInduction
<1>13. Good(g[n], n) /\ InitLocal = g[n]
  BY <1>1, <1>12 DEF InitLocal, g
<1>14. /\ LocalInv(InitLocal) /\ Inflight(InitLocal) = {}
       /\ \A x \in 0 .. InitLocal.next - 1 : x \in Issued(InitLocal)
  BY <1>13 DEF Good
<1>15. 0 \in 0 .. InitLocal.next - 1
  BY <1>14, <1>1 DEF LocalInv, LocalSet
<1> QED
  BY <1>14, <1>15


-------------------------------------------------------------------------------
(* What is kept true of the user's set. *)

RemoteEntry == [state : RemoteStates, seq : Nat]

RemoteSet ==
    [cids : [1 .. Limit -> RemoteEntry], largest : Nat, retired : Seq(Nat),
     error : {"none", "exhausted", "limit"}]

(* The set has an entry for q; one that is in use; one that was received.  *)
Present(r, q) == \E i \in 1 .. Limit : r.cids[i].seq = q

InUse(r, q) == \E i \in 1 .. Limit : r.cids[i].seq = q /\ r.cids[i].state = "in_use"

Known(r, q) == \E i \in 1 .. Limit : r.cids[i].seq = q /\ r.cids[i].state # "unavailable"

(* q was expected once, and its entry has been reserved for another CID. *)
Gone(r, q) == q \in 0 .. r.largest /\ ~Present(r, q)

Listed(s, q) == \E j \in 1 .. Len(s) : s[j] = q

RemoteInv(r) ==
    /\ r \in RemoteSet
    /\ \A i, j \in 1 .. Limit : r.cids[i].seq = r.cids[j].seq => i = j
    /\ \A i \in 1 .. Limit : r.cids[i].seq <= r.largest
    /\ \A q : Listed(r.retired, q) => Gone(r, q)
    /\ Len(r.retired) <= RetireCapacity

(* What a call, or a series of calls, makes of the set r: CIDs below b are *)
(* registered and retired.  Retirements are added at the end of the queue; *)
(* unless there is an error, what leaves the set is queued.                *)
Evolves(r, s, b) ==
    /\ RemoteInv(s) /\ s.error \in {"none", "exhausted"} /\ r.largest <= s.largest
    /\ Len(r.retired) <= Len(s.retired) /\ \A j \in 1 .. Len(r.retired) : s.retired[j] = r.retired[j]
    /\ \A q : Gone(r, q) => Gone(s, q)
    /\ \A q : Listed(s.retired, q) => Listed(r.retired, q) \/ q < b
    /\ \A q : Known(s, q) => Known(r, q) \/ q < b
    /\ \A q : InUse(s, q) => InUse(r, q)
    /\ \A q : InUse(r, q) => InUse(s, q) \/ Gone(s, q)
    /\ s.error = "none" => \A q : Gone(s, q) => Gone(r, q) \/ Listed(s.retired, q)

LEMMA EvolvesNot ==
    ASSUME NEW r, RemoteInv(r), r.error \in {"none", "exhausted"}, NEW b
    PROVE  Evolves(r, r, b)
<1>1. r.largest <= r.largest /\ Len(r.retired) <= Len(r.retired)
  BY DEF RemoteInv, RemoteSet
<1> QED
  BY <1>1 DEF Evolves

LEMMA EvolvesTwice ==
    ASSUME NEW r, NEW s, NEW t, NEW b, RemoteInv(r), Evolves(r, s, b), Evolves(s, t, b), s.error = "none"
    PROVE  Evolves(r, t, b)
<1>1. r.largest \in Nat /\ s.largest \in Nat /\ t.largest \in Nat
  BY DEF Evolves, RemoteInv, RemoteSet
<1>2. r.largest <= t.largest
  BY <1>1 DEF Evolves
<1>3. Len(r.retired) \in Nat /\ Len(s.retired) \in Nat /\ Len(t.retired) \in Nat
  BY DEF Evolves, RemoteInv, RemoteSet
<1>4. Len(r.retired) <= Len(t.retired) /\ \A j \in 1 .. Len(r.retired) : t.retired[j] = r.retired[j]
  <2>1. Len(r.retired) <= Len(s.retired) /\ Len(s.retired) <= Len(t.retired)
    BY DEF Evolves
  <2>2. \A j \in 1 .. Len(r.retired) : j \in 1 .. Len(s.retired)
    BY <1>3, <2>1
  <2> QED
    BY <1>3, <2>1, <2>2 DEF Evolves
<1>5. \A q : Listed(s.retired, q) => Listed(t.retired, q)
  <2>1. \A j \in 1 .. Len(s.retired) : j \in 1 .. Len(t.retired) /\ t.retired[j] = s.retired[j]
    BY <1>3 DEF Evolves
  <2> QED
    BY <2>1 DEF Listed
<1>6. \A q : Gone(s, q) => Gone(t, q)
  BY DEF Evolves
<1>7. \A q : InUse(r, q) => InUse(t, q) \/ Gone(t, q)
  BY <1>6 DEF Evolves
<1>8. t.error = "none" => \A q : Gone(t, q) => Gone(r, q) \/ Listed(t.retired, q)
  BY <1>5 DEF Evolves
<1> QED
  BY <1>2, <1>4, <1>7, <1>8 DEF Evolves

(* quicly_remote_cid_push_retired, for a CID that has left the set. *)
LEMMA PushRetiredProp ==
    ASSUME NEW r, RemoteInv(r), r.error = "none", NEW q, Gone(r, q), NEW b, q < b
    PROVE  /\ Evolves(r, PushRetired(r, q), b)
           /\ PushRetired(r, q).error = "none" => Listed(PushRetired(r, q).retired, q)
           /\ PushRetired(r, q).cids = r.cids /\ PushRetired(r, q).largest = r.largest
<1> DEFINE s == PushRetired(r, q)
<1>1. r \in RemoteSet /\ q \in Nat /\ RetireCapacity \in Nat
  BY RemoteCidsAssumption DEF RemoteInv, RemoteSet, Gone
<1>2. Contains(r.retired, q) <=> Listed(r.retired, q)
  BY <1>1 DEF Contains, Listed, RemoteSet
<1>3. CASE Contains(r.retired, q)
  <2>1. s = r
    BY <1>3 DEF PushRetired
  <2> QED
    BY <2>1, <1>2, <1>3, EvolvesNot
<1>4. CASE ~Contains(r.retired, q) /\ Len(r.retired) >= RetireCapacity
  <2>1. s = [r EXCEPT !.error = "exhausted"]
    BY <1>4 DEF PushRetired
  <2>2. s \in RemoteSet /\ s.cids = r.cids /\ s.largest = r.largest /\ s.retired = r.retired
        /\ s.error = "exhausted"
    BY <2>1, <1>1 DEF RemoteSet
  <2> HIDE DEF s
  <2>3. \A x : /\ Present(s, x) <=> Present(r, x)
               /\ InUse(s, x) <=> InUse(r, x)
               /\ Known(s, x) <=> Known(r, x)
    BY <2>2 DEF Present, InUse, Known
  <2>4. \A x : Gone(s, x) <=> Gone(r, x)
    BY <2>2, <2>3 DEF Gone
  <2>5. RemoteInv(s)
    BY <2>2, <2>4 DEF RemoteInv
  <2>6. r.largest <= s.largest /\ Len(r.retired) <= Len(s.retired)
    BY <2>2, <1>1 DEF RemoteSet
  <2>7. Evolves(r, s, b)
    BY <2>2, <2>3, <2>4, <2>5, <2>6 DEF Evolves
  <2> QED
    BY <2>2, <2>7 DEF s
<1>5. CASE ~Contains(r.retired, q) /\ ~(Len(r.retired) >= RetireCapacity)
  <2>1. s = [r EXCEPT !.retired = Append(r.retired, q)]
    BY <1>5, <1>1 DEF PushRetired, RemoteSet
  <2>2. s \in RemoteSet /\ s.cids = r.cids /\ s.largest = r.largest /\ s.retired = Append(r.retired, q)
        /\ s.error = "none"
    <3>1. Append(r.retired, q) \in Seq(Nat)
      BY <1>1 DEF RemoteSet
    <3> HIDE DEF s
    <3> QED
      BY <2>1, <3>1, <1>1 DEF RemoteSet
  <2> HIDE DEF s
  <2>3. \A x : /\ Present(s, x) <=> Present(r, x)
               /\ InUse(s, x) <=> InUse(r, x)
               /\ Known(s, x) <=> Known(r, x)
    BY <2>2 DEF Present, InUse, Known
  <2>4. \A x : Gone(s, x) <=> Gone(r, x)
    BY <2>2, <2>3 DEF Gone
  <2>5. /\ Len(s.retired) = Len(r.retired) + 1 /\ Len(r.retired) \in Nat /\ s.retired[Len(r.retired) + 1] = q
        /\ \A j \in 1 .. Len(r.retired) : s.retired[j] = r.retired[j]
    BY <2>2, <1>1 DEF RemoteSet
  <2>6. ASSUME NEW x PROVE Listed(s.retired, x) <=> Listed(r.retired, x) \/ x = q
    <3>1. \A j \in 1 .. Len(r.retired) + 1 : j \in 1 .. Len(r.retired) \/ j = Len(r.retired) + 1
      BY <2>5
    <3>2. Len(r.retired) + 1 \in 1 .. Len(r.retired) + 1
          /\ \A j \in 1 .. Len(r.retired) : j \in 1 .. Len(r.retired) + 1
      BY <2>5
    <3> QED
      BY <2>5, <3>1, <3>2 DEF Listed
  <2>7. RemoteInv(s)
    <3>1. Len(s.retired) <= RetireCapacity
      BY <2>5, <1>1, <1>5
    <3> QED
      BY <2>2, <2>4, <2>6, <3>1 DEF RemoteInv
  <2>8. r.largest <= s.largest /\ Len(r.retired) <= Len(s.retired)
    BY <2>2, <2>5, <1>1 DEF RemoteSet
  <2>9. Evolves(r, s, b)
    BY <2>2, <2>3, <2>4, <2>5, <2>6, <2>7, <2>8 DEF Evolves
  <2> QED
    BY <2>2, <2>6, <2>9 DEF s
<1> QED
  BY <1>3, <1>4, <1>5

(* do_unregister: the CID of entry i leaves the set, which expects one CID *)
(* more.                                                                    *)
LEMMA UnregisterAtProp ==
    ASSUME NEW r, RemoteInv(r), r.error = "none", NEW i \in 1 .. Limit, NEW b, r.cids[i].seq < b
    PROVE  /\ Evolves(r, UnregisterAt(r, i), b)
           /\ UnregisterAt(r, i).error = "none" => Listed(UnregisterAt(r, i).retired, r.cids[i].seq)
           /\ \A x : InUse(UnregisterAt(r, i), x) <=> InUse(r, x) /\ x # r.cids[i].seq
<1> DEFINE q == r.cids[i].seq
           n == r.largest + 1
           e == [state |-> "unavailable", seq |-> n]
           c == [r.cids EXCEPT ![i] = e]
           m == [r EXCEPT !.cids[i] = [state |-> "unavailable", seq |-> r.largest + 1], !.largest = @ + 1]
           s == UnregisterAt(r, i)
<1>1. r \in RemoteSet /\ r.largest \in Nat /\ n \in Nat /\ r.cids \in [1 .. Limit -> RemoteEntry]
      /\ Limit \in Nat
  BY RemoteCidsAssumption DEF RemoteInv, RemoteSet
<1>2. s = PushRetired(m, q)
  BY Zenon DEF UnregisterAt
<1>3. m = [r EXCEPT !.cids = c, !.largest = n]
  BY <1>1 DEF RemoteSet
<1>4. e \in RemoteEntry /\ e.state = "unavailable" /\ e.seq = n
  BY <1>1 DEF RemoteEntry, RemoteStates
<1>5. c = [r.cids EXCEPT ![i] = e]
  OBVIOUS
<1> HIDE DEF e, c, m, s
<1>6. c \in [1 .. Limit -> RemoteEntry] /\ c[i] = e /\ \A j \in 1 .. Limit : j # i => c[j] = r.cids[j]
  BY <1>1, <1>4, <1>5
<1>7. m \in RemoteSet /\ m.cids = c /\ m.largest = n /\ m.retired = r.retired /\ m.error = "none"
  BY <1>1, <1>3, <1>6 DEF RemoteSet
<1>8. /\ \A j, k \in 1 .. Limit : r.cids[j].seq = r.cids[k].seq => j = k
      /\ \A j \in 1 .. Limit : r.cids[j].seq <= r.largest /\ r.cids[j].seq \in Nat
      /\ \A x : Listed(r.retired, x) => Gone(r, x)
      /\ Len(r.retired) <= RetireCapacity
  BY <1>1 DEF RemoteInv, RemoteEntry
<1>9. \A j \in 1 .. Limit : r.cids[j].seq # n
  BY <1>1, <1>8
<1>10. ASSUME NEW x PROVE Present(m, x) <=> (Present(r, x) /\ x # q) \/ x = n
  BY <1>4, <1>6, <1>7, <1>8 DEF Present
<1>11. ASSUME NEW x PROVE /\ InUse(m, x) <=> InUse(r, x) /\ x # q
                          /\ Known(m, x) <=> Known(r, x) /\ x # q
  <2>1. r.cids[i].seq = q
    OBVIOUS
  <2> HIDE DEF q
  <2>2. InUse(m, x) <=> InUse(r, x) /\ x # q
    BY <1>4, <1>6, <1>7, <1>8, <2>1 DEF InUse
  <2>3. Known(m, x) <=> Known(r, x) /\ x # q
    BY <1>4, <1>6, <1>7, <1>8, <2>1 DEF Known
  <2> QED
    BY <2>2, <2>3
<1>12. q \in 0 .. r.largest /\ q \in Nat /\ q # n
  BY <1>1, <1>8
<1>13. ASSUME NEW x PROVE Gone(m, x) <=> Gone(r, x) \/ x = q
  <2>1. x \in 0 .. m.largest <=> x \in 0 .. r.largest \/ x = n
    BY <1>1, <1>7
  <2>2. Present(r, q) /\ ~(n \in 0 .. r.largest)
    BY <1>1 DEF Present
  <2> QED
    BY <2>1, <2>2, <1>10, <1>12 DEF Gone
<1>14. RemoteInv(m)
  <2>1. \A j, k \in 1 .. Limit : m.cids[j].seq = m.cids[k].seq => j = k
    BY <1>4, <1>6, <1>7, <1>8, <1>9
  <2>2. \A j \in 1 .. Limit : m.cids[j].seq <= m.largest
    <3>1. \A j \in 1 .. Limit : r.cids[j].seq <= n
      BY <1>1, <1>8
    <3>2. n <= n
      BY <1>1
    <3> QED
      BY <3>1, <3>2, <1>4, <1>6, <1>7
  <2>3. \A x : Listed(m.retired, x) => Gone(m, x)
    BY <1>7, <1>8, <1>13
  <2> QED
    BY <2>1, <2>2, <2>3, <1>7, <1>8 DEF RemoteInv
<1>15. Evolves(m, s, b) /\ (s.error = "none" => Listed(s.retired, q)) /\ s.cids = m.cids
  <2>1. Gone(m, q)
    BY <1>13
  <2> HIDE DEF q
  <2>2. q < b
    BY DEF q
  <2> QED
    BY <2>1, <2>2, <1>2, <1>7, <1>14, PushRetiredProp
<1>16. Evolves(r, s, b)
  <2>1. s.largest \in Nat /\ r.largest <= s.largest
    <3>1. m.largest <= s.largest /\ s.largest \in Nat
      BY <1>15 DEF Evolves, RemoteInv, RemoteSet
    <3> QED
      BY <3>1, <1>1, <1>7
  <2>2. /\ RemoteInv(s) /\ s.error \in {"none", "exhausted"}
        /\ Len(r.retired) <= Len(s.retired) /\ \A j \in 1 .. Len(r.retired) : s.retired[j] = r.retired[j]
        /\ \A x : Listed(s.retired, x) => Listed(r.retired, x) \/ x < b
    BY <1>7, <1>15 DEF Evolves
  <2>3. \A x : Gone(m, x) => Gone(s, x)
    BY <1>15 DEF Evolves
  <2>4. \A x : Gone(r, x) => Gone(s, x)
    BY <2>3, <1>13
  <2>5. \A x : Known(s, x) => Known(r, x) \/ x < b
    <3>1. \A x : Known(s, x) => Known(m, x) \/ x < b
      BY <1>15 DEF Evolves
    <3> QED
      BY <3>1, <1>11
  <2>6. \A x : InUse(s, x) => InUse(r, x)
    <3>1. \A x : InUse(s, x) => InUse(m, x)
      BY <1>15 DEF Evolves
    <3> QED
      BY <3>1, <1>11
  <2>7. \A x : InUse(r, x) => InUse(s, x) \/ Gone(s, x)
    <3>1. \A x : InUse(m, x) => InUse(s, x) \/ Gone(s, x)
      BY <1>15 DEF Evolves
    <3>2. Gone(s, q)
      BY <2>3, <1>13
    <3> QED
      BY <3>1, <3>2, <1>11
  <2>8. s.error = "none" => \A x : Gone(s, x) => Gone(r, x) \/ Listed(s.retired, x)
    <3>1. s.error = "none" => \A x : Gone(s, x) => Gone(m, x) \/ Listed(s.retired, x)
      BY <1>15 DEF Evolves
    <3> QED
      BY <3>1, <1>13, <1>15
  <2> QED
    BY <2>1, <2>2, <2>4, <2>5, <2>6, <2>7, <2>8 DEF Evolves
<1>17. \A x : InUse(s, x) <=> InUse(r, x) /\ x # q
  BY <1>11, <1>15 DEF InUse
<1> QED
  BY <1>15, <1>16, <1>17 DEF s

(* quicly_remote_cid_unregister, for a CID in use. *)
LEMMA UnregisterProp ==
    ASSUME NEW r, RemoteInv(r), r.error = "none", NEW q, InUse(r, q), NEW b, q < b
    PROVE  /\ Evolves(r, Unregister(r, q), b)
           /\ Unregister(r, q).error = "none" => Listed(Unregister(r, q).retired, q)
           /\ \A x : InUse(Unregister(r, q), x) <=> InUse(r, x) /\ x # q
<1> DEFINE i == CHOOSE j \in EntriesOf(r, q) : TRUE
<1>1. EntriesOf(r, q) # {} /\ DOMAIN r.cids = 1 .. Limit
  BY DEF EntriesOf, InUse, RemoteInv, RemoteSet
<1>2. i \in EntriesOf(r, q)
  BY <1>1
<1>3. Unregister(r, q) = UnregisterAt(r, i)
  BY Zenon DEF Unregister
<1> HIDE DEF i
<1>4. i \in 1 .. Limit /\ r.cids[i].seq = q
  BY <1>1, <1>2 DEF EntriesOf
<1> QED
  BY <1>3, <1>4, UnregisterAtProp

(* unregister_prior_to, for one entry. *)
LEMMA UnregisterFirstProp ==
    ASSUME NEW r, RemoteInv(r), r.error \in {"none", "exhausted"}, NEW b \in Nat, NEW prior \in 0 .. b
    PROVE  Evolves(r, UnregisterFirst(r, prior), b)
<1>1. CASE r.error # "none" \/ PriorTo(r, prior) = {}
  <2>1. UnregisterFirst(r, prior) = r
    BY <1>1 DEF UnregisterFirst
  <2> QED
    BY <2>1, EvolvesNot
<1>2. CASE ~(r.error # "none" \/ PriorTo(r, prior) = {})
  <2> DEFINE I == PriorTo(r, prior)
             i == CHOOSE x \in I : \A y \in I : x <= y
  <2>1. UnregisterFirst(r, prior) = UnregisterAt(r, i)
    BY <1>2 DEF UnregisterFirst
  <2>2. I \subseteq 1 .. Limit /\ Limit \in Nat /\ \A x \in I : r.cids[x].seq < prior /\ r.cids[x].seq \in Nat
    BY RemoteCidsAssumption DEF PriorTo, RemoteInv, RemoteSet, RemoteEntry
  <2>3. I \subseteq Nat /\ I # {}
    BY <2>2, <1>2
  <2> HIDE DEF I
  <2>4. \E x \in I : \A y \in I : x <= y
    BY <2>3, LeastElement
  <2>5. i \in I
    BY <2>4
  <2> HIDE DEF i
  <2>6. i \in 1 .. Limit /\ r.cids[i].seq < b
    BY <2>2, <2>5
  <2> QED
    BY <2>1, <2>6, <1>2, UnregisterAtProp
<1> QED
  BY <1>1, <1>2

(* unregister_prior_to *)
LEMMA UnregisterPriorToProp ==
    ASSUME NEW r, RemoteInv(r), r.error = "none", NEW b \in Nat, NEW prior \in 0 .. b
    PROVE  Evolves(r, UnregisterPriorTo(r, prior), b) /\ (prior = 0 => UnregisterPriorTo(r, prior) = r)
<1> DEFINE n == prior
           g == UnregisterInTurn(r, prior)
           S == {s \in RemoteSet : Evolves(r, s, b)}
           F == [x \in S \X (1 .. n) |-> UnregisterFirst(x[1], prior)]
<1>1. n \in Nat /\ r \in S
  BY EvolvesNot DEF RemoteInv
<1>20. ASSUME NEW s \in S, NEW k \in 1 .. n PROVE UnregisterFirst(s, prior) \in S
  <2>1. Evolves(r, s, b) /\ RemoteInv(s) /\ s.error \in {"none", "exhausted"}
    BY DEF Evolves
  <2>2. Evolves(s, UnregisterFirst(s, prior), b)
    BY <2>1, UnregisterFirstProp
  <2>3. CASE s.error = "none"
    <3>1. Evolves(r, UnregisterFirst(s, prior), b)
      BY <2>1, <2>2, <2>3, EvolvesTwice
    <3>2. UnregisterFirst(s, prior) \in RemoteSet
      BY <2>2 DEF Evolves, RemoteInv
    <3> QED
      BY <3>1, <3>2
  <2>4. CASE s.error # "none"
    BY <2>4 DEF UnregisterFirst
  <2> QED
    BY <2>3, <2>4
<1>21. ASSUME NEW s \in S, NEW k \in 1 .. n PROVE F[<<s, k>>] = UnregisterFirst(s, prior)
  <2> HIDE DEF S, n
  <2> QED
    OBVIOUS
<1> HIDE DEF S, F, n
<1>22. PICK f \in [0 .. n -> S] : Repeats(f, F, r, n)
  <2>1. StaysIn(F, S, n)
    BY <1>20, <1>21 DEF StaysIn
  <2> QED
    BY <1>1, <2>1, Recursion
<1>23. f = [k \in 0 .. n |-> IF k = 0 THEN r ELSE UnregisterFirst(f[k - 1], prior)]
  <2>1. ASSUME NEW k \in 0 .. n PROVE f[k] = IF k = 0 THEN r ELSE UnregisterFirst(f[k - 1], prior)
    <3>1. CASE k = 0
      BY <3>1, <1>22 DEF Repeats
    <3>2. CASE k # 0
      <4>1. k \in 1 .. n /\ k - 1 \in 0 .. n
        BY <3>2, <1>1
      <4> QED
        BY <4>1, <3>2, <1>21, <1>22 DEF Repeats
    <3> QED
      BY <3>1, <3>2
  <2>2. f = [k \in 0 .. n |-> f[k]]
    BY <1>22
  <2> QED
    BY <2>1, <2>2, Zenon
<1>24. g = [k \in 0 .. n |-> IF k = 0 THEN r ELSE UnregisterFirst(g[k - 1], prior)]
  BY <1>23 DEF UnregisterInTurn, n
<1> HIDE DEF g
<1>25. g[0] = r /\ \A k \in 1 .. n : g[k] = UnregisterFirst(g[k - 1], prior)
  BY <1>1, <1>24
<1>26. \A k \in 0 .. n : g[k] \in S
  <2> DEFINE T == {k \in 0 .. n : g[k] \in S}
  <2>1. 0 \in T
    BY <1>1, <1>25
  <2>2. ASSUME NEW k \in 0 .. n - 1, k \in T PROVE k + 1 \in T
    <3>1. k + 1 \in 1 .. n /\ k + 1 \in 0 .. n /\ (k + 1) - 1 = k /\ g[k] \in S
      BY <1>1, <2>2
    <3>2. g[k + 1] = UnregisterFirst(g[k], prior)
      BY <3>1, <1>25
    <3> QED
      BY <3>1, <3>2, <1>20
  <2> HIDE DEF T
  <2>3. \A k \in 0 .. n : k \in T
    BY <1>1, <2>1, <2>2, SetInduction
  <2> QED
    BY <2>3 DEF T
<1>30. UnregisterPriorTo(r, prior) = g[n] /\ g[n] \in S
  BY <1>1, <1>26 DEF UnregisterPriorTo, g, n
<1>31. prior = 0 => g[n] = r
  BY <1>25 DEF n
<1> QED
  BY <1>30, <1>31 DEF S

(* do_register, for a CID that is expected. *)
LEMMA DoRegisterProp ==
    ASSUME NEW r, RemoteInv(r), r.error = "none", NEW b, NEW q, q < b, ~(r.largest < q)
    PROVE  /\ Evolves(r, DoRegister(r, q), b) /\ DoRegister(r, q).error = "none"
           /\ DoRegister(r, q).retired = r.retired
<1> DEFINE c == [i \in DOMAIN r.cids |-> IF r.cids[i].seq = q /\ r.cids[i].state = "unavailable"
                                         THEN [r.cids[i] EXCEPT !.state = "available"] ELSE r.cids[i]]
           s == DoRegister(r, q)
<1>1. r \in RemoteSet /\ DOMAIN r.cids = 1 .. Limit /\ \A i \in 1 .. Limit : r.cids[i] \in RemoteEntry
  BY DEF RemoteInv, RemoteSet
<1>2. s = [r EXCEPT !.cids = c]
  BY <1>1 DEF DoRegister, RemoteSet
<1>3. ASSUME NEW i \in 1 .. Limit
      PROVE  /\ c[i] \in RemoteEntry /\ c[i].seq = r.cids[i].seq
             /\ c[i] = r.cids[i] \/ (c[i].seq = q /\ r.cids[i].state = "unavailable" /\ c[i].state = "available")
  <2>1. r.cids[i] \in RemoteEntry
    BY <1>1
  <2>2. CASE r.cids[i].seq = q /\ r.cids[i].state = "unavailable"
    <3>1. c[i] = [r.cids[i] EXCEPT !.state = "available"]
      BY <2>2, <1>1
    <3> HIDE DEF c
    <3> QED
      BY <3>1, <2>1, <2>2 DEF RemoteEntry, RemoteStates
  <2>3. CASE ~(r.cids[i].seq = q /\ r.cids[i].state = "unavailable")
    <3>1. c[i] = r.cids[i]
      BY <2>3, <1>1
    <3> HIDE DEF c
    <3> QED
      BY <3>1, <2>1
  <2> QED
    BY <2>2, <2>3
<1>4. c = [i \in 1 .. Limit |-> c[i]]
  BY <1>1
<1> HIDE DEF c, s
<1>5. c \in [1 .. Limit -> RemoteEntry]
  BY <1>3, <1>4
<1>6. s \in RemoteSet /\ s.cids = c /\ s.largest = r.largest /\ s.retired = r.retired /\ s.error = "none"
  BY <1>1, <1>2, <1>5 DEF RemoteSet
<1>7. \A i \in 1 .. Limit : s.cids[i].seq = r.cids[i].seq
  BY <1>3, <1>6
<1>8. \A x : Present(s, x) <=> Present(r, x)
  BY <1>7 DEF Present
<1>9. \A x : Gone(s, x) <=> Gone(r, x)
  BY <1>6, <1>8 DEF Gone
<1>10. \A i \in 1 .. Limit : s.cids[i].state = "in_use" <=> r.cids[i].state = "in_use"
  BY <1>3, <1>6
<1>11. \A x : InUse(s, x) <=> InUse(r, x)
  BY <1>7, <1>10 DEF InUse
<1>12. \A x : Known(s, x) => Known(r, x) \/ x = q
  BY <1>3, <1>6 DEF Known
<1>13. RemoteInv(s)
  BY <1>6, <1>7, <1>9 DEF RemoteInv
<1>14. r.largest <= s.largest /\ Len(r.retired) <= Len(s.retired)
  BY <1>1, <1>6 DEF RemoteSet
<1>15. Evolves(r, s, b)
  BY <1>6, <1>9, <1>11, <1>12, <1>13, <1>14 DEF Evolves
<1> QED
  BY <1>6, <1>15 DEF s

(* quicly_remote_cid_register, for a CID that is expected. *)
LEMMA RegisterProp ==
    ASSUME NEW r, RemoteInv(r), r.error = "none", NEW b \in Nat, NEW prior \in 0 .. b,
           NEW q \in 0 .. r.largest, q < b
    PROVE  Evolves(r, Register(r, q, prior), b) /\ (prior = 0 => Register(r, q, prior).retired = r.retired)
<1> DEFINE freed == UnregisterPriorTo(r, prior)
           new == IF freed.error = "none" THEN DoRegister(freed, q) ELSE freed
<1>1. Register(r, q, prior) = IF new.error = "none" THEN new ELSE [r EXCEPT !.error = new.error]
  BY Zenon DEF Register
<1>2. Evolves(r, freed, b) /\ (prior = 0 => freed = r)
  BY UnregisterPriorToProp
<1> HIDE DEF freed
<1>3. CASE freed.error = "none"
  <2>1. RemoteInv(freed) /\ ~(freed.largest < q) /\ new = DoRegister(freed, q)
    <3>1. freed.largest \in Nat /\ r.largest \in Nat /\ r.largest <= freed.largest
      BY <1>2 DEF Evolves, RemoteInv, RemoteSet
    <3> QED
      BY <3>1, <1>2, <1>3 DEF Evolves
  <2> HIDE DEF new
  <2>2. Evolves(freed, new, b) /\ new.error = "none" /\ new.retired = freed.retired
    BY <2>1, <1>3, DoRegisterProp
  <2>3. Evolves(r, new, b)
    BY <2>2, <1>2, <1>3, EvolvesTwice
  <2> QED
    BY <2>2, <2>3, <1>1, <1>2
<1>4. CASE freed.error # "none"
  <2> DEFINE s == [r EXCEPT !.error = "exhausted"]
  <2>1. new = freed /\ freed.error = "exhausted"
    BY <1>2, <1>4 DEF Evolves
  <2>2. Register(r, q, prior) = s
    BY <1>1, <2>1
  <2>3. s \in RemoteSet /\ s.cids = r.cids /\ s.largest = r.largest /\ s.retired = r.retired
        /\ s.error = "exhausted"
    BY DEF RemoteInv, RemoteSet
  <2> HIDE DEF s
  <2>4. \A x : /\ Present(s, x) <=> Present(r, x)
               /\ InUse(s, x) <=> InUse(r, x)
               /\ Known(s, x) <=> Known(r, x)
    BY <2>3 DEF Present, InUse, Known
  <2>5. \A x : Gone(s, x) <=> Gone(r, x)
    BY <2>3, <2>4 DEF Gone
  <2>6. RemoteInv(s)
    BY <2>3, <2>5 DEF RemoteInv
  <2>7. r.largest <= s.largest /\ Len(r.retired) <= Len(s.retired)
    BY <2>3 DEF RemoteSet, RemoteInv
  <2>8. Evolves(r, s, b)
    BY <2>3, <2>4, <2>5, <2>6, <2>7 DEF Evolves
  <2> QED
    BY <2>2, <2>3, <2>8
<1> QED
  BY <1>3, <1>4

(* handle_new_connection_id_frame, for each frame of a packet with CIDs     *)
(* that are expected.                                                       *)
LEMMA RegisteredInTurnProp ==
    ASSUME NEW r, RemoteInv(r), r.error = "none", NEW b \in Nat, NEW qs \in Seq(Nat),
           \A k \in 1 .. Len(qs) : qs[k] \in 0 .. r.largest /\ qs[k] < b
    PROVE  /\ Evolves(r, RegisteredInTurn(r, qs)[Len(qs)], b)
           /\ RotateBelow = 0 => RegisteredInTurn(r, qs)[Len(qs)].retired = r.retired
<1> DEFINE n == Len(qs)
           g == RegisteredInTurn(r, qs)
           S == {s \in RemoteSet : Evolves(r, s, b) /\ (RotateBelow = 0 => s.retired = r.retired)}
           F == [x \in S \X (1 .. n) |-> IF x[1].error = "none" THEN Register(x[1], qs[x[2]], RetirePriorTo(qs[x[2]])) ELSE x[1]]
<1>1. n \in Nat /\ r \in S
  BY EvolvesNot DEF RemoteInv
<1>2. ASSUME NEW k \in 1 .. n
      PROVE  /\ qs[k] \in Nat /\ qs[k] <= r.largest /\ qs[k] < b /\ RetirePriorTo(qs[k]) \in 0 .. b
             /\ RotateBelow = 0 => RetirePriorTo(qs[k]) = 0
  <2>1. qs[k] \in 0 .. r.largest /\ qs[k] < b /\ r.largest \in Nat
    BY DEF RemoteInv, RemoteSet
  <2> QED
    BY <2>1, ConnectionIdsAssumption DEF RetirePriorTo
<1>20. ASSUME NEW s \in S, NEW k \in 1 .. n
       PROVE  (IF s.error = "none" THEN Register(s, qs[k], RetirePriorTo(qs[k])) ELSE s) \in S
  <2>1. Evolves(r, s, b) /\ RemoteInv(s) /\ r.largest <= s.largest /\ r.largest \in Nat /\ s.largest \in Nat
        /\ (RotateBelow = 0 => s.retired = r.retired)
    BY DEF Evolves, RemoteInv, RemoteSet
  <2>3. CASE s.error = "none"
    <3> DEFINE t == Register(s, qs[k], RetirePriorTo(qs[k]))
    <3>1. qs[k] \in 0 .. s.largest /\ qs[k] < b /\ RetirePriorTo(qs[k]) \in 0 .. b
      BY <2>1, <1>2
    <3>2. Evolves(s, t, b) /\ (RetirePriorTo(qs[k]) = 0 => t.retired = s.retired)
      BY <3>1, <2>1, <2>3, RegisterProp
    <3> HIDE DEF t
    <3>3. Evolves(r, t, b)
      BY <2>1, <2>3, <3>2, EvolvesTwice
    <3>4. t \in RemoteSet /\ (RotateBelow = 0 => t.retired = r.retired)
      BY <3>2, <2>1, <1>2 DEF Evolves, RemoteInv
    <3>5. t \in S
      BY <3>3, <3>4
    <3> QED
      BY <2>3, <3>5 DEF t
  <2>4. CASE s.error # "none"
    BY <2>4 DEF S
  <2> QED
    BY <2>3, <2>4
<1>21. ASSUME NEW s \in S, NEW k \in 1 .. n PROVE F[<<s, k>>] = IF s.error = "none" THEN Register(s, qs[k], RetirePriorTo(qs[k])) ELSE s
  <2> HIDE DEF S, n
  <2> QED
    OBVIOUS
<1> HIDE DEF S, F, n
<1>22. PICK f \in [0 .. n -> S] : Repeats(f, F, r, n)
  <2>1. StaysIn(F, S, n)
    BY <1>20, <1>21 DEF StaysIn
  <2> QED
    BY <1>1, <2>1, Recursion
<1>23. f = [k \in 0 .. n |-> IF k = 0 THEN r ELSE IF f[k - 1].error = "none" THEN Register(f[k - 1], qs[k], RetirePriorTo(qs[k])) ELSE f[k - 1]]
  <2>1. ASSUME NEW k \in 0 .. n PROVE f[k] = IF k = 0 THEN r ELSE IF f[k - 1].error = "none" THEN Register(f[k - 1], qs[k], RetirePriorTo(qs[k])) ELSE f[k - 1]
    <3>1. CASE k = 0
      BY <3>1, <1>22 DEF Repeats
    <3>2. CASE k # 0
      <4>1. k \in 1 .. n /\ k - 1 \in 0 .. n
        BY <3>2, <1>1
      <4> QED
        BY <4>1, <3>2, <1>21, <1>22 DEF Repeats
    <3> QED
      BY <3>1, <3>2
  <2>2. f = [k \in 0 .. n |-> f[k]]
    BY <1>22
  <2> QED
    BY <2>1, <2>2, Zenon
<1>24. g = [k \in 0 .. n |-> IF k = 0 THEN r ELSE IF g[k - 1].error = "none" THEN Register(g[k - 1], qs[k], RetirePriorTo(qs[k])) ELSE g[k - 1]]
  BY <1>23 DEF RegisteredInTurn, n
<1> HIDE DEF g
<1>25. g[0] = r /\ \A k \in 1 .. n : g[k] = IF g[k - 1].error = "none" THEN Register(g[k - 1], qs[k], RetirePriorTo(qs[k])) ELSE g[k - 1]
  BY <1>1, <1>24
<1>26. \A k \in 0 .. n : g[k] \in S
  <2> DEFINE T == {k \in 0 .. n : g[k] \in S}
  <2>1. 0 \in T
    BY <1>1, <1>25
  <2>2. ASSUME NEW k \in 0 .. n - 1, k \in T PROVE k + 1 \in T
    <3>1. k + 1 \in 1 .. n /\ k + 1 \in 0 .. n /\ (k + 1) - 1 = k /\ g[k] \in S
      BY <1>1, <2>2
    <3>2. g[k + 1] = IF g[k].error = "none" THEN Register(g[k], qs[k + 1], RetirePriorTo(qs[k + 1])) ELSE g[k]
      BY <3>1, <1>25
    <3> QED
      BY <3>1, <3>2, <1>20
  <2> HIDE DEF T
  <2>3. \A k \in 0 .. n : k \in T
    BY <1>1, <2>1, <2>2, SetInduction
  <2> QED
    BY <2>3 DEF T
<1>30. g[n] \in S
  BY <1>1, <1>26
<1> QED
  BY <1>30 DEF S, g, n

(* What is queued stays queued. *)
LEMMA ListedKept ==
    ASSUME NEW r, NEW s, NEW b, RemoteInv(r), Evolves(r, s, b), NEW q, Listed(r.retired, q)
    PROVE  Listed(s.retired, q)
<1>1. Len(r.retired) \in Nat /\ Len(s.retired) \in Nat
  BY DEF Evolves, RemoteInv, RemoteSet
<1>2. \A j \in 1 .. Len(r.retired) : j \in 1 .. Len(s.retired) /\ s.retired[j] = r.retired[j]
  BY <1>1 DEF Evolves
<1> QED
  BY <1>2 DEF Listed

(* on_ack_retire_connection_id, for each frame of a packet that is lost. *)
LEMMA RetirementsLostProp ==
    ASSUME NEW r, RemoteInv(r), r.error = "none", NEW b \in Nat, NEW qs \in Seq(Nat),
           \A k \in 1 .. Len(qs) : Gone(r, qs[k]) /\ qs[k] < b
    PROVE  /\ Evolves(r, RetirementsLost(r, qs), b)
           /\ RetirementsLost(r, qs).cids = r.cids /\ RetirementsLost(r, qs).largest = r.largest
           /\ RetirementsLost(r, qs).error = "none" => \A j \in 1 .. Len(qs) : Listed(RetirementsLost(r, qs).retired, qs[j])
<1> DEFINE n == Len(qs)
           g == PushedInTurn(r, qs)
           S == {s \in RemoteSet : Evolves(r, s, b) /\ s.cids = r.cids /\ s.largest = r.largest}
           F == [x \in S \X (1 .. n) |-> IF x[1].error = "none" THEN PushRetired(x[1], qs[x[2]]) ELSE x[1]]
<1>1. n \in Nat /\ r \in S
  BY EvolvesNot DEF RemoteInv
<1>2. ASSUME NEW s \in S
      PROVE  /\ Evolves(r, s, b) /\ RemoteInv(s) /\ s.cids = r.cids /\ s.largest = r.largest
             /\ \A x : Gone(s, x) <=> Gone(r, x)
  BY DEF Evolves, Gone, Present
<1>20. ASSUME NEW s \in S, NEW k \in 1 .. n
       PROVE  (IF s.error = "none" THEN PushRetired(s, qs[k]) ELSE s) \in S
  <2>1. Evolves(r, s, b) /\ RemoteInv(s) /\ Gone(s, qs[k]) /\ qs[k] < b
    BY <1>2
  <2>3. CASE s.error = "none"
    <3>1. /\ Evolves(s, PushRetired(s, qs[k]), b)
          /\ PushRetired(s, qs[k]).cids = s.cids /\ PushRetired(s, qs[k]).largest = s.largest
      BY <2>1, <2>3, PushRetiredProp
    <3>2. Evolves(r, PushRetired(s, qs[k]), b)
      BY <2>1, <2>3, <3>1, EvolvesTwice
    <3>3. PushRetired(s, qs[k]) \in RemoteSet
      BY <3>1 DEF Evolves, RemoteInv
    <3>4. PushRetired(s, qs[k]) \in S
      BY <3>1, <3>2, <3>3, <1>2
    <3> QED
      BY <2>3, <3>4
  <2>4. CASE s.error # "none"
    BY <2>4
  <2> QED
    BY <2>3, <2>4
<1>21. ASSUME NEW s \in S, NEW k \in 1 .. n PROVE F[<<s, k>>] = IF s.error = "none" THEN PushRetired(s, qs[k]) ELSE s
  <2> HIDE DEF S, n
  <2> QED
    OBVIOUS
<1> HIDE DEF S, F, n
<1>22. PICK f \in [0 .. n -> S] : Repeats(f, F, r, n)
  <2>1. StaysIn(F, S, n)
    BY <1>20, <1>21 DEF StaysIn
  <2> QED
    BY <1>1, <2>1, Recursion
<1>23. f = [k \in 0 .. n |-> IF k = 0 THEN r ELSE IF f[k - 1].error = "none" THEN PushRetired(f[k - 1], qs[k]) ELSE f[k - 1]]
  <2>1. ASSUME NEW k \in 0 .. n PROVE f[k] = IF k = 0 THEN r ELSE IF f[k - 1].error = "none" THEN PushRetired(f[k - 1], qs[k]) ELSE f[k - 1]
    <3>1. CASE k = 0
      BY <3>1, <1>22 DEF Repeats
    <3>2. CASE k # 0
      <4>1. k \in 1 .. n /\ k - 1 \in 0 .. n
        BY <3>2, <1>1
      <4> QED
        BY <4>1, <3>2, <1>21, <1>22 DEF Repeats
    <3> QED
      BY <3>1, <3>2
  <2>2. f = [k \in 0 .. n |-> f[k]]
    BY <1>22
  <2> QED
    BY <2>1, <2>2, Zenon
<1>24. g = [k \in 0 .. n |-> IF k = 0 THEN r ELSE IF g[k - 1].error = "none" THEN PushRetired(g[k - 1], qs[k]) ELSE g[k - 1]]
  BY <1>23 DEF PushedInTurn, n
<1> HIDE DEF g
<1>25. g[0] = r /\ \A k \in 1 .. n : g[k] = IF g[k - 1].error = "none" THEN PushRetired(g[k - 1], qs[k]) ELSE g[k - 1]
  BY <1>1, <1>24
<1>26. \A k \in 0 .. n : g[k] \in S
  <2> DEFINE T == {k \in 0 .. n : g[k] \in S}
  <2>1. 0 \in T
    BY <1>1, <1>25
  <2>2. ASSUME NEW k \in 0 .. n - 1, k \in T PROVE k + 1 \in T
    <3>1. k + 1 \in 1 .. n /\ k + 1 \in 0 .. n /\ (k + 1) - 1 = k /\ g[k] \in S
      BY <1>1, <2>2
    <3>2. g[k + 1] = IF g[k].error = "none" THEN PushRetired(g[k], qs[k + 1]) ELSE g[k]
      BY <3>1, <1>25
    <3> QED
      BY <3>1, <3>2, <1>20
  <2> HIDE DEF T
  <2>3. \A k \in 0 .. n : k \in T
    BY <1>1, <2>1, <2>2, SetInduction
  <2> QED
    BY <2>3 DEF T
<1> DEFINE T == {k \in 0 .. n : g[k].error = "none" => \A j \in 1 .. k : Listed(g[k].retired, qs[j])}
<1>27. 0 \in T
  BY <1>1
<1>28. ASSUME NEW k \in 0 .. n - 1, k \in T PROVE k + 1 \in T
  <2>1. k + 1 \in 1 .. n /\ k + 1 \in 0 .. n /\ k \in 0 .. n /\ (k + 1) - 1 = k
    BY <1>1
  <2>2. g[k + 1] = IF g[k].error = "none" THEN PushRetired(g[k], qs[k + 1]) ELSE g[k]
    BY <2>1, <1>25
  <2>3. g[k] \in S
    BY <2>1, <1>26
  <2>4. ASSUME g[k + 1].error = "none" PROVE \A j \in 1 .. k + 1 : Listed(g[k + 1].retired, qs[j])
    <3>1. g[k].error = "none" /\ g[k + 1] = PushRetired(g[k], qs[k + 1])
      BY <2>2, <2>4
    <3>2. RemoteInv(g[k]) /\ Gone(g[k], qs[k + 1]) /\ qs[k + 1] < b
      BY <2>1, <2>3, <1>2 DEF n
    <3>3. Evolves(g[k], g[k + 1], b) /\ Listed(g[k + 1].retired, qs[k + 1])
      BY <2>4, <3>1, <3>2, PushRetiredProp
    <3>4. \A j \in 1 .. k : Listed(g[k].retired, qs[j])
      BY <3>1, <1>28
    <3>5. \A j \in 1 .. k : Listed(g[k + 1].retired, qs[j])
      BY <3>2, <3>3, <3>4, ListedKept
    <3>6. \A j \in 1 .. k + 1 : j \in 1 .. k \/ j = k + 1
      BY <1>1
    <3> QED
      BY <3>3, <3>5, <3>6
  <2> QED
    BY <2>1, <2>4
<1>29. n \in T
  <2> HIDE DEF T
  <2>1. \A k \in 0 .. n : k \in T
    BY <1>1, <1>27, <1>28, SetInduction
  <2> QED
    BY <2>1, <1>1
<1>30. g[n] \in S
  BY <1>1, <1>26
<1>31. Evolves(r, g[n], b) /\ g[n].cids = r.cids /\ g[n].largest = r.largest
  BY <1>30 DEF S
<1>32. g[n].error = "none" => \A j \in 1 .. n : Listed(g[n].retired, qs[j])
  BY <1>29
<1> QED
  BY <1>31, <1>32 DEF g, n, RetirementsLost

(* All packets in flight are declared lost: the retirements in them are queued. *)
LEMMA AllLostProp ==
    ASSUME NEW r, RemoteInv(r), r.error = "none", NEW b \in Nat, NEW ps \in Seq(Packet),
           \A i \in 1 .. Len(ps) : IsRetireInFlight(ps[i]) =>
              \A j \in 1 .. Len(ps[i].seqs) : Gone(r, ps[i].seqs[j]) /\ ps[i].seqs[j] < b
    PROVE  /\ Evolves(r, AllLostInTurn(r, ps)[Len(ps)], b)
           /\ AllLostInTurn(r, ps)[Len(ps)].cids = r.cids /\ AllLostInTurn(r, ps)[Len(ps)].largest = r.largest
           /\ AllLostInTurn(r, ps)[Len(ps)].error = "none" => \A i \in 1 .. Len(ps) : IsRetireInFlight(ps[i]) =>
              \A j \in 1 .. Len(ps[i].seqs) : Listed(AllLostInTurn(r, ps)[Len(ps)].retired, ps[i].seqs[j])
<1> DEFINE n == Len(ps)
           g == AllLostInTurn(r, ps)
           S == {s \in RemoteSet : Evolves(r, s, b) /\ s.cids = r.cids /\ s.largest = r.largest}
           F == [x \in S \X (1 .. n) |-> IF IsRetireInFlight(ps[x[2]]) /\ x[1].error = "none" THEN RetirementsLost(x[1], ps[x[2]].seqs) ELSE x[1]]
<1>1. n \in Nat /\ r \in S
  BY EvolvesNot DEF RemoteInv
<1>2. ASSUME NEW s \in S
      PROVE  /\ Evolves(r, s, b) /\ RemoteInv(s) /\ s.cids = r.cids /\ s.largest = r.largest
             /\ \A x : Gone(s, x) <=> Gone(r, x)
  BY DEF Evolves, Gone, Present
<1>3. ASSUME NEW k \in 1 .. n, IsRetireInFlight(ps[k])
      PROVE  /\ ps[k].seqs \in Seq(Nat)
             /\ \A j \in 1 .. Len(ps[k].seqs) : Gone(r, ps[k].seqs[j]) /\ ps[k].seqs[j] < b
  <2>1. ps[k] \in Packet
    BY SeqElement
  <2>2. ps[k].seqs \in Seq(0 .. MaxPathId - 1) /\ MaxPathId \in Nat
    BY <2>1, LocalCidsAssumption DEF Packet
  <2>3. ps[k].seqs \in Seq(Nat)
    BY <2>2
  <2> QED
    BY <2>3, <1>3
<1>20. ASSUME NEW s \in S, NEW k \in 1 .. n
       PROVE  (IF IsRetireInFlight(ps[k]) /\ s.error = "none" THEN RetirementsLost(s, ps[k].seqs) ELSE s) \in S
  <2>1. Evolves(r, s, b) /\ RemoteInv(s)
    BY <1>2
  <2>3. CASE IsRetireInFlight(ps[k]) /\ s.error = "none"
    <3> DEFINE qs == ps[k].seqs
               t == RetirementsLost(s, qs)
    <3>1. qs \in Seq(Nat) /\ \A j \in 1 .. Len(qs) : Gone(s, qs[j]) /\ qs[j] < b
      BY <2>3, <1>2, <1>3
    <3> HIDE DEF qs, t
    <3>2. Evolves(s, t, b) /\ t.cids = s.cids /\ t.largest = s.largest
      BY <3>1, <2>1, <2>3, RetirementsLostProp DEF t
    <3>3. Evolves(r, t, b)
      BY <2>1, <2>3, <3>2, EvolvesTwice
    <3>4. t \in RemoteSet
      BY <3>2 DEF Evolves, RemoteInv
    <3>5. t \in S
      BY <3>2, <3>3, <3>4, <1>2
    <3> QED
      BY <2>3, <3>5 DEF t, qs
  <2>4. CASE ~(IsRetireInFlight(ps[k]) /\ s.error = "none")
    BY <2>4
  <2> QED
    BY <2>3, <2>4
<1>21. ASSUME NEW s \in S, NEW k \in 1 .. n PROVE F[<<s, k>>] = IF IsRetireInFlight(ps[k]) /\ s.error = "none" THEN RetirementsLost(s, ps[k].seqs) ELSE s
  <2> HIDE DEF S, n
  <2> QED
    OBVIOUS
<1> HIDE DEF S, F, n
<1>22. PICK f \in [0 .. n -> S] : Repeats(f, F, r, n)
  <2>1. StaysIn(F, S, n)
    BY <1>20, <1>21 DEF StaysIn
  <2> QED
    BY <1>1, <2>1, Recursion
<1>23. f = [k \in 0 .. n |-> IF k = 0 THEN r ELSE IF IsRetireInFlight(ps[k]) /\ f[k - 1].error = "none" THEN RetirementsLost(f[k - 1], ps[k].seqs) ELSE f[k - 1]]
  <2>1. ASSUME NEW k \in 0 .. n PROVE f[k] = IF k = 0 THEN r ELSE IF IsRetireInFlight(ps[k]) /\ f[k - 1].error = "none" THEN RetirementsLost(f[k - 1], ps[k].seqs) ELSE f[k - 1]
    <3>1. CASE k = 0
      BY <3>1, <1>22 DEF Repeats
    <3>2. CASE k # 0
      <4>1. k \in 1 .. n /\ k - 1 \in 0 .. n
        BY <3>2, <1>1
      <4> QED
        BY <4>1, <3>2, <1>21, <1>22 DEF Repeats
    <3> QED
      BY <3>1, <3>2
  <2>2. f = [k \in 0 .. n |-> f[k]]
    BY <1>22
  <2> QED
    BY <2>1, <2>2, Zenon
<1>24. g = [k \in 0 .. n |-> IF k = 0 THEN r ELSE IF IsRetireInFlight(ps[k]) /\ g[k - 1].error = "none" THEN RetirementsLost(g[k - 1], ps[k].seqs) ELSE g[k - 1]]
  BY <1>23 DEF AllLostInTurn, n
<1> HIDE DEF g
<1>25. g[0] = r /\ \A k \in 1 .. n : g[k] = IF IsRetireInFlight(ps[k]) /\ g[k - 1].error = "none" THEN RetirementsLost(g[k - 1], ps[k].seqs) ELSE g[k - 1]
  BY <1>1, <1>24
<1>26. \A k \in 0 .. n : g[k] \in S
  <2> DEFINE T == {k \in 0 .. n : g[k] \in S}
  <2>1. 0 \in T
    BY <1>1, <1>25
  <2>2. ASSUME NEW k \in 0 .. n - 1, k \in T PROVE k + 1 \in T
    <3>1. k + 1 \in 1 .. n /\ k + 1 \in 0 .. n /\ (k + 1) - 1 = k /\ g[k] \in S
      BY <1>1, <2>2
    <3>2. g[k + 1] = IF IsRetireInFlight(ps[k + 1]) /\ g[k].error = "none" THEN RetirementsLost(g[k], ps[k + 1].seqs) ELSE g[k]
      BY <3>1, <1>25
    <3> QED
      BY <3>1, <3>2, <1>20
  <2> HIDE DEF T
  <2>3. \A k \in 0 .. n : k \in T
    BY <1>1, <2>1, <2>2, SetInduction
  <2> QED
    BY <2>3 DEF T
<1> DEFINE T == {k \in 0 .. n : g[k].error = "none" => \A i \in 1 .. k : IsRetireInFlight(ps[i]) =>
              \A j \in 1 .. Len(ps[i].seqs) : Listed(g[k].retired, ps[i].seqs[j])}
<1>27. 0 \in T
  BY <1>1
<1>28. ASSUME NEW k \in 0 .. n - 1, k \in T PROVE k + 1 \in T
  <2>1. k + 1 \in 1 .. n /\ k + 1 \in 0 .. n /\ k \in 0 .. n /\ (k + 1) - 1 = k
    BY <1>1
  <2>2. g[k + 1] = IF IsRetireInFlight(ps[k + 1]) /\ g[k].error = "none" THEN RetirementsLost(g[k], ps[k + 1].seqs) ELSE g[k]
    BY <2>1, <1>25
  <2>3. g[k] \in S
    BY <2>1, <1>26
  <2>4. ASSUME g[k + 1].error = "none" PROVE \A i \in 1 .. k + 1 : IsRetireInFlight(ps[i]) =>
              \A j \in 1 .. Len(ps[i].seqs) : Listed(g[k + 1].retired, ps[i].seqs[j])
    <3>1. g[k].error = "none"
      BY <2>2, <2>4
    <3>2. RemoteInv(g[k])
      BY <2>3, <1>2
    <3>3. /\ Evolves(g[k], g[k + 1], b)
          /\ IsRetireInFlight(ps[k + 1]) =>
                \A j \in 1 .. Len(ps[k + 1].seqs) : Listed(g[k + 1].retired, ps[k + 1].seqs[j])
      <4>1. CASE IsRetireInFlight(ps[k + 1])
        <5> DEFINE qs == ps[k + 1].seqs
                   s == g[k]
        <5>1. g[k + 1] = RetirementsLost(s, qs)
          BY <4>1, <2>2, <3>1
        <5>2. qs \in Seq(Nat) /\ \A j \in 1 .. Len(qs) : Gone(s, qs[j]) /\ qs[j] < b
          BY <4>1, <2>1, <2>3, <1>2, <1>3
        <5> HIDE DEF qs, s
        <5>3. Evolves(s, RetirementsLost(s, qs), b)
              /\ (RetirementsLost(s, qs).error = "none" =>
                    \A j \in 1 .. Len(qs) : Listed(RetirementsLost(s, qs).retired, qs[j]))
          BY <3>1, <3>2, <5>2, RetirementsLostProp DEF s
        <5> QED
          BY <2>4, <5>1, <5>3 DEF s, qs
      <4>2. CASE ~IsRetireInFlight(ps[k + 1])
        <5>1. g[k + 1] = g[k]
          BY <4>2, <2>2
        <5> QED
          BY <4>2, <5>1, <3>1, <3>2, EvolvesNot
      <4> QED
        BY <4>1, <4>2
    <3>4. \A i \in 1 .. k : IsRetireInFlight(ps[i]) =>
              \A j \in 1 .. Len(ps[i].seqs) : Listed(g[k].retired, ps[i].seqs[j])
      BY <3>1, <1>28
    <3>5. \A i \in 1 .. k : IsRetireInFlight(ps[i]) =>
              \A j \in 1 .. Len(ps[i].seqs) : Listed(g[k + 1].retired, ps[i].seqs[j])
      <4>1. \A x : Listed(g[k].retired, x) => Listed(g[k + 1].retired, x)
        BY <3>2, <3>3, ListedKept
      <4> QED
        BY <3>4, <4>1
    <3>6. \A i \in 1 .. k + 1 : i \in 1 .. k \/ i = k + 1
      BY <1>1
    <3> QED
      BY <3>3, <3>5, <3>6
  <2> QED
    BY <2>1, <2>4
<1>29. n \in T
  <2> HIDE DEF T
  <2>1. \A k \in 0 .. n : k \in T
    BY <1>1, <1>27, <1>28, SetInduction
  <2> QED
    BY <2>1, <1>1
<1>30. g[n] \in S
  BY <1>1, <1>26
<1>31. Evolves(r, g[n], b) /\ g[n].cids = r.cids /\ g[n].largest = r.largest
  BY <1>30 DEF S
<1>32. g[n].error = "none" => \A i \in 1 .. n : IsRetireInFlight(ps[i]) =>
              \A j \in 1 .. Len(ps[i].seqs) : Listed(g[n].retired, ps[i].seqs[j])
  BY <1>29
<1> QED
  BY <1>31, <1>32 DEF g, n

(* One RETIRE_CONNECTION_ID frame. *)
Handled(a, q) ==
    IF a.error # "none" THEN a
    ELSE IF RetireError(a.set, q) # "none" THEN [set |-> a.set, error |-> RetireError(a.set, q)]
    ELSE [set |-> Retire(a.set, q), error |-> "none"]

(* handle_retire_connection_id_frame, for each frame of a packet: there is  *)
(* no error if the numbers have been issued and one of the issued ones, x,  *)
(* is not in the packet.                                                    *)
LEMMA RetiredInTurnProp ==
    ASSUME NEW l, LocalInv(l), NEW qs \in Seq(0 .. MaxPathId - 1), \A k \in 1 .. Len(qs) : qs[k] < l.next,
           NEW x, x \in Issued(l), \A k \in 1 .. Len(qs) : qs[k] # x,
           NEW m, m = RetiredInTurn(l, qs)[Len(qs)]
    PROVE  /\ m.error = "none" /\ LocalInv(m.set) /\ l.next <= m.set.next /\ x \in Issued(m.set)
           /\ \A y : y \in Inflight(m.set) => y \in Inflight(l)
           /\ \A y : y \in Issued(m.set) => y \in Issued(l) \/ ~(y < l.next)
           /\ \A y \in 0 .. m.set.next - 1 :
                 y \in Issued(m.set) \/ (y < l.next /\ (y \notin Issued(l) \/ Listed(qs, y)))
           /\ \A j \in 1 .. Len(qs) : qs[j] \notin Issued(m.set)
<1> DEFINE n == Len(qs)
           g == RetiredInTurn(l, qs)
           S == {a \in [set : LocalSet, error : {"none"}] :
                   /\ LocalInv(a.set) /\ l.next <= a.set.next /\ x \in Issued(a.set)
                   /\ \A y : y \in Inflight(a.set) => y \in Inflight(l)
                   /\ \A y : y \in Issued(a.set) => y \in Issued(l) \/ ~(y < l.next)
                   /\ \A y \in 0 .. a.set.next - 1 :
                         y \in Issued(a.set) \/ (y < l.next /\ (y \notin Issued(l) \/ Listed(qs, y)))}
           F == [z \in S \X (1 .. n) |-> Handled(z[1], qs[z[2]])]
<1>1. n \in Nat /\ [set |-> l, error |-> "none"] \in S
  <2>1. l \in LocalSet /\ l.next \in Nat /\ l.next <= l.next
    BY LocalCidsAssumption DEF LocalInv, LocalSet
  <2>2. \A y \in 0 .. l.next - 1 : y \in Issued(l) \/ (y < l.next /\ (y \notin Issued(l) \/ Listed(qs, y)))
    BY <2>1
  <2>3. n \in Nat
    OBVIOUS
  <2> QED
    BY <2>1, <2>2, <2>3
<1>2. ASSUME NEW a \in S, NEW k \in 1 .. n
      PROVE  /\ Handled(a, qs[k]) = [set |-> Retire(a.set, qs[k]), error |-> "none"]
             /\ LocalInv(a.set) /\ l.next \in Nat /\ a.set.next \in Nat /\ l.next <= a.set.next
             /\ qs[k] \in Nat /\ qs[k] # NoSeq /\ qs[k] < l.next
  <2>1. a.error = "none" /\ LocalInv(a.set) /\ l.next <= a.set.next /\ x \in Issued(a.set)
    OBVIOUS
  <2>2. a.set.next \in Nat /\ l.next \in Nat
    BY <2>1, LocalCidsAssumption DEF LocalInv, LocalSet
  <2>3. qs[k] \in 0 .. MaxPathId - 1 /\ qs[k] < l.next /\ qs[k] # x
    BY SeqElement
  <2>4. qs[k] \in Nat /\ qs[k] # NoSeq
    BY <2>3, LocalCidsAssumption DEF NoSeq
  <2>5. RetireError(a.set, qs[k]) = "none"
    <3>1. ~(qs[k] >= a.set.next)
      BY <2>1, <2>2, <2>3, <2>4
    <3>2. Issued(a.set) # {qs[k]}
      BY <2>1, <2>3
    <3> QED
      BY <3>1, <3>2 DEF RetireError, BecomesEmpty
  <2> QED
    BY <2>1, <2>2, <2>3, <2>4, <2>5 DEF Handled
<1>20. ASSUME NEW a \in S, NEW k \in 1 .. n PROVE Handled(a, qs[k]) \in S
  <2> DEFINE q == qs[k]
             t == Retire(a.set, q)
  <2>1. /\ Handled(a, q) = [set |-> t, error |-> "none"]
        /\ LocalInv(a.set) /\ l.next \in Nat /\ a.set.next \in Nat /\ l.next <= a.set.next
        /\ q \in Nat /\ q # NoSeq /\ q < l.next
    BY <1>2
  <2>2. q # x /\ Listed(qs, q)
    BY DEF Listed
  <2> HIDE DEF q
  <2>3. /\ LocalInv(t) /\ Inflight(t) = Inflight(a.set) \ {q}
        /\ \/ t.next = a.set.next /\ Issued(t) = Issued(a.set) \ {q}
           \/ t.next = a.set.next + 1 /\ Issued(t) = (Issued(a.set) \ {q}) \cup {a.set.next}
    BY <2>1, RetireProp
  <2> HIDE DEF t
  <2>4. t \in LocalSet /\ t.next \in Nat /\ l.next <= t.next /\ x \in Issued(t)
    <3>1. x \in Issued(a.set)
      OBVIOUS
    <3>2. t \in LocalSet
      BY <2>3 DEF LocalInv
    <3> HIDE DEF S
    <3> QED
      BY <3>1, <3>2, <2>1, <2>2, <2>3
  <2>5. \A y : y \in Inflight(t) => y \in Inflight(l)
    BY <2>3
  <2>6. \A y : y \in Issued(t) => y \in Issued(l) \/ ~(y < l.next)
    <3>1. \A y : y \in Issued(a.set) => y \in Issued(l) \/ ~(y < l.next)
      OBVIOUS
    <3>2. ~(a.set.next < l.next)
      BY <2>1
    <3> HIDE DEF S
    <3> QED
      BY <3>1, <3>2, <2>3
  <2>7. ASSUME NEW y \in 0 .. t.next - 1
        PROVE  y \in Issued(t) \/ (y < l.next /\ (y \notin Issued(l) \/ Listed(qs, y)))
    <3>1. \A z \in 0 .. a.set.next - 1 :
             z \in Issued(a.set) \/ (z < l.next /\ (z \notin Issued(l) \/ Listed(qs, z)))
      OBVIOUS
    <3> HIDE DEF S
    <3>2. CASE y = a.set.next
      <4>1. Issued(t) = (Issued(a.set) \ {q}) \cup {a.set.next}
        BY <3>2, <2>1, <2>3
      <4> QED
        BY <4>1, <3>2
    <3>3. CASE y # a.set.next
      <4>1. y \in 0 .. a.set.next - 1
        BY <3>3, <2>1, <2>3
      <4>2. CASE y = q
        BY <4>2, <2>1, <2>2
      <4>3. CASE y # q
        <5>1. y \in Issued(a.set) => y \in Issued(t)
          BY <4>3, <2>3
        <5> QED
          BY <4>1, <5>1, <3>1
      <4> QED
        BY <4>2, <4>3
    <3> QED
      BY <3>2, <3>3
  <2>8. [set |-> t, error |-> "none"] \in S
    BY <2>3, <2>4, <2>5, <2>6, <2>7
  <2> QED
    BY <2>1, <2>8 DEF q
<1>21. ASSUME NEW s \in S, NEW k \in 1 .. n PROVE F[<<s, k>>] = Handled(s, qs[k])
  <2> HIDE DEF S, n
  <2> QED
    OBVIOUS
<1> HIDE DEF S, F, n
<1>22. PICK f \in [0 .. n -> S] : Repeats(f, F, [set |-> l, error |-> "none"], n)
  <2>1. StaysIn(F, S, n)
    BY <1>20, <1>21 DEF StaysIn
  <2> QED
    BY <1>1, <2>1, Recursion
<1>23. f = [k \in 0 .. n |-> IF k = 0 THEN [set |-> l, error |-> "none"] ELSE Handled(f[k - 1], qs[k])]
  <2>1. ASSUME NEW k \in 0 .. n PROVE f[k] = IF k = 0 THEN [set |-> l, error |-> "none"] ELSE Handled(f[k - 1], qs[k])
    <3>1. CASE k = 0
      BY <3>1, <1>22 DEF Repeats
    <3>2. CASE k # 0
      <4>1. k \in 1 .. n /\ k - 1 \in 0 .. n
        BY <3>2, <1>1
      <4> QED
        BY <4>1, <3>2, <1>21, <1>22 DEF Repeats
    <3> QED
      BY <3>1, <3>2
  <2>2. f = [k \in 0 .. n |-> f[k]]
    BY <1>22
  <2> QED
    BY <2>1, <2>2, Zenon
<1>24. g = [k \in 0 .. n |-> IF k = 0 THEN [set |-> l, error |-> "none"] ELSE Handled(g[k - 1], qs[k])]
  BY <1>23 DEF RetiredInTurn, Handled, n
<1> HIDE DEF g
<1>25. g[0] = [set |-> l, error |-> "none"] /\ \A k \in 1 .. n : g[k] = Handled(g[k - 1], qs[k])
  BY <1>1, <1>24
<1>26. \A k \in 0 .. n : g[k] \in S
  <2> DEFINE T == {k \in 0 .. n : g[k] \in S}
  <2>1. 0 \in T
    BY <1>1, <1>25
  <2>2. ASSUME NEW k \in 0 .. n - 1, k \in T PROVE k + 1 \in T
    <3>1. k + 1 \in 1 .. n /\ k + 1 \in 0 .. n /\ (k + 1) - 1 = k /\ g[k] \in S
      BY <1>1, <2>2
    <3>2. g[k + 1] = Handled(g[k], qs[k + 1])
      BY <3>1, <1>25
    <3> QED
      BY <3>1, <3>2, <1>20
  <2> HIDE DEF T
  <2>3. \A k \in 0 .. n : k \in T
    BY <1>1, <2>1, <2>2, SetInduction
  <2> QED
    BY <2>3 DEF T
<1> DEFINE T == {k \in 0 .. n : \A j \in 1 .. k : qs[j] \notin Issued(g[k].set)}
<1>27. 0 \in T
  BY <1>1
<1>28. ASSUME NEW k \in 0 .. n - 1, k \in T PROVE k + 1 \in T
  <2> DEFINE a == g[k]
             q == qs[k + 1]
             t == Retire(a.set, q)
  <2>1. k + 1 \in 1 .. n /\ k + 1 \in 0 .. n /\ k \in 0 .. n /\ (k + 1) - 1 = k
    BY <1>1
  <2>2. g[k + 1] = Handled(a, q) /\ a \in S
    BY <2>1, <1>25, <1>26
  <2>3. /\ Handled(a, q) = [set |-> t, error |-> "none"]
        /\ LocalInv(a.set) /\ l.next \in Nat /\ a.set.next \in Nat /\ l.next <= a.set.next
        /\ q \in Nat /\ q # NoSeq /\ q < l.next
    BY <2>1, <2>2, <1>2
  <2>4. Issued(t) = Issued(a.set) \ {q} \/ Issued(t) = (Issued(a.set) \ {q}) \cup {a.set.next}
    BY <2>3, RetireProp
  <2>5. g[k + 1].set = t
    BY <2>2, <2>3
  <2>6. \A j \in 1 .. k : qs[j] \notin Issued(a.set)
    BY <1>28
  <2> HIDE DEF a, t
  <2>7. ASSUME NEW j \in 1 .. k + 1 PROVE qs[j] \notin Issued(t)
    <3>1. j \in 1 .. k \/ j = k + 1
      BY <1>1
    <3>2. j \in 1 .. n
      BY <1>1
    <3>3. qs[j] # a.set.next
      <4>1. qs[j] < l.next /\ qs[j] \in Nat
        BY <3>2, <2>2, <1>2
      <4> QED
        BY <4>1, <2>3
    <3> QED
      BY <3>1, <3>3, <2>4, <2>6
  <2> QED
    BY <2>1, <2>5, <2>7
<1>29. n \in T
  <2> HIDE DEF T
  <2>1. \A k \in 0 .. n : k \in T
    BY <1>1, <1>27, <1>28, SetInduction
  <2> QED
    BY <2>1, <1>1
<1>30. g[n] \in S /\ m = g[n]
  BY <1>1, <1>26 DEF g, n
<1>31. \A j \in 1 .. n : qs[j] \notin Issued(m.set)
  BY <1>29, <1>30
<1> QED
  BY <1>30, <1>31 DEF S, n

LEMMA IntervalSize ==
    ASSUME NEW n \in Nat
    PROVE  IsFiniteSet(1 .. n) /\ Cardinality(1 .. n) = n
BY FS_Interval

(* The user expects every CID that has been issued: the issued CIDs that    *)
(* are not retired fit in the entries of the set.                           *)
LEMMA IssuedIsExpected ==
    ASSUME NEW l, LocalInv(l), NEW r, RemoteInv(r),
           \A q \in 0 .. l.next - 1 : q \in Issued(l) \/ Gone(r, q)
    PROVE  l.next - 1 <= r.largest
<1> DEFINE v(i) == IF i <= Limit THEN r.cids[i].seq ELSE r.largest + 1
           D == 1 .. Limit + 1
           f == [i \in D |-> CHOOSE j \in 1 .. LocalSize : l.cids[j].seq = v(i)]
<1>1. /\ Limit \in Nat /\ LocalSize \in Nat /\ LocalSize <= Limit /\ l.next \in Nat /\ r.largest \in Nat
      /\ \A i \in 1 .. Limit : r.cids[i].seq \in Nat /\ r.cids[i].seq <= r.largest
      /\ \A i, j \in 1 .. Limit : r.cids[i].seq = r.cids[j].seq => i = j
  <2>1. \A i \in 1 .. Limit : r.cids[i] \in RemoteEntry
    BY DEF RemoteInv, RemoteSet
  <2>2. \A i \in 1 .. Limit : r.cids[i].seq \in Nat
    BY <2>1 DEF RemoteEntry
  <2> QED
    BY <2>2, LocalCidsAssumption, RemoteCidsAssumption, ConnectionIdsAssumption
       DEF LocalInv, LocalSet, RemoteInv, RemoteSet
<1>2. SUFFICES ASSUME r.largest + 1 <= l.next - 1 PROVE FALSE
  BY <1>1
<1>3. ASSUME NEW i \in D PROVE v(i) \in 0 .. l.next - 1 /\ ~Gone(r, v(i))
  <2>1. CASE i <= Limit
    <3>1. i \in 1 .. Limit /\ v(i) = r.cids[i].seq
      BY <2>1, <1>1
    <3> HIDE DEF v
    <3>2. Present(r, v(i))
      BY <3>1 DEF Present
    <3>3. v(i) \in 0 .. l.next - 1
      BY <3>1, <1>1, <1>2
    <3> QED
      BY <3>2, <3>3 DEF Gone
  <2>2. CASE ~(i <= Limit)
    <3>1. v(i) = r.largest + 1
      BY <2>2
    <3> HIDE DEF v
    <3>2. ~(v(i) \in 0 .. r.largest) /\ v(i) \in 0 .. l.next - 1
      BY <3>1, <1>1, <1>2
    <3> QED
      BY <3>2 DEF Gone
  <2> QED
    BY <2>1, <2>2
<1>4. ASSUME NEW i \in D PROVE \E j \in 1 .. LocalSize : l.cids[j].seq = v(i)
  <2> HIDE DEF v
  <2>1. v(i) \in Issued(l)
    BY <1>3
  <2> QED
    BY <2>1, EntryNumbers
<1>5. \A i, j \in D : v(i) = v(j) => i = j
  BY <1>1
<1> HIDE DEF v
<1>6. \A i \in D : f[i] \in 1 .. LocalSize /\ l.cids[f[i]].seq = v(i)
  BY <1>4
<1>7. f \in [D -> 1 .. LocalSize]
  BY <1>6
<1>8. /\ IsFiniteSet(D) /\ Cardinality(D) = Limit + 1
      /\ IsFiniteSet(1 .. LocalSize) /\ Cardinality(1 .. LocalSize) = LocalSize
  BY <1>1, IntervalSize
<1>9. Cardinality(1 .. LocalSize) < Cardinality(D)
  BY <1>1, <1>8
<1> HIDE DEF f, D
<1>10. PICK x, y \in D : x # y /\ f[x] = f[y]
  BY <1>7, <1>8, <1>9, FS_PigeonHole
<1> QED
  BY <1>5, <1>6, <1>10

-------------------------------------------------------------------------------
(* The inductive invariant. *)

(* The two sets.  Every number below next is still issued, or has left the  *)
(* user's set.                                                              *)
SetsInv(l, r) ==
    /\ LocalInv(l) /\ RemoteInv(r) /\ r.error = "none"
    /\ \A q : Listed(r.retired, q) => q < l.next
    /\ \A q : Known(r, q) => q < l.next
    /\ \A q : Gone(r, q) => q < l.next
    /\ \A q \in 0 .. l.next - 1 : q \in Issued(l) \/ Gone(r, q)

IsSent(k, kind) == k.kind = kind /\ k.map = "inflight"

(* A packet: what it retires has left the user's set, and the issuer's when *)
(* it has been received.                                                    *)
PacketInv(k, l, r) ==
    /\ k \in Packet
    /\ \A q : Listed(k.seqs, q) => q < l.next
    /\ k.kind = "retire" => \A q : Listed(k.seqs, q) => Gone(r, q)
    /\ k.kind = "retire" /\ k.net = "received" => \A q : Listed(k.seqs, q) => q \notin Issued(l)

PacketsInv(l, r, ps) == ps \in Seq(Packet) /\ \A k : Listed(ps, k) => PacketInv(k, l, r)

(* One of the issued numbers is not about to be retired. *)
SpareInv(l, ps) ==
    \E x \in Issued(l) :
        \A k : Listed(ps, k) /\ k.kind = "retire" /\ k.net = "transit" => ~Listed(k.seqs, x)

(* The paths have the CIDs in use, each path its own. *)
PathsInv(r, pa) ==
    /\ pa \in [0 .. NumPaths - 1 -> Path]
    /\ \A p, q \in 0 .. NumPaths - 1 : pa[p].dcid = pa[q].dcid /\ pa[p].dcid # NoSeq => p = q
    /\ \A p \in 0 .. NumPaths - 1 : pa[p].dcid # NoSeq => InUse(r, pa[p].dcid)
    /\ \A q : InUse(r, q) => \E p \in 0 .. NumPaths - 1 : pa[p].dcid = q

(* A packet in flight has a frame of that kind for x. *)
Carried(ps, kind, x) == \E k : Listed(ps, k) /\ IsSent(k, kind) /\ Listed(k.seqs, x)

(* What the issuer has sent is in a packet that is in flight. *)
NewInv(l, ps) == \A x : x \in Inflight(l) => Carried(ps, "new", x)

(* What the user has retired is queued, or in a packet that is in flight. *)
RetireInv(l, r, ps) ==
    \A x : x \in Issued(l) /\ Gone(r, x) => Listed(r.retired, x) \/ Carried(ps, "retire", x)

(* With a peer that never asks for a retirement, the default path and every *)
(* path that was probed have a CID.                                         *)
ProbedInv(pa) ==
    /\ pa[0].dcid # NoSeq
    /\ \A p \in 0 .. NumPaths - 1 : pa[p].phase \in {"probed", "valid"} => pa[p].dcid # NoSeq

(* While the connection is open. *)
OpenInv(l, r, pa, ps) ==
    /\ SetsInv(l, r) /\ PacketsInv(l, r, ps) /\ SpareInv(l, ps) /\ PathsInv(r, pa)
    /\ NewInv(l, ps)
    /\ ~PartialRetire => RetireInv(l, r, ps)
    /\ RotateBelow = 0 => ProbedInv(pa)

(* Also when it has been destroyed. *)
AlwaysInv(l, r, pa, ps, c) ==
    /\ LocalInv(l) /\ RemoteInv(r) /\ pa \in [0 .. NumPaths - 1 -> Path]
    /\ ps \in Seq(Packet) /\ Len(ps) <= MaxPackets
    /\ c \in {"none", "exhausted"}

StateInv(l, r, pa, ps, c) ==
    AlwaysInv(l, r, pa, ps, c) /\ (c = "none" => OpenInv(l, r, pa, ps))

IInv == StateInv(local, remote, paths, packets, closed)

-------------------------------------------------------------------------------
(* How the parts of the invariant follow the sets, the paths and the packets. *)

(* The user's set evolves, without an error. *)
LEMMA SetsEvolve ==
    ASSUME NEW l, NEW r, NEW s, SetsInv(l, r), Evolves(r, s, l.next), s.error = "none", NEW ps
    PROVE  /\ SetsInv(l, s)
           /\ PacketsInv(l, r, ps) => PacketsInv(l, s, ps)
           /\ RetireInv(l, r, ps) => RetireInv(l, s, ps)
<1>1. SetsInv(l, s)
  BY DEF SetsInv, Evolves
<1>2. \A q : Gone(r, q) => Gone(s, q)
  BY DEF Evolves
<1>3. ASSUME PacketsInv(l, r, ps) PROVE PacketsInv(l, s, ps)
  BY <1>2, <1>3 DEF PacketsInv, PacketInv
<1>4. ASSUME RetireInv(l, r, ps) PROVE RetireInv(l, s, ps)
  <2>1. \A q : Listed(r.retired, q) => Listed(s.retired, q)
    BY ListedKept DEF SetsInv
  <2>2. \A q : Gone(s, q) => Gone(r, q) \/ Listed(s.retired, q)
    BY DEF Evolves
  <2> QED
    BY <2>1, <2>2, <1>4 DEF RetireInv
<1> QED
  BY <1>1, <1>3, <1>4

(* A CID in use is not gone, has a number that has been issued, and is one  *)
(* the issuer still answers to.                                             *)
LEMMA InUseIsIssued ==
    ASSUME NEW l, NEW r, SetsInv(l, r), NEW q, InUse(r, q)
    PROVE  q \in Nat /\ q # NoSeq /\ q < l.next /\ ~Gone(r, q) /\ q \in Issued(l)
<1>1. PICK i \in 1 .. Limit : r.cids[i].seq = q /\ r.cids[i].state = "in_use"
  BY DEF InUse
<1>20. RemoteInv(r) /\ LocalInv(l)
  BY DEF SetsInv
<1>21. r.cids[i] \in RemoteEntry
  BY <1>20 DEF RemoteInv, RemoteSet
<1>22. l.next \in Nat
  BY <1>20, LocalCidsAssumption DEF LocalInv, LocalSet
<1>2. r.cids[i] \in RemoteEntry /\ l.next \in Nat
  BY <1>21, <1>22
<1>3. q \in Nat /\ q # NoSeq
  BY <1>1, <1>2 DEF RemoteEntry, NoSeq
<1>4. Known(r, q) /\ Present(r, q)
  BY <1>1 DEF Known, Present
<1>5. q < l.next /\ ~Gone(r, q)
  BY <1>4 DEF SetsInv, Gone
<1>6. q \in 0 .. l.next - 1
  BY <1>2, <1>3, <1>5
<1> QED
  BY <1>3, <1>5, <1>6 DEF SetsInv

(* The CIDs in Q are no longer in use; the paths that had them lose them. *)
Released(r, s, Q) ==
    /\ \A q : InUse(r, q) => (InUse(s, q) <=> q \notin Q)
    /\ \A q : InUse(s, q) => InUse(r, q)

Detached(pa, pb, Q) ==
    \A p \in 0 .. NumPaths - 1 : /\ pa[p].dcid \in Q => pb[p].dcid = NoSeq
                                 /\ pa[p].dcid \notin Q => pb[p].dcid = pa[p].dcid

LEMMA PathsDissociate ==
    ASSUME NEW r, NEW s, NEW pa, PathsInv(r, pa), NEW Q, Released(r, s, Q),
           NEW pb \in [0 .. NumPaths - 1 -> Path], Detached(pa, pb, Q)
    PROVE  PathsInv(s, pb)
<1> USE DEF Released, Detached
<1>1. ASSUME NEW p \in 0 .. NumPaths - 1, pb[p].dcid # NoSeq
      PROVE  pb[p].dcid = pa[p].dcid /\ InUse(s, pb[p].dcid)
  BY <1>1 DEF PathsInv
<1>2. ASSUME NEW q, InUse(s, q) PROVE \E p \in 0 .. NumPaths - 1 : pb[p].dcid = q
  <2>1. PICK p \in 0 .. NumPaths - 1 : pa[p].dcid = q
    BY <1>2 DEF PathsInv
  <2> QED
    BY <2>1, <1>2
<1>3. \A p, q \in 0 .. NumPaths - 1 : pb[p].dcid = pb[q].dcid /\ pb[p].dcid # NoSeq => p = q
  BY <1>1 DEF PathsInv
<1> QED
  BY <1>1, <1>2, <1>3 DEF PathsInv

(* Two paths change places. *)
Exchanged(pa, pb, a, b) ==
    /\ pb[a].dcid = pa[b].dcid /\ pb[b].dcid = pa[a].dcid
    /\ \A p \in 0 .. NumPaths - 1 : p # a /\ p # b => pb[p].dcid = pa[p].dcid

LEMMA PathsExchange ==
    ASSUME NEW r, NEW pa, PathsInv(r, pa), NEW pb \in [0 .. NumPaths - 1 -> Path],
           NEW a \in 0 .. NumPaths - 1, NEW b \in 0 .. NumPaths - 1, Exchanged(pa, pb, a, b)
    PROVE  PathsInv(r, pb)
<1> USE DEF Exchanged
<1>1. ASSUME NEW p \in 0 .. NumPaths - 1, pb[p].dcid # NoSeq PROVE InUse(r, pb[p].dcid)
  BY <1>1 DEF PathsInv
<1>2. ASSUME NEW q, InUse(r, q) PROVE \E p \in 0 .. NumPaths - 1 : pb[p].dcid = q
  <2>1. PICK p \in 0 .. NumPaths - 1 : pa[p].dcid = q
    BY <1>2 DEF PathsInv
  <2> QED
    BY <2>1
<1>3. \A p, q \in 0 .. NumPaths - 1 : pb[p].dcid = pb[q].dcid /\ pb[p].dcid # NoSeq => p = q
  BY DEF PathsInv
<1> QED
  BY <1>1, <1>2, <1>3 DEF PathsInv

(* A path without a CID gets one that was not in use. *)
PutToUse(r, s, d) == ~InUse(r, d) /\ \A q : InUse(s, q) <=> InUse(r, q) \/ q = d

Attached(pa, pb, a, d) ==
    /\ pa[a].dcid = NoSeq /\ pb[a].dcid = d
    /\ \A p \in 0 .. NumPaths - 1 : p # a => pb[p].dcid = pa[p].dcid

LEMMA PathsAssign ==
    ASSUME NEW r, NEW s, NEW pa, PathsInv(r, pa), NEW d, PutToUse(r, s, d), ~InUse(r, NoSeq),
           NEW pb \in [0 .. NumPaths - 1 -> Path], NEW a \in 0 .. NumPaths - 1, Attached(pa, pb, a, d)
    PROVE  PathsInv(s, pb)
<1> USE DEF PutToUse, Attached
<1>1. ASSUME NEW p \in 0 .. NumPaths - 1, pb[p].dcid # NoSeq PROVE InUse(s, pb[p].dcid)
  BY <1>1 DEF PathsInv
<1>2. ASSUME NEW q, InUse(s, q) PROVE \E p \in 0 .. NumPaths - 1 : pb[p].dcid = q
  <2>1. CASE q = d
    BY <2>1
  <2>2. CASE q # d
    <3>1. PICK p \in 0 .. NumPaths - 1 : pa[p].dcid = q
      BY <1>2, <2>2 DEF PathsInv
    <3>2. p # a
      BY <3>1, <1>2, <2>2
    <3> QED
      BY <3>1, <3>2
  <2> QED
    BY <2>1, <2>2
<1>3. ASSUME NEW p \in 0 .. NumPaths - 1, NEW q \in 0 .. NumPaths - 1,
             pb[p].dcid = pb[q].dcid, pb[p].dcid # NoSeq
      PROVE  p = q
  <2>1. CASE p # a /\ q # a
    BY <1>3, <2>1 DEF PathsInv
  <2>2. CASE p = a /\ q # a
    BY <1>3, <2>2 DEF PathsInv
  <2>3. CASE p # a /\ q = a
    BY <1>3, <2>3 DEF PathsInv
  <2> QED
    BY <2>1, <2>2, <2>3
<1> QED
  BY <1>1, <1>2, <1>3 DEF PathsInv

(* A packet changes, and is forgotten when it is settled. *)
LEMMA PacketChanges ==
    ASSUME NEW ps \in Seq(Packet), NEW i \in 1 .. Len(ps), NEW k \in Packet
    PROVE  /\ Changed(ps, i, k) \in Seq(Packet) /\ Len(Changed(ps, i, k)) <= Len(ps)
           /\ \A x : Listed(Changed(ps, i, k), x) => x = k \/ Listed(ps, x)
           /\ \A x : Listed(ps, x) => x = ps[i] \/ Listed(Changed(ps, i, k), x)
           /\ ~(k.map = "gone" /\ k.net # "transit") => Listed(Changed(ps, i, k), k)
<1> DEFINE n == Changed(ps, i, k)
<1>1. CASE k.map = "gone" /\ k.net # "transit"
  <2>1. n = SubSeq(ps, 1, i - 1) \o SubSeq(ps, i + 1, Len(ps))
    BY <1>1 DEF Changed, RemoveAt
  <2> DEFINE a == SubSeq(ps, 1, i - 1)
             b == SubSeq(ps, i + 1, Len(ps))
  <2>2. a \in Seq(Packet) /\ Len(a) = i - 1 /\ \A j \in 1 .. i - 1 : a[j] = ps[j]
    OBVIOUS
  <2>3. b \in Seq(Packet) /\ Len(b) = Len(ps) - i /\ \A j \in 1 .. Len(ps) - i : b[j] = ps[i + j]
    OBVIOUS
  <2> HIDE DEF a, b
  <2>4. n = a \o b
    BY <2>1 DEF a, b
  <2> HIDE DEF n
  <2>5. n \in Seq(Packet) /\ Len(n) = Len(ps) - 1
    BY <2>2, <2>3, <2>4
  <2>6. ASSUME NEW j \in 1 .. Len(ps) - 1 PROVE (j < i => n[j] = ps[j]) /\ (j >= i => n[j] = ps[j + 1])
    <3>1. CASE j < i
      <4>1. j \in 1 .. Len(a) /\ j \in 1 .. i - 1
        BY <3>1, <2>2
      <4>2. n[j] = a[j]
        BY <4>1, <2>2, <2>3, <2>4
      <4> QED
        BY <4>1, <4>2, <3>1, <2>2
    <3>2. CASE j >= i
      <4>1. /\ j - (i - 1) \in 1 .. Len(ps) - i /\ i + (j - (i - 1)) = j + 1
            /\ j > Len(a) /\ j <= Len(a) + Len(b) /\ j - Len(a) = j - (i - 1)
        BY <3>2, <2>2, <2>3
      <4>2. n[j] = b[j - (i - 1)]
        BY <4>1, <2>2, <2>3, <2>4
      <4> QED
        BY <4>1, <4>2, <3>2, <2>3
    <3> QED
      BY <3>1, <3>2
  <2>7. ASSUME NEW x, Listed(n, x) PROVE Listed(ps, x)
    <3>1. PICK j \in 1 .. Len(ps) - 1 : n[j] = x
      BY <2>5, <2>7 DEF Listed
    <3>2. j \in 1 .. Len(ps) /\ j + 1 \in 1 .. Len(ps) /\ (j < i \/ j >= i)
      OBVIOUS
    <3> QED
      BY <3>1, <3>2, <2>6 DEF Listed
  <2>8. ASSUME NEW x, Listed(ps, x), x # ps[i] PROVE Listed(n, x)
    <3>1. PICK j \in 1 .. Len(ps) : ps[j] = x
      BY <2>8 DEF Listed
    <3>2. CASE j < i
      <4>1. j \in 1 .. Len(ps) - 1
        BY <3>2
      <4> QED
        BY <3>1, <3>2, <4>1, <2>5, <2>6 DEF Listed
    <3>3. CASE j > i
      <4>1. j - 1 \in 1 .. Len(ps) - 1 /\ j - 1 >= i /\ (j - 1) + 1 = j
        BY <3>3
      <4>2. n[j - 1] = ps[j]
        BY <4>1, <2>6
      <4> QED
        BY <3>1, <4>1, <4>2, <2>5 DEF Listed
    <3> QED
      BY <3>1, <3>2, <3>3, <2>8
  <2>9. Len(n) <= Len(ps)
    BY <2>5
  <2> QED
    BY <1>1, <2>5, <2>7, <2>8, <2>9 DEF n
<1>2. CASE ~(k.map = "gone" /\ k.net # "transit")
  <2>1. n = [ps EXCEPT ![i] = k]
    BY <1>2 DEF Changed
  <2>2. /\ n \in Seq(Packet) /\ Len(n) = Len(ps) /\ n[i] = k
        /\ \A j \in 1 .. Len(ps) : j # i => n[j] = ps[j]
    BY <2>1
  <2> HIDE DEF n
  <2>3. \A x : Listed(n, x) => x = k \/ Listed(ps, x)
    BY <2>2 DEF Listed
  <2>4. \A x : Listed(ps, x) => x = ps[i] \/ Listed(n, x)
    BY <2>2 DEF Listed
  <2>5. Listed(n, k) /\ Len(n) <= Len(ps)
    BY <2>2 DEF Listed
  <2> QED
    BY <2>2, <2>3, <2>4, <2>5 DEF n
<1> QED
  BY <1>1, <1>2

(* do_delete_path: the CID of path p, if it has one, is retired. *)
LEMMA DeletedProp ==
    ASSUME NEW l, NEW r, NEW pa, SetsInv(l, r), PathsInv(r, pa), NEW p \in 0 .. NumPaths - 1,
           NEW s, s = DeletedPathCids(r, pa[p])
    PROVE  /\ Evolves(r, s, l.next)
           /\ \A q : InUse(s, q) <=> InUse(r, q) /\ q # pa[p].dcid
<1>1. RemoteInv(r) /\ r.error = "none"
  BY DEF SetsInv
<1>2. CASE pa[p].dcid = NoSeq
  <2>1. s = r
    BY <1>2 DEF DeletedPathCids
  <2>2. \A q : InUse(r, q) => q # NoSeq
    BY InUseIsIssued
  <2> QED
    BY <2>1, <2>2, <1>1, <1>2, EvolvesNot
<1>3. CASE pa[p].dcid # NoSeq
  <2>1. s = Unregister(r, pa[p].dcid)
    BY <1>3 DEF DeletedPathCids
  <2>2. InUse(r, pa[p].dcid)
    BY <1>3 DEF PathsInv
  <2>3. pa[p].dcid < l.next
    BY <2>2, InUseIsIssued
  <2> QED
    BY <2>1, <2>2, <2>3, <1>1, UnregisterProp
<1> QED
  BY <1>2, <1>3

(* dissociate_cid *)
LEMMA DissociatedProp ==
    ASSUME NEW pa \in [0 .. NumPaths - 1 -> Path], NEW Q
    PROVE  /\ Dissociated(pa, Q) \in [0 .. NumPaths - 1 -> Path]
           /\ \A p \in 0 .. NumPaths - 1 :
                 /\ Dissociated(pa, Q)[p].phase = pa[p].phase
                 /\ pa[p].dcid \in Q => Dissociated(pa, Q)[p].dcid = NoSeq
                 /\ pa[p].dcid \notin Q => Dissociated(pa, Q)[p] = pa[p]
<1>1. Dissociated(pa, Q) = [p \in 0 .. NumPaths - 1 |->
          IF pa[p].dcid \in Q THEN [pa[p] EXCEPT !.dcid = NoSeq] ELSE pa[p]]
  BY DEF Dissociated
<1>2. ASSUME NEW e \in Path
      PROVE  /\ [e EXCEPT !.dcid = NoSeq] \in Path
             /\ [e EXCEPT !.dcid = NoSeq].phase = e.phase /\ [e EXCEPT !.dcid = NoSeq].dcid = NoSeq
  BY LocalCidsAssumption DEF Path, NoSeq
<1> QED
  BY <1>1, <1>2

UserInv(s, pb) ==
    /\ pb \in [0 .. NumPaths - 1 -> Path]
    /\ s.error = "none" => PathsInv(s, pb) /\ (RotateBelow = 0 => ProbedInv(pb))

(* The parts of the invariant that a step of the user alone can disturb,    *)
(* when packets are left alone.                                             *)
LEMMA UserStep ==
    ASSUME NEW l, NEW r, NEW pa, NEW ps, NEW s, NEW pb,
           StateInv(l, r, pa, ps, "none"),
           Evolves(r, s, l.next), UserInv(s, pb)
    PROVE  StateInv(l, s, pb, ps, s.error)
<1>1. AlwaysInv(l, s, pb, ps, s.error)
  BY DEF StateInv, AlwaysInv, Evolves, UserInv
<1>2. ASSUME s.error = "none" PROVE OpenInv(l, s, pb, ps)
  <2>1. SetsInv(l, r) /\ PacketsInv(l, r, ps) /\ SpareInv(l, ps) /\ NewInv(l, ps)
        /\ (~PartialRetire => RetireInv(l, r, ps))
    BY DEF StateInv, OpenInv
  <2>2. SetsInv(l, s) /\ PacketsInv(l, s, ps) /\ (~PartialRetire => RetireInv(l, s, ps))
    BY <2>1, <1>2, SetsEvolve
  <2> QED
    BY <2>1, <2>2, <1>2 DEF OpenInv, UserInv
<1> QED
  BY <1>1, <1>2 DEF StateInv

(* open_path and quicly_send delete path p. *)
LEMMA DeletesPath ==
    ASSUME NEW l, NEW r, NEW pa, NEW ps, NEW s, NEW pb, NEW p \in 0 .. NumPaths - 1, p # 0,
           StateInv(l, r, pa, ps, "none"),
           s = DeletedPathCids(r, pa[p]),
           NEW e, e \in {NoPath, [dcid |-> NoSeq, phase |-> "new"]},
           pb = [Dissociated(pa, {pa[p].dcid}) EXCEPT ![p] = e]
    PROVE  StateInv(l, s, pb, ps, s.error)
<1> DEFINE d == Dissociated(pa, {pa[p].dcid})
<1>1. SetsInv(l, r) /\ PathsInv(r, pa) /\ pa \in [0 .. NumPaths - 1 -> Path]
  BY DEF StateInv, OpenInv, PathsInv
<1>2. Evolves(r, s, l.next) /\ \A q : InUse(s, q) <=> InUse(r, q) /\ q # pa[p].dcid
  BY <1>1, DeletedProp
<1>3. /\ d \in [0 .. NumPaths - 1 -> Path]
      /\ \A x \in 0 .. NumPaths - 1 :
            /\ d[x].phase = pa[x].phase
            /\ pa[x].dcid \in {pa[p].dcid} => d[x].dcid = NoSeq
            /\ pa[x].dcid \notin {pa[p].dcid} => d[x] = pa[x]
  BY <1>1, DissociatedProp
<1> HIDE DEF d
<1>4. pb = [d EXCEPT ![p] = e]
  BY DEF d
<1>5. e \in Path /\ e.dcid = NoSeq /\ e.phase \notin {"probed", "valid"}
  BY LocalCidsAssumption DEF NoPath, Path, NoSeq
<1>6. pb \in [0 .. NumPaths - 1 -> Path] /\ pb[p] = e /\ \A x \in 0 .. NumPaths - 1 : x # p => pb[x] = d[x]
  BY <1>3, <1>4, <1>5
<1>7. \A x \in 0 .. NumPaths - 1 : /\ pa[x].dcid \in {pa[p].dcid} => pb[x].dcid = NoSeq
                                   /\ pa[x].dcid \notin {pa[p].dcid} => pb[x].dcid = pa[x].dcid
  BY <1>3, <1>5, <1>6
<1>8. PathsInv(s, pb)
  <2> DEFINE Q == {pa[p].dcid}
  <2>1. Released(r, s, Q)
    BY <1>2 DEF Released
  <2>2. Detached(pa, pb, Q)
    BY <1>7 DEF Detached
  <2> HIDE DEF Q
  <2> QED
    BY <2>1, <2>2, <1>1, <1>6, PathsDissociate
<1>9. ASSUME RotateBelow = 0 PROVE ProbedInv(pb)
  <2>1. ProbedInv(pa)
    BY <1>9 DEF StateInv, OpenInv
  <2>2. 0 \in 0 .. NumPaths - 1
    BY ConnectionIdsAssumption
  <2>3. ASSUME NEW x \in 0 .. NumPaths - 1, x # p, pa[x].dcid # NoSeq PROVE pb[x].dcid # NoSeq
    <3>1. pa[x].dcid # pa[p].dcid
      BY <1>1, <2>3 DEF PathsInv
    <3> QED
      BY <3>1, <1>7, <2>3
  <2>4. \A x \in 0 .. NumPaths - 1 : x # p => pb[x].phase = pa[x].phase
    BY <1>3, <1>6
  <2> QED
    BY <2>1, <2>2, <2>3, <2>4, <1>5, <1>6 DEF ProbedInv
<1> QED
  <2>1. UserInv(s, pb)
    BY <1>6, <1>8, <1>9 DEF UserInv
  <2>2. Evolves(r, s, l.next)
    BY <1>2
  <2> QED
    BY <2>1, <2>2, UserStep

(* setup_path_dcid: entry i, whose CID is available, is put to use. *)
LEMMA AssignProp ==
    ASSUME NEW l, NEW r, SetsInv(l, r), NEW i \in 1 .. Limit, r.cids[i].state = "available",
           NEW s, s = [r EXCEPT !.cids[i].state = "in_use"]
    PROVE  /\ SetsInv(l, s) /\ s.retired = r.retired
           /\ \A q : Gone(s, q) <=> Gone(r, q)
           /\ \A q : InUse(s, q) <=> InUse(r, q) \/ q = r.cids[i].seq
           /\ ~InUse(r, r.cids[i].seq) /\ r.cids[i].seq \in 0 .. l.next - 1
<1> DEFINE e == [r.cids[i] EXCEPT !.state = "in_use"]
           c == [r.cids EXCEPT ![i] = e]
           d == r.cids[i].seq
<1>1. RemoteInv(r) /\ LocalInv(l) /\ r.error = "none"
  BY DEF SetsInv
<1>2. r \in RemoteSet /\ r.cids \in [1 .. Limit -> RemoteEntry]
  BY <1>1 DEF RemoteInv, RemoteSet
<1>3. s = [r EXCEPT !.cids = c]
  BY <1>2 DEF RemoteSet
<1>4. e \in RemoteEntry /\ e.state = "in_use" /\ e.seq = d /\ d \in Nat
  BY <1>2 DEF RemoteEntry, RemoteStates
<1> HIDE DEF e
<1>5. c \in [1 .. Limit -> RemoteEntry] /\ c[i] = e /\ \A j \in 1 .. Limit : j # i => c[j] = r.cids[j]
  BY <1>2, <1>4
<1> HIDE DEF c
<1>6. s \in RemoteSet /\ s.cids = c /\ s.largest = r.largest /\ s.retired = r.retired /\ s.error = "none"
  BY <1>1, <1>2, <1>3, <1>5 DEF RemoteSet
<1>7. \A j \in 1 .. Limit : s.cids[j].seq = r.cids[j].seq
  BY <1>4, <1>5, <1>6
<1>8. /\ \A j, k \in 1 .. Limit : r.cids[j].seq = r.cids[k].seq => j = k
      /\ \A j \in 1 .. Limit : r.cids[j].seq <= r.largest
      /\ \A q : Listed(r.retired, q) => Gone(r, q)
      /\ Len(r.retired) <= RetireCapacity
  BY <1>1 DEF RemoteInv
<1>9. \A q : Present(s, q) <=> Present(r, q)
  BY <1>7 DEF Present
<1>10. \A q : Gone(s, q) <=> Gone(r, q)
  BY <1>6, <1>9 DEF Gone
<1>11. RemoteInv(s)
  BY <1>6, <1>7, <1>8, <1>10 DEF RemoteInv
<1>12. \A q : Known(s, q) <=> Known(r, q)
  <2>1. \A j \in 1 .. Limit : s.cids[j].state # "unavailable" <=> r.cids[j].state # "unavailable"
    BY <1>4, <1>5, <1>6
  <2> QED
    BY <2>1, <1>7 DEF Known
<1>13. \A q : InUse(s, q) <=> InUse(r, q) \/ q = d
  <2>1. \A j \in 1 .. Limit : s.cids[j].state = "in_use" <=> r.cids[j].state = "in_use" \/ j = i
    BY <1>4, <1>5, <1>6
  <2> QED
    BY <2>1, <1>7 DEF InUse
<1>14. ~InUse(r, d)
  BY <1>8 DEF InUse
<1>15. SetsInv(l, s)
  BY <1>1, <1>6, <1>10, <1>11, <1>12 DEF SetsInv
<1>16. Known(r, d)
  BY DEF Known
<1>17. d < l.next
  BY <1>16 DEF SetsInv
<1>18. l.next \in Nat
  BY <1>1, LocalCidsAssumption DEF LocalInv, LocalSet
<1> QED
  BY <1>4, <1>6, <1>10, <1>13, <1>14, <1>15, <1>17, <1>18

(* A path without a CID gets one. *)
LEMMA AssignsPath ==
    ASSUME NEW l, NEW r, NEW pa, NEW ps, StateInv(l, r, pa, ps, "none"),
           NEW i \in 1 .. Limit, r.cids[i].state = "available",
           NEW p \in 0 .. NumPaths - 1, pa[p].dcid = NoSeq,
           NEW phase \in {"none", "new", "probed", "valid"},
           NEW s, s = [r EXCEPT !.cids[i].state = "in_use"],
           NEW pb, pb = [pa EXCEPT ![p] = [dcid |-> r.cids[i].seq, phase |-> phase]]
    PROVE  StateInv(l, s, pb, ps, "none")
<1> DEFINE d == r.cids[i].seq
           e == [dcid |-> d, phase |-> phase]
<1>1. /\ SetsInv(l, r) /\ PacketsInv(l, r, ps) /\ SpareInv(l, ps) /\ PathsInv(r, pa) /\ NewInv(l, ps)
      /\ pa \in [0 .. NumPaths - 1 -> Path]
      /\ ~PartialRetire => RetireInv(l, r, ps)
      /\ RotateBelow = 0 => ProbedInv(pa)
  BY DEF StateInv, OpenInv, PathsInv
<1>2. /\ SetsInv(l, s) /\ s.retired = r.retired
      /\ \A q : Gone(s, q) <=> Gone(r, q)
      /\ \A q : InUse(s, q) <=> InUse(r, q) \/ q = r.cids[i].seq
      /\ ~InUse(r, r.cids[i].seq) /\ r.cids[i].seq \in 0 .. l.next - 1
  BY <1>1, AssignProp
<1>3. l.next \in 1 .. MaxPathId /\ MaxPathId \in Nat
  BY <1>1, LocalCidsAssumption DEF SetsInv, LocalInv, LocalSet
<1>4. d \in -1 .. MaxPathId - 1 /\ d # NoSeq
  BY <1>2, <1>3 DEF NoSeq
<1>5. e \in Path /\ e.dcid = d /\ e.phase = phase
  BY <1>4 DEF Path
<1> HIDE DEF e
<1>6. pb = [pa EXCEPT ![p] = e]
  BY DEF e
<1>7. pb \in [0 .. NumPaths - 1 -> Path] /\ pb[p] = e /\ \A x \in 0 .. NumPaths - 1 : x # p => pb[x] = pa[x]
  BY <1>1, <1>5, <1>6
<1>8. PathsInv(s, pb)
  <2>1. ~InUse(r, NoSeq)
    BY <1>1, InUseIsIssued
  <2>2. PutToUse(r, s, d)
    BY <1>2 DEF PutToUse
  <2>3. Attached(pa, pb, p, d)
    BY <1>5, <1>7 DEF Attached
  <2> HIDE DEF d
  <2> QED
    BY <2>1, <2>2, <2>3, <1>1, <1>7, PathsAssign
<1>9. PacketsInv(l, s, ps)
  BY <1>1, <1>2 DEF PacketsInv, PacketInv
<1>10. ~PartialRetire => RetireInv(l, s, ps)
  BY <1>1, <1>2 DEF RetireInv
<1>11. RotateBelow = 0 => ProbedInv(pb)
  <2>1. 0 \in 0 .. NumPaths - 1
    BY ConnectionIdsAssumption
  <2> QED
    BY <2>1, <1>1, <1>4, <1>5, <1>7 DEF ProbedInv
<1>12. OpenInv(l, s, pb, ps)
  BY <1>1, <1>2, <1>8, <1>9, <1>10, <1>11 DEF OpenInv
<1>13. AlwaysInv(l, s, pb, ps, "none")
  BY <1>2, <1>7 DEF StateInv, AlwaysInv, SetsInv
<1> QED
  BY <1>12, <1>13 DEF StateInv

LEMMA SetupPathDcidStep ==
    ASSUME IInv, closed = "none", NEW p \in 0 .. NumPaths - 1, paths[p].dcid = NoSeq,
           NEW phase \in {"none", "new", "probed", "valid"},
           Available(remote) # {}, SetupPathDcid(p, phase), UNCHANGED <<local, packets, closed>>
    PROVE  IInv'
<1> DEFINE i == CHOOSE j \in Available(remote) :
                   \A k \in Available(remote) : remote.cids[j].seq <= remote.cids[k].seq
<1>1. /\ remote' = [remote EXCEPT !.cids[i].state = "in_use"]
      /\ paths' = [paths EXCEPT ![p] = [dcid |-> remote.cids[i].seq, phase |-> phase]]
  BY DEF SetupPathDcid
<1>2. i \in Available(remote)
  <2> DEFINE A == Available(remote)
             N == {remote.cids[j].seq : j \in A}
  <2>1. remote.cids \in [1 .. Limit -> RemoteEntry]
    BY DEF IInv, StateInv, AlwaysInv, RemoteInv, RemoteSet
  <2>2. \A j \in A : remote.cids[j].seq \in Nat
    BY <2>1 DEF Available, RemoteEntry
  <2> HIDE DEF A
  <2>3. N \subseteq Nat /\ N # {}
    BY <2>2 DEF A
  <2>4. \E x \in N : \A y \in N : x <= y
    BY <2>3, LeastElement
  <2>5. \E j \in A : \A k \in A : remote.cids[j].seq <= remote.cids[k].seq
    BY <2>4
  <2> QED
    BY <2>5 DEF A
<1> HIDE DEF i
<1>3. i \in 1 .. Limit /\ remote.cids[i].state = "available"
  <2>1. DOMAIN remote.cids = 1 .. Limit
    BY DEF IInv, StateInv, AlwaysInv, RemoteInv, RemoteSet
  <2> QED
    BY <2>1, <1>2 DEF Available
<1>4. StateInv(local, remote, paths, packets, "none")
  BY DEF IInv
<1>5. StateInv(local, remote', paths', packets, "none")
  BY <1>1, <1>3, <1>4, AssignsPath
<1> QED
  BY <1>5 DEF IInv

-------------------------------------------------------------------------------
(* The actions on the paths. *)

LEMMA OpenPathStep ==
    ASSUME IInv, NEW p \in DOMAIN paths, OpenPath(p)
    PROVE  IInv'
<1> DEFINE e == IF closed' = "none" THEN [dcid |-> NoSeq, phase |-> "new"] ELSE NoPath
<1>1. /\ closed = "none" /\ p # 0 /\ remote' = DeletedPathCids(remote, paths[p]) /\ closed' = remote'.error
      /\ paths' = [Dissociated(paths, {paths[p].dcid}) EXCEPT ![p] = e]
      /\ local' = local /\ packets' = packets
  BY DEF OpenPath
<1>2. StateInv(local, remote, paths, packets, "none") /\ p \in 0 .. NumPaths - 1
  BY <1>1 DEF IInv, StateInv, AlwaysInv
<1>3. e \in {NoPath, [dcid |-> NoSeq, phase |-> "new"]}
  OBVIOUS
<1> HIDE DEF e
<1>4. StateInv(local, remote', paths', packets, remote'.error)
  BY <1>1, <1>2, <1>3, DeletesPath
<1> QED
  BY <1>1, <1>4 DEF IInv

LEMMA GiveUpPathStep ==
    ASSUME IInv, NEW p \in DOMAIN paths, GiveUpPath(p)
    PROVE  IInv'
<1> DEFINE e == NoPath
<1>1. /\ closed = "none" /\ p # 0 /\ remote' = DeletedPathCids(remote, paths[p]) /\ closed' = remote'.error
      /\ paths' = [Dissociated(paths, {paths[p].dcid}) EXCEPT ![p] = e]
      /\ local' = local /\ packets' = packets
  BY DEF GiveUpPath
<1>2. StateInv(local, remote, paths, packets, "none") /\ p \in 0 .. NumPaths - 1
  BY <1>1 DEF IInv, StateInv, AlwaysInv
<1>3. e \in {NoPath, [dcid |-> NoSeq, phase |-> "new"]}
  OBVIOUS
<1> HIDE DEF e
<1>4. StateInv(local, remote', paths', packets, remote'.error)
  BY <1>1, <1>2, <1>3, DeletesPath
<1> QED
  BY <1>1, <1>4 DEF IInv

LEMMA SetupDefaultPathStep ==
    ASSUME IInv, SetupDefaultPath
    PROVE  IInv'
<1>1. 0 \in 0 .. NumPaths - 1 /\ paths[0] \in Path
  BY ConnectionIdsAssumption DEF IInv, StateInv, AlwaysInv
<1>2. paths[0].phase \in {"none", "new", "probed", "valid"}
  BY <1>1 DEF Path
<1> QED
  BY <1>1, <1>2, SetupPathDcidStep DEF SetupDefaultPath

(* A path changes its phase, and keeps its CID. *)
LEMMA PhaseStep ==
    ASSUME IInv, closed = "none", NEW p \in 0 .. NumPaths - 1, NEW e \in Path, e.dcid = paths[p].dcid,
           RotateBelow = 0 /\ e.phase \in {"probed", "valid"} => e.dcid # NoSeq,
           paths' = [paths EXCEPT ![p] = e], UNCHANGED <<local, remote, packets, closed>>
    PROVE  IInv'
<1>1. /\ SetsInv(local, remote) /\ PathsInv(remote, paths) /\ paths \in [0 .. NumPaths - 1 -> Path]
      /\ StateInv(local, remote, paths, packets, "none")
      /\ RotateBelow = 0 => ProbedInv(paths)
  BY DEF IInv, StateInv, OpenInv, PathsInv
<1>2. /\ paths' \in [0 .. NumPaths - 1 -> Path] /\ paths'[p] = e
      /\ \A x \in 0 .. NumPaths - 1 : x # p => paths'[x] = paths[x]
  BY <1>1
<1>3. \A x \in 0 .. NumPaths - 1 : paths'[x].dcid = paths[x].dcid
  BY <1>2
<1>4. PathsInv(remote, paths')
  BY <1>1, <1>2, <1>3 DEF PathsInv
<1>5. RotateBelow = 0 => ProbedInv(paths')
  <2>1. 0 \in 0 .. NumPaths - 1
    BY ConnectionIdsAssumption
  <2> QED
    BY <2>1, <1>1, <1>2, <1>3 DEF ProbedInv
<1>6. RemoteInv(remote) /\ remote.error = "none"
  BY <1>1 DEF SetsInv
<1>7. Evolves(remote, remote, local.next)
  BY <1>6, EvolvesNot
<1>8. UserInv(remote, paths')
  BY <1>2, <1>4, <1>5 DEF UserInv
<1>9. StateInv(local, remote, paths', packets, remote.error)
  BY <1>1, <1>7, <1>8, UserStep
<1> QED
  BY <1>6, <1>9 DEF IInv

LEMMA ValidatePathStep ==
    ASSUME IInv, NEW p \in DOMAIN paths, ValidatePath(p)
    PROVE  IInv'
<1> DEFINE e == [paths[p] EXCEPT !.phase = "valid"]
<1>1. /\ closed = "none" /\ p # 0 /\ paths[p].phase = "probed"
      /\ UNCHANGED <<local, remote, packets, closed>>
  BY DEF ValidatePath
<1>2. /\ paths \in [0 .. NumPaths - 1 -> Path] /\ p \in 0 .. NumPaths - 1 /\ paths[p] \in Path
      /\ RotateBelow = 0 => ProbedInv(paths)
  BY <1>1 DEF IInv, StateInv, AlwaysInv, OpenInv
<1>3. e \in Path /\ e.dcid = paths[p].dcid
  BY <1>2 DEF Path
<1>4. paths' = [paths EXCEPT ![p] = e]
  BY <1>2 DEF ValidatePath
<1>5. RotateBelow = 0 => e.dcid # NoSeq
  BY <1>1, <1>2, <1>3 DEF ProbedInv
<1> HIDE DEF e
<1> QED
  BY <1>1, <1>2, <1>3, <1>4, <1>5, PhaseStep

LEMMA ProbePathStep ==
    ASSUME IInv, NEW p \in DOMAIN paths, ProbePath(p)
    PROVE  IInv'
<1> DEFINE phase == IF paths[p].phase = "valid" THEN "valid" ELSE "probed"
           e     == [paths[p] EXCEPT !.phase = phase]
<1>1. /\ closed = "none" /\ p # 0 /\ paths[p].phase # "none"
      /\ UNCHANGED <<local, packets, closed>>
  BY DEF ProbePath
<1>2. /\ paths \in [0 .. NumPaths - 1 -> Path] /\ p \in 0 .. NumPaths - 1 /\ paths[p] \in Path
      /\ RotateBelow = 0 => ProbedInv(paths)
  BY <1>1 DEF IInv, StateInv, AlwaysInv, OpenInv
<1>3. phase \in {"none", "new", "probed", "valid"}
  OBVIOUS
<1>4. \/ paths[p].dcid # NoSeq /\ paths' = [paths EXCEPT ![p].phase = phase] /\ UNCHANGED remote
      \/ paths[p].dcid = NoSeq /\ Available(remote) # {} /\ SetupPathDcid(p, phase)
      \/ paths[p].dcid = NoSeq /\ paths' = [paths EXCEPT ![p] = NoPath] /\ UNCHANGED remote
  BY DEF ProbePath
<1> HIDE DEF phase
<1>5. CASE paths[p].dcid # NoSeq /\ paths' = [paths EXCEPT ![p].phase = phase] /\ UNCHANGED remote
  <2>1. e \in Path /\ e.dcid = paths[p].dcid
    BY <1>2, <1>3 DEF Path
  <2>2. paths' = [paths EXCEPT ![p] = e]
    BY <1>2, <1>5
  <2> HIDE DEF e
  <2> QED
    BY <1>1, <1>2, <1>5, <2>1, <2>2, PhaseStep
<1>6. CASE paths[p].dcid = NoSeq /\ Available(remote) # {} /\ SetupPathDcid(p, phase)
  BY <1>1, <1>2, <1>3, <1>6, SetupPathDcidStep
<1>7. CASE paths[p].dcid = NoSeq /\ paths' = [paths EXCEPT ![p] = NoPath] /\ UNCHANGED remote
  <2>1. NoPath \in Path /\ NoPath.dcid = paths[p].dcid /\ NoPath.phase = "none"
    BY <1>7, LocalCidsAssumption DEF NoPath, NoSeq, Path
  <2> QED
    BY <1>1, <1>2, <1>7, <2>1, PhaseStep
<1> QED
  BY <1>4, <1>5, <1>6, <1>7

(* The packets qs are those of ps, with the entries for retirements in      *)
(* flight marked lost.                                                      *)
MarkedLost(ps, qs) ==
    qs = [i \in DOMAIN ps |->
            IF IsRetireInFlight(ps[i]) THEN [ps[i] EXCEPT !.map = "lost"] ELSE ps[i]]

LEMMA MarkedLostProp ==
    ASSUME NEW ps \in Seq(Packet), NEW qs, MarkedLost(ps, qs)
    PROVE  /\ qs \in Seq(Packet) /\ Len(qs) = Len(ps)
           /\ \A k : Listed(qs, k) => \E m : /\ Listed(ps, m) /\ k.kind = m.kind /\ k.seqs = m.seqs
                                             /\ k.net = m.net /\ k \in Packet
           /\ \A m : Listed(ps, m) /\ IsSent(m, "new") => Listed(qs, m)
<1> DEFINE v(m) == IF IsRetireInFlight(m) THEN [m EXCEPT !.map = "lost"] ELSE m
<1>1. Len(ps) \in Nat /\ DOMAIN ps = 1 .. Len(ps)
  OBVIOUS
<1>2. ASSUME NEW m \in Packet
      PROVE  /\ v(m) \in Packet /\ v(m).kind = m.kind /\ v(m).seqs = m.seqs /\ v(m).net = m.net
             /\ IsSent(m, "new") => v(m) = m
  BY DEF Packet, IsRetireInFlight, IsSent
<1>3. qs = [i \in 1 .. Len(ps) |-> v(ps[i])]
  BY <1>1 DEF MarkedLost
<1> HIDE DEF v
<1>4. \A i \in 1 .. Len(ps) : ps[i] \in Packet
  OBVIOUS
<1>5. qs \in Seq(Packet) /\ Len(qs) = Len(ps) /\ \A i \in 1 .. Len(ps) : qs[i] = v(ps[i])
  BY <1>1, <1>2, <1>3, <1>4
<1>6. ASSUME NEW k, Listed(qs, k)
      PROVE  \E m : /\ Listed(ps, m) /\ k.kind = m.kind /\ k.seqs = m.seqs
                    /\ k.net = m.net /\ k \in Packet
  <2>1. PICK i \in 1 .. Len(ps) : k = v(ps[i])
    BY <1>5, <1>6 DEF Listed
  <2>2. Listed(ps, ps[i]) /\ ps[i] \in Packet
    BY <1>4 DEF Listed
  <2> QED
    BY <2>1, <2>2, <1>2
<1>7. ASSUME NEW m, Listed(ps, m), IsSent(m, "new") PROVE Listed(qs, m)
  <2>1. PICK i \in 1 .. Len(ps) : ps[i] = m
    BY <1>7 DEF Listed
  <2>2. qs[i] = m
    BY <2>1, <1>2, <1>4, <1>5, <1>7
  <2> QED
    BY <2>2, <1>5 DEF Listed
<1> QED
  BY <1>5, <1>6, <1>7

(* promote_path, on the CIDs: what was in flight is queued again, and the   *)
(* CID of the default path is retired.                                      *)
Dropped(r, s, d) == \A q : InUse(s, q) <=> InUse(r, q) /\ q # d

Requeued(ps, s) ==
    \A k : Listed(ps, k) /\ IsSent(k, "retire") => \A q : Listed(k.seqs, q) => Listed(s.retired, q)

LEMMA PromotedCids ==
    ASSUME NEW l, NEW r, NEW pa, NEW ps, StateInv(l, r, pa, ps, "none"),
           NEW lost, lost = AllLostInTurn(r, ps)[Len(ps)],
           NEW s, s = IF lost.error = "none" THEN DeletedPathCids(lost, pa[0]) ELSE lost
    PROVE  /\ Evolves(r, s, l.next)
           /\ s.error = "none" => Dropped(r, s, pa[0].dcid) /\ Requeued(ps, s)
<1>1. /\ SetsInv(l, r) /\ PacketsInv(l, r, ps) /\ PathsInv(r, pa)
      /\ RemoteInv(r) /\ r.error = "none" /\ LocalInv(l) /\ ps \in Seq(Packet)
  BY DEF StateInv, OpenInv, SetsInv, PacketsInv
<1>2. l.next \in Nat /\ 0 \in 0 .. NumPaths - 1
  BY <1>1, LocalCidsAssumption, ConnectionIdsAssumption DEF LocalInv, LocalSet
<1>3. \A i \in 1 .. Len(ps) : IsRetireInFlight(ps[i]) =>
         \A j \in 1 .. Len(ps[i].seqs) : Gone(r, ps[i].seqs[j]) /\ ps[i].seqs[j] < l.next
  BY <1>1 DEF PacketsInv, PacketInv, Listed, IsRetireInFlight
<1>4. /\ Evolves(r, lost, l.next) /\ lost.cids = r.cids
      /\ lost.error = "none" => \A i \in 1 .. Len(ps) : IsRetireInFlight(ps[i]) =>
            \A j \in 1 .. Len(ps[i].seqs) : Listed(lost.retired, ps[i].seqs[j])
  BY <1>1, <1>2, <1>3, AllLostProp
<1>5. CASE lost.error # "none"
  <2>1. s = lost
    BY <1>5
  <2> QED
    BY <2>1, <1>4, <1>5
<1>6. CASE lost.error = "none"
  <2>1. SetsInv(l, lost)
    BY <1>1, <1>4, <1>6, SetsEvolve
  <2>2. \A q : InUse(lost, q) <=> InUse(r, q)
    BY <1>4 DEF InUse
  <2>3. PathsInv(lost, pa)
    BY <1>1, <2>2 DEF PathsInv
  <2>4. Evolves(lost, s, l.next) /\ \A q : InUse(s, q) <=> InUse(lost, q) /\ q # pa[0].dcid
    BY <1>2, <1>6, <2>1, <2>3, DeletedProp
  <2>5. Evolves(r, s, l.next)
    BY <1>1, <1>4, <1>6, <2>4, EvolvesTwice
  <2>6. ASSUME NEW k, Listed(ps, k), IsSent(k, "retire"), NEW q, Listed(k.seqs, q)
        PROVE  Listed(s.retired, q)
    <3>1. PICK i \in 1 .. Len(ps) : ps[i] = k
      BY <2>6 DEF Listed
    <3>2. Listed(lost.retired, q)
      BY <3>1, <1>4, <1>6, <2>6 DEF Listed, IsSent, IsRetireInFlight
    <3>3. RemoteInv(lost)
      BY <2>1 DEF SetsInv
    <3> QED
      BY <3>2, <3>3, <2>4, ListedKept
  <2> QED
    BY <2>2, <2>4, <2>5, <2>6 DEF Dropped, Requeued
<1> QED
  BY <1>5, <1>6

(* promote_path, on the paths. *)
LEMMA PromotedPaths ==
    ASSUME NEW l, NEW r, NEW pa, NEW ps, StateInv(l, r, pa, ps, "none"), NEW s,
           Dropped(r, s, pa[0].dcid),
           NEW p \in 0 .. NumPaths - 1, p # 0, pa[p].phase = "valid",
           NEW pb, pb = [Dissociated(pa, {pa[0].dcid}) EXCEPT ![0] = pa[p], ![p] = NoPath]
    PROVE  PathsInv(s, pb) /\ (RotateBelow = 0 => ProbedInv(pb))
<1> DEFINE Q == {pa[0].dcid}
           d == Dissociated(pa, Q)
<1>1. PathsInv(r, pa) /\ pa \in [0 .. NumPaths - 1 -> Path] /\ 0 \in 0 .. NumPaths - 1
  BY ConnectionIdsAssumption DEF StateInv, OpenInv, PathsInv
<1>2. Released(r, s, Q)
  BY DEF Released, Dropped
<1>20. pb = [d EXCEPT ![0] = pa[p], ![p] = NoPath]
  OBVIOUS
<1>21. \A q : q \in Q <=> q = pa[0].dcid
  OBVIOUS
<1> HIDE DEF Q
<1>3. /\ d \in [0 .. NumPaths - 1 -> Path]
      /\ \A x \in 0 .. NumPaths - 1 :
            /\ d[x].phase = pa[x].phase
            /\ pa[x].dcid \in Q => d[x].dcid = NoSeq
            /\ pa[x].dcid \notin Q => d[x] = pa[x]
  BY <1>1, DissociatedProp
<1> HIDE DEF d
<1>4. Detached(pa, d, Q)
  BY <1>3 DEF Detached
<1>5. PathsInv(s, d)
  BY <1>1, <1>2, <1>3, <1>4, PathsDissociate
<1>6. NoPath \in Path /\ NoPath.dcid = NoSeq /\ NoPath.phase = "none"
  BY LocalCidsAssumption DEF NoPath, NoSeq, Path
<1>7. /\ pb \in [0 .. NumPaths - 1 -> Path] /\ pb[0] = pa[p] /\ pb[p] = NoPath
      /\ \A x \in 0 .. NumPaths - 1 : x # 0 /\ x # p => pb[x] = d[x]
  BY <1>1, <1>3, <1>6, <1>20
<1>8. pb[0].dcid = d[p].dcid
  <2>1. CASE pa[p].dcid = pa[0].dcid
    <3>1. pa[p].dcid = NoSeq
      BY <1>1, <2>1 DEF PathsInv
    <3> QED
      BY <3>1, <2>1, <1>3, <1>7, <1>21
  <2>2. CASE pa[p].dcid # pa[0].dcid
    BY <2>2, <1>3, <1>7, <1>21
  <2> QED
    BY <2>1, <2>2
<1>9. pb[p].dcid = d[0].dcid
  BY <1>1, <1>3, <1>6, <1>7, <1>21
<1>10. PathsInv(s, pb)
  <2>1. Exchanged(d, pb, 0, p)
    BY <1>7, <1>8, <1>9 DEF Exchanged
  <2> QED
    BY <2>1, <1>1, <1>5, <1>7, PathsExchange
<1>11. ASSUME RotateBelow = 0 PROVE ProbedInv(pb)
  <2>1. ProbedInv(pa)
    BY <1>11 DEF StateInv, OpenInv
  <2>2. ASSUME NEW x \in 0 .. NumPaths - 1, x # 0, pa[x].dcid # NoSeq PROVE d[x].dcid # NoSeq
    <3>1. pa[x].dcid # pa[0].dcid
      BY <1>1, <2>2 DEF PathsInv
    <3> QED
      BY <3>1, <1>3, <1>21, <2>2
  <2>3. pb[0].dcid # NoSeq
    BY <2>1, <1>7 DEF ProbedInv
  <2>4. ASSUME NEW x \in 0 .. NumPaths - 1, pb[x].phase \in {"probed", "valid"} PROVE pb[x].dcid # NoSeq
    <3>1. CASE x = 0
      BY <3>1, <2>3
    <3>2. CASE x = p
      BY <3>2, <2>4, <1>6, <1>7
    <3>3. CASE x # 0 /\ x # p
      <4>1. pa[x].phase \in {"probed", "valid"} /\ pb[x] = d[x]
        BY <3>3, <2>4, <1>3, <1>7
      <4>2. pa[x].dcid # NoSeq
        BY <4>1, <2>1 DEF ProbedInv
      <4> QED
        BY <4>1, <4>2, <3>3, <2>2
    <3> QED
      BY <3>1, <3>2, <3>3
  <2> QED
    BY <2>3, <2>4 DEF ProbedInv
<1> QED
  BY <1>10, <1>11

LEMMA PromotePathStep ==
    ASSUME IInv, NEW p \in DOMAIN paths, PromotePath(p)
    PROVE  IInv'
<1> DEFINE l == local
           r == remote
           s == remote'
           ps == packets
           qs == packets'
           lost == AllLostInTurn(remote, packets)[Len(packets)]
<1>1. /\ closed = "none" /\ p # 0 /\ paths[p].phase = "valid"
      /\ s = IF lost.error = "none" THEN DeletedPathCids(lost, paths[0]) ELSE lost
      /\ MarkedLost(ps, qs)
      /\ closed' = s.error
      /\ paths' = [Dissociated(paths, {paths[0].dcid}) EXCEPT ![0] = paths[p], ![p] = NoPath]
      /\ local' = l
  BY DEF PromotePath, MarkedLost
<1>2. /\ StateInv(l, r, paths, ps, "none") /\ p \in 0 .. NumPaths - 1 /\ ps \in Seq(Packet)
      /\ paths \in [0 .. NumPaths - 1 -> Path] /\ Len(ps) <= MaxPackets /\ LocalInv(l)
  BY <1>1 DEF IInv, StateInv, AlwaysInv
<1>3. /\ Evolves(r, s, l.next)
      /\ s.error = "none" => Dropped(r, s, paths[0].dcid) /\ Requeued(ps, s)
  <2> HIDE DEF lost, l, r, s, ps, qs
  <2>1. lost = AllLostInTurn(r, ps)[Len(ps)]
    BY DEF lost, r, ps
  <2> QED
    BY <2>1, <1>1, <1>2, PromotedCids
<1>4. /\ qs \in Seq(Packet) /\ Len(qs) = Len(ps)
      /\ \A k : Listed(qs, k) => \E m : /\ Listed(ps, m) /\ k.kind = m.kind /\ k.seqs = m.seqs
                                        /\ k.net = m.net /\ k \in Packet
      /\ \A m : Listed(ps, m) /\ IsSent(m, "new") => Listed(qs, m)
  BY <1>1, <1>2, MarkedLostProp
<1>5. paths' \in [0 .. NumPaths - 1 -> Path]
  <2> DEFINE d == Dissociated(paths, {paths[0].dcid})
  <2>1. d \in [0 .. NumPaths - 1 -> Path]
    BY <1>2, DissociatedProp
  <2>2. NoPath \in Path /\ paths[p] \in Path
    BY <1>2, LocalCidsAssumption DEF NoPath, NoSeq, Path
  <2>3. paths' = [d EXCEPT ![0] = paths[p], ![p] = NoPath]
    BY <1>1
  <2> HIDE DEF d
  <2> QED
    BY <2>1, <2>2, <2>3
<1>6. AlwaysInv(l, s, paths', qs, s.error)
  BY <1>2, <1>3, <1>4, <1>5 DEF AlwaysInv, Evolves
<1>7. ASSUME s.error = "none" PROVE OpenInv(l, s, paths', qs)
  <2>1. PathsInv(s, paths') /\ (RotateBelow = 0 => ProbedInv(paths'))
    BY <1>1, <1>2, <1>3, <1>7, PromotedPaths
  <2>2. /\ SetsInv(l, r) /\ PacketsInv(l, r, ps) /\ SpareInv(l, ps) /\ NewInv(l, ps)
        /\ ~PartialRetire => RetireInv(l, r, ps)
    BY <1>2 DEF StateInv, OpenInv
  <2>3. SetsInv(l, s) /\ PacketsInv(l, s, ps) /\ (~PartialRetire => RetireInv(l, s, ps))
    BY <1>3, <1>7, <2>2, SetsEvolve
  <2>4. PacketsInv(l, s, qs)
    <3>1. ASSUME NEW k, Listed(qs, k) PROVE PacketInv(k, l, s)
      BY <3>1, <1>4, <2>3 DEF PacketsInv, PacketInv
    <3> QED
      BY <3>1, <1>4 DEF PacketsInv
  <2>5. SpareInv(l, qs)
    BY <1>4, <2>2 DEF SpareInv
  <2>6. NewInv(l, qs)
    BY <1>4, <2>2 DEF NewInv, Carried
  <2>7. ~PartialRetire => RetireInv(l, s, qs)
    BY <1>3, <1>7, <2>3 DEF RetireInv, Requeued, Carried
  <2> QED
    BY <2>1, <2>3, <2>4, <2>5, <2>6, <2>7 DEF OpenInv
<1> QED
  BY <1>1, <1>6, <1>7 DEF IInv, StateInv

-------------------------------------------------------------------------------
(* The actions on the packets. *)

LEMMA PacketAdded ==
    ASSUME NEW ps \in Seq(Packet), NEW k \in Packet, NEW qs, qs = Append(ps, k)
    PROVE  /\ qs \in Seq(Packet) /\ Len(qs) = Len(ps) + 1 /\ Listed(qs, k)
           /\ \A x : Listed(qs, x) => Listed(ps, x) \/ x = k
           /\ \A x : Listed(ps, x) => Listed(qs, x)
<1>1. /\ Len(ps) \in Nat /\ qs \in Seq(Packet) /\ Len(qs) = Len(ps) + 1 /\ qs[Len(ps) + 1] = k
      /\ \A j \in 1 .. Len(ps) : qs[j] = ps[j]
  OBVIOUS
<1>2. /\ \A j \in 1 .. Len(ps) + 1 : j \in 1 .. Len(ps) \/ j = Len(ps) + 1
      /\ \A j \in 1 .. Len(ps) : j \in 1 .. Len(ps) + 1
      /\ Len(ps) + 1 \in 1 .. Len(ps) + 1
  BY <1>1
<1> QED
  BY <1>1, <1>2 DEF Listed

(* The issuer's set changes, but not the numbers that are issued. *)
LEMMA IssuerStep ==
    ASSUME NEW l, NEW m, LocalInv(m), m.next = l.next, Issued(m) = Issued(l), NEW r, NEW ps
    PROVE  /\ SetsInv(l, r) => SetsInv(m, r)
           /\ PacketsInv(l, r, ps) => PacketsInv(m, r, ps)
           /\ SpareInv(l, ps) => SpareInv(m, ps)
           /\ RetireInv(l, r, ps) => RetireInv(m, r, ps)
<1>1. SetsInv(l, r) => SetsInv(m, r)
  BY DEF SetsInv
<1>2. PacketsInv(l, r, ps) => PacketsInv(m, r, ps)
  BY DEF PacketsInv, PacketInv
<1>3. SpareInv(l, ps) => SpareInv(m, ps)
  BY DEF SpareInv
<1>4. RetireInv(l, r, ps) => RetireInv(m, r, ps)
  BY DEF RetireInv
<1> QED
  BY <1>1, <1>2, <1>3, <1>4

(* A packet as SendPacket makes it. *)
LEMMA MakePacket ==
    ASSUME NEW kind \in {"new", "retire"}, NEW seqs \in Seq(0 .. MaxPathId - 1),
           NEW k, k = [kind |-> kind, seqs |-> seqs, map |-> "inflight", net |-> "transit"]
    PROVE  k \in Packet /\ k.kind = kind /\ k.seqs = seqs /\ k.map = "inflight" /\ k.net = "transit"
BY DEF Packet

(* A function from an initial segment is a sequence. *)
LEMMA SeqIntro ==
    ASSUME NEW S, NEW n \in Nat, NEW t, t \in [1 .. n -> S]
    PROVE  t \in Seq(S) /\ Len(t) = n
OBVIOUS

(* A packet is sent: what was carried is carried. *)
Sends(ps, qs, k) == qs = Append(ps, k)

AddedTo(ps, qs, k) ==
    /\ \A kind, x : Carried(ps, kind, x) => Carried(qs, kind, x)
    /\ \A kind, x : IsSent(k, kind) /\ Listed(k.seqs, x) => Carried(qs, kind, x)
    /\ \A x : Listed(qs, x) => Listed(ps, x) \/ x = k

LEMMA SendStep ==
    ASSUME NEW l, NEW r, NEW ps, PacketsInv(l, r, ps), NEW k, PacketInv(k, l, r), NEW qs, Sends(ps, qs, k)
    PROVE  PacketsInv(l, r, qs) /\ Len(qs) = Len(ps) + 1 /\ AddedTo(ps, qs, k)
<1>1. ps \in Seq(Packet) /\ k \in Packet
  BY DEF PacketsInv, PacketInv
<1>2. /\ qs \in Seq(Packet) /\ Len(qs) = Len(ps) + 1 /\ Listed(qs, k)
      /\ \A x : Listed(qs, x) => Listed(ps, x) \/ x = k
      /\ \A x : Listed(ps, x) => Listed(qs, x)
  BY <1>1, PacketAdded DEF Sends
<1>3. PacketsInv(l, r, qs)
  BY <1>2 DEF PacketsInv
<1>4. \A kind, x : Carried(ps, kind, x) => Carried(qs, kind, x)
  BY <1>2 DEF Carried
<1>5. \A kind, x : IsSent(k, kind) /\ Listed(k.seqs, x) => Carried(qs, kind, x)
  BY <1>2 DEF Carried
<1> QED
  BY <1>2, <1>3, <1>4, <1>5 DEF AddedTo

(* The packet of send_new_connection_id. *)
LEMMA NewPacket ==
    ASSUME NEW l, LocalInv(l), NEW n \in 1 .. Len(l.fifo), NEW r,
           NEW k, k = [kind |-> "new", seqs |-> [i \in 1 .. n |-> l.cids[i].seq],
                       map |-> "inflight", net |-> "transit"]
    PROVE  /\ PacketInv(k, l, r) /\ IsSent(k, "new") /\ k.kind = "new"
           /\ \A j \in 1 .. n : Listed(k.seqs, l.cids[j].seq)
<1> DEFINE seqs == [i \in 1 .. n |-> l.cids[i].seq]
<1>1. /\ l \in LocalSet /\ l.fifo \in Seq(0 .. MaxPathId - 1) /\ l.next \in Nat /\ Len(l.fifo) \in Nat
      /\ PendingIsFifo(l) /\ DOMAIN l.cids = 1 .. LocalSize
  BY LocalCidsAssumption DEF LocalInv, LocalSet
<1>2. ASSUME NEW i \in 1 .. n
      PROVE  i \in 1 .. LocalSize /\ l.cids[i].seq \in 0 .. MaxPathId - 1 /\ l.cids[i].seq < l.next
  <2>1. i \in 1 .. Len(l.fifo)
    OBVIOUS
  <2>2. i \in PendingAt(l.cids) /\ l.cids[i].seq = l.fifo[i]
    BY <2>1, <1>1 DEF PendingIsFifo
  <2>3. i \in 1 .. LocalSize
    BY <2>2, <1>1 DEF PendingAt
  <2>4. l.fifo[i] \in 0 .. MaxPathId - 1
    BY <2>1, <1>1, SeqElement
  <2>5. l.cids[i].seq < l.next
    BY <2>3 DEF LocalInv, Numbered
  <2> QED
    BY <2>2, <2>3, <2>4, <2>5
<1>3. n \in Nat /\ seqs = [i \in 1 .. n |-> l.cids[i].seq]
  BY <1>1
<1>30. k = [kind |-> "new", seqs |-> seqs, map |-> "inflight", net |-> "transit"]
  OBVIOUS
<1> HIDE DEF seqs
<1>4. seqs \in Seq(0 .. MaxPathId - 1) /\ Len(seqs) = n /\ \A i \in 1 .. n : seqs[i] = l.cids[i].seq
  BY <1>2, <1>3
<1>5. k \in Packet /\ k.kind = "new" /\ k.seqs = seqs /\ k.map = "inflight"
  BY <1>4, <1>30, MakePacket
<1>6. \A q : Listed(k.seqs, q) => q < l.next
  BY <1>2, <1>4, <1>5 DEF Listed
<1>7. \A j \in 1 .. n : Listed(k.seqs, l.cids[j].seq)
  BY <1>4, <1>5 DEF Listed
<1> QED
  BY <1>5, <1>6, <1>7 DEF PacketInv, IsSent

LEMMA SendNewStep ==
    ASSUME IInv, NEW n \in 1 .. LocalSize, SendNew(n)
    PROVE  IInv'
<1> DEFINE l == local
           r == remote
           ps == packets
           qs == packets'
           m == local'
           k == [kind |-> "new", seqs |-> [i \in 1 .. n |-> local.cids[i].seq],
                 map |-> "inflight", net |-> "transit"]
<1>1. /\ closed = "none" /\ Len(ps) < MaxPackets /\ qs = Append(ps, k) /\ m = OnSent(l, n)
      /\ remote' = r /\ paths' = paths /\ closed' = "none"
      /\ n <= Cardinality(PendingAt(l.cids)) \/ n = Cardinality(PendingAt(l.cids))
  BY DEF SendNew, SendPacket
<1>2. /\ SetsInv(l, r) /\ PacketsInv(l, r, ps) /\ SpareInv(l, ps) /\ PathsInv(r, paths) /\ NewInv(l, ps)
      /\ (~PartialRetire => RetireInv(l, r, ps)) /\ (RotateBelow = 0 => ProbedInv(paths))
      /\ LocalInv(l) /\ RemoteInv(r) /\ paths \in [0 .. NumPaths - 1 -> Path] /\ ps \in Seq(Packet)
  BY <1>1 DEF IInv, StateInv, AlwaysInv, OpenInv
<1>3. n \in 1 .. Len(l.fifo)
  <2>1. PendingAt(l.cids) = 1 .. Len(l.fifo) /\ Len(l.fifo) \in Nat /\ LocalSize \in Nat
    BY <1>2, LocalCidsAssumption DEF LocalInv, LocalSet, PendingIsFifo
  <2>2. Cardinality(PendingAt(l.cids)) = Len(l.fifo)
    BY <2>1, IntervalSize
  <2> QED
    BY <2>1, <2>2, <1>1
<1>4. /\ LocalInv(m) /\ m.next = l.next /\ Issued(m) = Issued(l)
      /\ \A x : x \in Inflight(m) <=> x \in Inflight(l) \/ \E j \in 1 .. n : l.cids[j].seq = x
  BY <1>1, <1>2, <1>3, OnSentProp
<1>5. /\ PacketInv(k, l, r) /\ IsSent(k, "new") /\ k.kind = "new"
      /\ \A j \in 1 .. n : Listed(k.seqs, l.cids[j].seq)
  BY <1>2, <1>3, NewPacket
<1> HIDE DEF l, r, ps, qs, m, k
<1>6. PacketsInv(l, r, qs) /\ Len(qs) = Len(ps) + 1 /\ AddedTo(ps, qs, k)
  <2>1. Sends(ps, qs, k)
    BY <1>1 DEF Sends
  <2>2. PacketsInv(l, r, ps) /\ PacketInv(k, l, r)
    BY <1>2, <1>5
  <2> QED
    BY <2>1, <2>2, SendStep
<1>7. SpareInv(l, qs)
  BY <1>2, <1>5, <1>6 DEF SpareInv, AddedTo
<1>8. ~PartialRetire => RetireInv(l, r, qs)
  BY <1>2, <1>6 DEF RetireInv, AddedTo
<1>9. NewInv(m, qs)
  <2>1. \A j \in 1 .. n : Carried(qs, "new", l.cids[j].seq)
    BY <1>5, <1>6 DEF AddedTo
  <2> QED
    BY <2>1, <1>2, <1>4, <1>6 DEF NewInv, AddedTo
<1>10. SetsInv(m, r) /\ PacketsInv(m, r, qs) /\ SpareInv(m, qs) /\ (~PartialRetire => RetireInv(m, r, qs))
  BY <1>2, <1>4, <1>6, <1>7, <1>8, IssuerStep
<1>11. OpenInv(m, r, paths, qs)
  BY <1>2, <1>9, <1>10 DEF OpenInv
<1>12. Len(qs) <= MaxPackets /\ qs \in Seq(Packet)
  <2>1. Len(ps) \in Nat
    BY <1>2
  <2> QED
    BY <2>1, <1>1, <1>6, ConnectionIdsAssumption DEF PacketsInv
<1>13. AlwaysInv(m, r, paths, qs, "none")
  BY <1>2, <1>4, <1>12 DEF AlwaysInv
<1> QED
  BY <1>1, <1>11, <1>13 DEF IInv, StateInv, l, r, ps, qs, m

(* quicly_remote_cid_shift_retired removes entries of the queue; which ones *)
(* remain is not said.                                                      *)
LEMMA ShiftRetiredProp ==
    ASSUME NEW r, RemoteInv(r), NEW n \in 1 .. Len(r.retired), NEW s, s = ShiftRetired(r, n)
    PROVE  /\ RemoteInv(s) /\ s.cids = r.cids /\ s.largest = r.largest /\ s.error = r.error
           /\ \A q : Listed(s.retired, q) => Listed(r.retired, q)
<1> DEFINE t == [i \in 1 .. Len(r.retired) - n |-> IF i <= n THEN r.retired[i + n] ELSE r.retired[i]]
<1>1. r \in RemoteSet /\ r.retired \in Seq(Nat) /\ Len(r.retired) \in Nat /\ RetireCapacity \in Nat
      /\ Len(r.retired) <= RetireCapacity
  BY RemoteCidsAssumption DEF RemoteInv, RemoteSet
<1>2. s = [r EXCEPT !.retired = t]
  BY <1>1 DEF ShiftRetired, RemoteSet
<1>3. ASSUME NEW i \in 1 .. Len(r.retired) - n
      PROVE  \E j \in 1 .. Len(r.retired) : t[i] = r.retired[j] /\ r.retired[j] \in Nat
  <2>1. i \in 1 .. Len(r.retired) /\ i + n \in 1 .. Len(r.retired)
    BY <1>1
  <2>2. r.retired[i] \in Nat /\ r.retired[i + n] \in Nat
    BY <2>1, <1>1, SeqElement
  <2>3. t[i] = IF i <= n THEN r.retired[i + n] ELSE r.retired[i]
    OBVIOUS
  <2> HIDE DEF t
  <2>4. CASE i <= n
    BY <2>1, <2>2, <2>3, <2>4
  <2>5. CASE ~(i <= n)
    BY <2>1, <2>2, <2>3, <2>5
  <2> QED
    BY <2>4, <2>5
<1>4. DOMAIN t = 1 .. Len(r.retired) - n /\ Len(r.retired) - n \in Nat
      /\ t = [i \in 1 .. Len(r.retired) - n |-> t[i]]
  BY <1>1
<1> HIDE DEF t
<1>5. t \in Seq(Nat) /\ Len(t) = Len(r.retired) - n
  <2>1. t \in [1 .. Len(r.retired) - n -> Nat]
    BY <1>3, <1>4
  <2> QED
    BY <2>1, <1>4, SeqIntro
<1>6. s \in RemoteSet /\ s.cids = r.cids /\ s.largest = r.largest /\ s.error = r.error /\ s.retired = t
  BY <1>1, <1>2, <1>5 DEF RemoteSet
<1>7. \A q : Listed(t, q) => Listed(r.retired, q)
  BY <1>3, <1>5 DEF Listed
<1>8. \A q : Gone(s, q) <=> Gone(r, q)
  BY <1>6 DEF Gone, Present
<1>9. Len(s.retired) <= RetireCapacity
  BY <1>1, <1>5, <1>6
<1>10. /\ \A i, j \in 1 .. Limit : r.cids[i].seq = r.cids[j].seq => i = j
       /\ \A i \in 1 .. Limit : r.cids[i].seq <= r.largest
       /\ \A q : Listed(r.retired, q) => Gone(r, q)
  BY DEF RemoteInv
<1>11. RemoteInv(s)
  BY <1>6, <1>7, <1>8, <1>9, <1>10 DEF RemoteInv
<1> QED
  BY <1>6, <1>7, <1>11

(* The packet of send_retire_connection_id. *)
LEMMA RetirePacket ==
    ASSUME NEW l, NEW r, SetsInv(l, r), NEW n \in 1 .. Len(r.retired),
           NEW k, k = [kind |-> "retire", seqs |-> SubSeq(r.retired, 1, n),
                       map |-> "inflight", net |-> "transit"]
    PROVE  /\ PacketInv(k, l, r) /\ IsSent(k, "retire")
           /\ \A q : Listed(k.seqs, q) => Gone(r, q)
           /\ n = Len(r.retired) => \A q : Listed(r.retired, q) => Listed(k.seqs, q)
<1> DEFINE seqs == SubSeq(r.retired, 1, n)
<1>1. r.retired \in Seq(Nat) /\ Len(r.retired) \in Nat /\ RemoteInv(r) /\ LocalInv(l)
  BY DEF SetsInv, RemoteInv, RemoteSet
<1>2. l.next \in 1 .. MaxPathId /\ MaxPathId \in Nat
  BY <1>1, LocalCidsAssumption DEF LocalInv, LocalSet
<1>3. seqs \in Seq(Nat) /\ Len(seqs) = n /\ \A i \in 1 .. n : seqs[i] = r.retired[i]
  BY <1>1
<1>4. k = [kind |-> "retire", seqs |-> seqs, map |-> "inflight", net |-> "transit"]
  OBVIOUS
<1> HIDE DEF seqs
<1>5. ASSUME NEW i \in 1 .. n PROVE Listed(r.retired, seqs[i]) /\ seqs[i] \in 0 .. MaxPathId - 1
  <2>3. i \in 1 .. Len(r.retired) /\ seqs[i] = r.retired[i]
    BY <1>1, <1>3
  <2>4. r.retired[i] \in Nat
    BY <2>3, <1>1, SeqElement
  <2>1. Listed(r.retired, seqs[i]) /\ seqs[i] \in Nat
    BY <2>3, <2>4 DEF Listed
  <2>2. seqs[i] < l.next
    BY <2>1 DEF SetsInv
  <2> QED
    BY <2>1, <2>2, <1>2
<1>6. seqs \in Seq(0 .. MaxPathId - 1)
  <2>1. seqs = [i \in 1 .. n |-> seqs[i]]
    BY <1>3
  <2> DEFINE S == 0 .. MaxPathId - 1
  <2>2. seqs \in [1 .. n -> S] /\ n \in Nat
    BY <2>1, <1>1, <1>5
  <2> HIDE DEF S
  <2>3. seqs \in Seq(S)
    BY <2>2, SeqIntro
  <2> QED
    BY <2>3 DEF S
<1>7. k \in Packet /\ k.kind = "retire" /\ k.seqs = seqs /\ k.map = "inflight" /\ k.net = "transit"
  BY <1>4, <1>6, MakePacket
<1>8. \A q : Listed(k.seqs, q) => Listed(r.retired, q)
  BY <1>3, <1>5, <1>7 DEF Listed
<1>9. \A q : Listed(k.seqs, q) => Gone(r, q) /\ q < l.next
  BY <1>1, <1>8 DEF SetsInv, RemoteInv
<1>10. n = Len(r.retired) => \A q : Listed(r.retired, q) => Listed(k.seqs, q)
  BY <1>3, <1>7 DEF Listed
<1> QED
  BY <1>7, <1>9, <1>10 DEF PacketInv, IsSent

LEMMA SendRetireStep ==
    ASSUME IInv, NEW n \in 1 .. RetireCapacity, SendRetire(n)
    PROVE  IInv'
<1> DEFINE l == local
           r == remote
           s == remote'
           ps == packets
           qs == packets'
           d == paths[0].dcid
           k == [kind |-> "retire", seqs |-> SubSeq(remote.retired, 1, n),
                 map |-> "inflight", net |-> "transit"]
<1>1. /\ closed = "none" /\ Len(ps) < MaxPackets /\ qs = Append(ps, k) /\ s = ShiftRetired(r, n)
      /\ d # NoSeq
      /\ local' = l /\ paths' = paths /\ closed' = "none"
      /\ IF PartialRetire THEN n <= Len(r.retired) ELSE n = Len(r.retired)
  BY DEF SendRetire, SendPacket
<1>2. /\ SetsInv(l, r) /\ PacketsInv(l, r, ps) /\ PathsInv(r, paths) /\ NewInv(l, ps)
      /\ (~PartialRetire => RetireInv(l, r, ps)) /\ (RotateBelow = 0 => ProbedInv(paths))
      /\ LocalInv(l) /\ RemoteInv(r) /\ paths \in [0 .. NumPaths - 1 -> Path] /\ ps \in Seq(Packet)
  BY <1>1 DEF IInv, StateInv, AlwaysInv, OpenInv
<1>3. n \in 1 .. Len(r.retired)
  <2>1. Len(r.retired) \in Nat /\ RetireCapacity \in Nat
    BY <1>2, RemoteCidsAssumption DEF RemoteInv, RemoteSet
  <2> QED
    BY <2>1, <1>1
<1>4. /\ RemoteInv(s) /\ s.cids = r.cids /\ s.largest = r.largest /\ s.error = r.error
      /\ \A q : Listed(s.retired, q) => Listed(r.retired, q)
  BY <1>1, <1>2, <1>3, ShiftRetiredProp
<1>5. /\ PacketInv(k, l, r) /\ IsSent(k, "retire")
      /\ \A q : Listed(k.seqs, q) => Gone(r, q)
      /\ n = Len(r.retired) => \A q : Listed(r.retired, q) => Listed(k.seqs, q)
  BY <1>2, <1>3, RetirePacket
<1> HIDE DEF l, r, s, ps, qs, k
<1>6. PacketsInv(l, r, qs) /\ Len(qs) = Len(ps) + 1 /\ AddedTo(ps, qs, k)
  <2>1. Sends(ps, qs, k)
    BY <1>1 DEF Sends
  <2>2. PacketsInv(l, r, ps) /\ PacketInv(k, l, r)
    BY <1>2, <1>5
  <2> QED
    BY <2>1, <2>2, SendStep
<1>7. \A q : /\ Gone(s, q) <=> Gone(r, q)
             /\ Known(s, q) <=> Known(r, q)
             /\ InUse(s, q) <=> InUse(r, q)
  BY <1>4 DEF Gone, Present, Known, InUse
<1>8. SetsInv(l, s)
  BY <1>2, <1>4, <1>7 DEF SetsInv
<1>9. PacketsInv(l, s, qs)
  BY <1>6, <1>7 DEF PacketsInv, PacketInv
<1>10. SpareInv(l, qs)
  <2>1. InUse(r, d)
    <3>1. 0 \in 0 .. NumPaths - 1
      BY ConnectionIdsAssumption
    <3> QED
      BY <3>1, <1>1, <1>2 DEF PathsInv
  <2>2. d \in Issued(l) /\ ~Gone(r, d)
    BY <2>1, <1>2, InUseIsIssued
  <2>3. ASSUME NEW x, Listed(qs, x), x.kind = "retire" PROVE ~Listed(x.seqs, d)
    BY <2>2, <2>3, <1>6 DEF PacketsInv, PacketInv
  <2> HIDE DEF d
  <2> QED
    BY <2>2, <2>3 DEF SpareInv
<1>11. PathsInv(s, paths)
  BY <1>2, <1>7 DEF PathsInv
<1>12. NewInv(l, qs)
  BY <1>2, <1>6 DEF NewInv, AddedTo
<1>13. ASSUME ~PartialRetire PROVE RetireInv(l, s, qs)
  <2>1. \A q : Listed(r.retired, q) => Carried(qs, "retire", q)
    BY <1>1, <1>5, <1>6, <1>13 DEF AddedTo
  <2> QED
    BY <2>1, <1>2, <1>6, <1>7, <1>13 DEF RetireInv, AddedTo
<1>14. OpenInv(l, s, paths, qs)
  BY <1>2, <1>8, <1>9, <1>10, <1>11, <1>12, <1>13 DEF OpenInv
<1>15. Len(qs) <= MaxPackets /\ qs \in Seq(Packet)
  <2>1. Len(ps) \in Nat
    BY <1>2
  <2> QED
    BY <2>1, <1>1, <1>6, ConnectionIdsAssumption DEF PacketsInv
<1>16. AlwaysInv(l, s, paths, qs, "none")
  BY <1>2, <1>4, <1>15 DEF AlwaysInv
<1> QED
  BY <1>1, <1>14, <1>16 DEF IInv, StateInv, l, s, ps, qs

(* Packet i becomes k.  What it carried may be lost when it is no longer in *)
(* flight; the others carry what they did.                                  *)
Becomes(ps, i, k, qs) ==
    /\ i \in 1 .. Len(ps) /\ k.kind = ps[i].kind /\ k.seqs = ps[i].seqs
    /\ qs = Changed(ps, i, k)

Carries(ps, i, k, qs) ==
    /\ qs \in Seq(Packet) /\ Len(qs) <= Len(ps)
    /\ \A x : Listed(qs, x) => x = k \/ Listed(ps, x)
    /\ \A kind, x : Carried(ps, kind, x) =>
          \/ Carried(qs, kind, x)
          \/ IsSent(ps[i], kind) /\ k.map # "inflight" /\ Listed(ps[i].seqs, x)

LEMMA BecomesProp ==
    ASSUME NEW ps \in Seq(Packet), NEW i, NEW k \in Packet, NEW qs, Becomes(ps, i, k, qs)
    PROVE  Carries(ps, i, k, qs)
<1>1. /\ i \in 1 .. Len(ps) /\ k.kind = ps[i].kind /\ k.seqs = ps[i].seqs
      /\ qs = Changed(ps, i, k)
  BY DEF Becomes
<1>2. /\ qs \in Seq(Packet) /\ Len(qs) <= Len(ps)
      /\ \A x : Listed(qs, x) => x = k \/ Listed(ps, x)
      /\ \A x : Listed(ps, x) => x = ps[i] \/ Listed(qs, x)
      /\ ~(k.map = "gone" /\ k.net # "transit") => Listed(qs, k)
  BY <1>1, PacketChanges
<1>3. ASSUME NEW kind, NEW x, Carried(ps, kind, x),
             ~(IsSent(ps[i], kind) /\ k.map # "inflight" /\ Listed(ps[i].seqs, x))
      PROVE  Carried(qs, kind, x)
  <2>1. PICK m : Listed(ps, m) /\ IsSent(m, kind) /\ Listed(m.seqs, x)
    BY <1>3 DEF Carried
  <2>2. CASE m = ps[i]
    <3>1. k.map = "inflight"
      BY <2>1, <2>2, <1>3
    <3>2. Listed(qs, k)
      BY <3>1, <1>2
    <3>3. IsSent(k, kind) /\ Listed(k.seqs, x)
      BY <3>1, <2>1, <2>2, <1>1 DEF IsSent
    <3> QED
      BY <3>2, <3>3 DEF Carried
  <2>3. CASE m # ps[i]
    BY <2>1, <2>3, <1>2 DEF Carried
  <2> QED
    BY <2>2, <2>3
<1> QED
  BY <1>2, <1>3 DEF Carries

(* The invariant, when packet i becomes k while the sets become m and s.    *)
LEMMA PacketStep ==
    ASSUME NEW l, NEW r, NEW s, NEW pa, NEW pb, NEW ps, NEW qs, NEW i, NEW k,
           Carries(ps, i, k, qs), Len(ps) <= MaxPackets, ps \in Seq(Packet),
           SetsInv(l, s), PacketsInv(l, s, ps), SpareInv(l, qs), PathsInv(s, pb),
           NewInv(l, qs), ~PartialRetire => RetireInv(l, s, qs), RotateBelow = 0 => ProbedInv(pb),
           PacketInv(k, l, s)
    PROVE  StateInv(l, s, pb, qs, "none")
<1>1. qs \in Seq(Packet) /\ Len(qs) <= Len(ps) /\ \A x : Listed(qs, x) => x = k \/ Listed(ps, x)
  BY DEF Carries
<1>2. PacketsInv(l, s, qs)
  BY <1>1 DEF PacketsInv
<1>3. Len(qs) <= MaxPackets
  <2>1. Len(qs) \in Nat /\ Len(ps) \in Nat
    BY <1>1
  <2> QED
    BY <2>1, <1>1, ConnectionIdsAssumption
<1>4. LocalInv(l) /\ RemoteInv(s) /\ pb \in [0 .. NumPaths - 1 -> Path]
  BY DEF SetsInv, PathsInv
<1> QED
  BY <1>1, <1>2, <1>3, <1>4 DEF StateInv, AlwaysInv, OpenInv

(* Fewer packets are in transit. *)
LEMMA SpareKept ==
    ASSUME NEW l, NEW ps, NEW i, NEW k, NEW qs, Carries(ps, i, k, qs), Becomes(ps, i, k, qs), SpareInv(l, ps),
           k.net = "transit" => ps[i].net = "transit"
    PROVE  SpareInv(l, qs)
<1>1. PICK x \in Issued(l) :
          \A m : Listed(ps, m) /\ m.kind = "retire" /\ m.net = "transit" => ~Listed(m.seqs, x)
  BY DEF SpareInv
<1>2. Listed(ps, ps[i]) /\ k.kind = ps[i].kind /\ k.seqs = ps[i].seqs
  BY DEF Becomes, Listed
<1>3. ASSUME NEW m, Listed(qs, m), m.kind = "retire", m.net = "transit" PROVE ~Listed(m.seqs, x)
  <2>1. CASE m = k
    BY <2>1, <1>1, <1>2, <1>3
  <2>2. CASE Listed(ps, m)
    BY <2>2, <1>1, <1>3
  <2> QED
    BY <2>1, <2>2, <1>3 DEF Carries
<1> QED
  BY <1>3 DEF SpareInv

LEMMA LoseStep ==
    ASSUME IInv, NEW i \in DOMAIN packets, Lose(i)
    PROVE  IInv'
<1> DEFINE k == [packets[i] EXCEPT !.net = "none"]
<1>1. /\ closed = "none" /\ packets[i].net = "transit" /\ packets' = Changed(packets, i, k)
      /\ UNCHANGED <<local, remote, paths, closed>>
  BY DEF Lose
<1>2. /\ SetsInv(local, remote) /\ PacketsInv(local, remote, packets) /\ SpareInv(local, packets)
      /\ PathsInv(remote, paths) /\ NewInv(local, packets)
      /\ (~PartialRetire => RetireInv(local, remote, packets)) /\ (RotateBelow = 0 => ProbedInv(paths))
      /\ packets \in Seq(Packet) /\ Len(packets) <= MaxPackets /\ i \in 1 .. Len(packets)
  BY <1>1 DEF IInv, StateInv, AlwaysInv, OpenInv
<1>3. packets[i] \in Packet /\ PacketInv(packets[i], local, remote)
  BY <1>2 DEF PacketsInv, Listed
<1>4. /\ k \in Packet /\ k.kind = packets[i].kind /\ k.seqs = packets[i].seqs
      /\ k.map = packets[i].map /\ k.net = "none"
  BY <1>3 DEF Packet
<1> HIDE DEF k
<1>5. Becomes(packets, i, k, packets')
  BY <1>1, <1>2, <1>4 DEF Becomes
<1>6. Carries(packets, i, k, packets')
  BY <1>2, <1>4, <1>5, BecomesProp
<1>7. \A kind, x : Carried(packets, kind, x) => Carried(packets', kind, x)
  BY <1>4, <1>6 DEF Carries, IsSent
<1>8. NewInv(local, packets') /\ (~PartialRetire => RetireInv(local, remote, packets'))
  BY <1>2, <1>7 DEF NewInv, RetireInv
<1>9. SpareInv(local, packets')
  BY <1>2, <1>4, <1>5, <1>6, SpareKept
<1>10. PacketInv(k, local, remote)
  BY <1>3, <1>4 DEF PacketInv
<1>11. StateInv(local, remote, paths, packets', "none")
  BY <1>2, <1>6, <1>8, <1>9, <1>10, PacketStep
<1> QED
  BY <1>1, <1>11 DEF IInv

LEMMA ExpireStep ==
    ASSUME IInv, NEW i \in DOMAIN packets, Expire(i)
    PROVE  IInv'
<1> DEFINE k == [packets[i] EXCEPT !.map = "gone"]
<1>1. /\ closed = "none" /\ packets[i].map = "lost" /\ packets' = Changed(packets, i, k)
      /\ UNCHANGED <<local, remote, paths, closed>>
  BY DEF Expire
<1>2. /\ SetsInv(local, remote) /\ PacketsInv(local, remote, packets) /\ SpareInv(local, packets)
      /\ PathsInv(remote, paths) /\ NewInv(local, packets)
      /\ (~PartialRetire => RetireInv(local, remote, packets)) /\ (RotateBelow = 0 => ProbedInv(paths))
      /\ packets \in Seq(Packet) /\ Len(packets) <= MaxPackets /\ i \in 1 .. Len(packets)
  BY <1>1 DEF IInv, StateInv, AlwaysInv, OpenInv
<1>3. packets[i] \in Packet /\ PacketInv(packets[i], local, remote)
  BY <1>2 DEF PacketsInv, Listed
<1>4. /\ k \in Packet /\ k.kind = packets[i].kind /\ k.seqs = packets[i].seqs
      /\ k.map = "gone" /\ k.net = packets[i].net
  BY <1>3 DEF Packet
<1> HIDE DEF k
<1>5. Becomes(packets, i, k, packets')
  BY <1>1, <1>2, <1>4 DEF Becomes
<1>6. Carries(packets, i, k, packets')
  BY <1>2, <1>4, <1>5, BecomesProp
<1>7. \A kind, x : Carried(packets, kind, x) => Carried(packets', kind, x)
  BY <1>1, <1>6 DEF Carries, IsSent
<1>8. NewInv(local, packets') /\ (~PartialRetire => RetireInv(local, remote, packets'))
  BY <1>2, <1>7 DEF NewInv, RetireInv
<1>9. SpareInv(local, packets')
  BY <1>2, <1>4, <1>5, <1>6, SpareKept
<1>10. PacketInv(k, local, remote)
  BY <1>3, <1>4 DEF PacketInv
<1>11. StateInv(local, remote, paths, packets', "none")
  BY <1>2, <1>6, <1>8, <1>9, <1>10, PacketStep
<1> QED
  BY <1>1, <1>11 DEF IInv

(* What the acknowledgement or the loss of the frames qs makes of the       *)
(* issuer's set.                                                            *)
Settled(l, m, qs) ==
    /\ LocalInv(m) /\ m.next = l.next /\ Issued(m) = Issued(l)
    /\ \A x : x \in Inflight(m) => x \in Inflight(l) /\ ~Listed(qs, x)

NumberSeq == Seq(0 .. MaxPathId - 1)

LEMMA AckedSettles ==
    ASSUME NEW l, LocalInv(l), NEW qs, qs \in NumberSeq, NEW m, m = AckedInTurn(l, qs)[Len(qs)]
    PROVE  Settled(l, m, qs)
<1>1. qs \in Seq(0 .. MaxPathId - 1)
  BY DEF NumberSeq
<1>2. /\ LocalInv(AckedInTurn(l, qs)[Len(qs)]) /\ AckedInTurn(l, qs)[Len(qs)].next = l.next
      /\ Issued(AckedInTurn(l, qs)[Len(qs)]) = Issued(l)
      /\ \A x : x \in Inflight(AckedInTurn(l, qs)[Len(qs)]) <=>
            x \in Inflight(l) /\ \A j \in 1 .. Len(qs) : qs[j] # x
  BY <1>1, OnAckedInTurnProp
<1> QED
  BY <1>2 DEF Settled, Listed

LEMMA LostSettles ==
    ASSUME NEW l, LocalInv(l), NEW qs, qs \in NumberSeq, NEW m, m = LostInTurn(l, qs)[Len(qs)]
    PROVE  Settled(l, m, qs)
<1>1. qs \in Seq(0 .. MaxPathId - 1)
  BY DEF NumberSeq
<1>2. /\ LocalInv(LostInTurn(l, qs)[Len(qs)]) /\ LostInTurn(l, qs)[Len(qs)].next = l.next
      /\ Issued(LostInTurn(l, qs)[Len(qs)]) = Issued(l)
      /\ \A x : x \in Inflight(LostInTurn(l, qs)[Len(qs)]) <=>
            x \in Inflight(l) /\ \A j \in 1 .. Len(qs) : qs[j] # x
  BY <1>1, OnLostInTurnProp
<1> QED
  BY <1>2 DEF Settled, Listed

LEMMA NumbersAreNat ==
    ASSUME NEW qs, qs \in NumberSeq
    PROVE  qs \in Seq(Nat) /\ Len(qs) \in Nat
<1> DEFINE S == 0 .. MaxPathId - 1
<1>1. qs \in Seq(S)
  BY DEF NumberSeq
<1>2. S \subseteq Nat
  BY LocalCidsAssumption
<1> HIDE DEF S
<1>3. Len(qs) \in Nat /\ qs = [i \in 1 .. Len(qs) |-> qs[i]]
  BY <1>1
<1>4. \A i \in 1 .. Len(qs) : qs[i] \in Nat
  BY <1>1, <1>2, SeqElement
<1>5. qs \in [1 .. Len(qs) -> Nat]
  BY <1>3, <1>4
<1> QED
  BY <1>3, <1>5, SeqIntro

LEMMA OnAckStep ==
    ASSUME IInv, NEW i \in DOMAIN packets, OnAck(i)
    PROVE  IInv'
<1> DEFINE l == local
           m == local'
           k == [packets[i] EXCEPT !.map = "gone"]
           ns == packets[i].seqs
<1>1. /\ closed = "none" /\ packets[i].net = "received" /\ packets' = Changed(packets, i, k)
      /\ m = IF packets[i].kind = "new" THEN AckedInTurn(l, ns)[Len(ns)] ELSE l
      /\ remote' = remote /\ paths' = paths /\ closed' = closed
  BY DEF OnAck
<1>2. /\ SetsInv(l, remote) /\ PacketsInv(l, remote, packets) /\ SpareInv(l, packets)
      /\ PathsInv(remote, paths) /\ NewInv(l, packets)
      /\ (~PartialRetire => RetireInv(l, remote, packets)) /\ (RotateBelow = 0 => ProbedInv(paths))
      /\ packets \in Seq(Packet) /\ Len(packets) <= MaxPackets /\ i \in 1 .. Len(packets)
      /\ LocalInv(l)
  BY <1>1 DEF IInv, StateInv, AlwaysInv, OpenInv
<1>3. packets[i] \in Packet /\ PacketInv(packets[i], l, remote)
  BY <1>2 DEF PacketsInv, Listed
<1>4. /\ k \in Packet /\ k.kind = packets[i].kind /\ k.seqs = ns /\ k.map = "gone" /\ k.net = "received"
      /\ ns \in Seq(0 .. MaxPathId - 1) /\ k.kind \in {"new", "retire"}
  BY <1>1, <1>3 DEF Packet
<1>40. k.kind = "retire" => \A q : Listed(ns, q) => q \notin Issued(l)
  BY <1>1, <1>3, <1>4 DEF PacketInv
<1> HIDE DEF k, m, l
<1>5. Becomes(packets, i, k, packets')
  BY <1>1, <1>2, <1>4 DEF Becomes
<1>6. Carries(packets, i, k, packets')
  BY <1>2, <1>4, <1>5, BecomesProp
<1>7. /\ LocalInv(m) /\ m.next = l.next /\ Issued(m) = Issued(l)
      /\ \A x : x \in Inflight(m) => x \in Inflight(l)
      /\ k.kind = "new" => \A x : x \in Inflight(m) => ~Listed(ns, x)
  <2>1. CASE k.kind = "new"
    <3>1. m = AckedInTurn(l, ns)[Len(ns)]
      BY <2>1, <1>1, <1>4
    <3> HIDE DEF ns
    <3>2. ns \in NumberSeq /\ LocalInv(l)
      BY <1>2, <1>4 DEF NumberSeq
    <3>3. Settled(l, m, ns)
      BY <3>1, <3>2, AckedSettles
    <3> QED
      BY <3>3 DEF Settled
  <2>2. CASE k.kind # "new"
    BY <2>2, <1>1, <1>2, <1>4
  <2> QED
    BY <2>1, <2>2
<1>8. \A kind, x : Carried(packets, kind, x) =>
          Carried(packets', kind, x) \/ (k.kind = kind /\ Listed(ns, x))
  BY <1>4, <1>6 DEF Carries, IsSent
<1>9. NewInv(m, packets')
  BY <1>2, <1>7, <1>8 DEF NewInv
<1>10. ~PartialRetire => RetireInv(l, remote, packets')
  BY <1>2, <1>8, <1>40 DEF RetireInv
<1>11. SpareInv(l, packets')
  BY <1>2, <1>4, <1>5, <1>6, SpareKept
<1>12. /\ SetsInv(m, remote) /\ PacketsInv(m, remote, packets) /\ SpareInv(m, packets')
       /\ ~PartialRetire => RetireInv(m, remote, packets')
  BY <1>2, <1>7, <1>10, <1>11, IssuerStep
<1>13. PacketInv(k, m, remote)
  BY <1>1, <1>3, <1>4, <1>7 DEF PacketInv
<1>14. StateInv(m, remote, paths, packets', "none")
  BY <1>2, <1>6, <1>9, <1>12, <1>13, PacketStep
<1> QED
  BY <1>1, <1>14 DEF IInv, m

(* The packets that are declared lost, one at a time. *)
LEMMA DeclareLostStep ==
    ASSUME IInv, NEW i \in DOMAIN packets, DeclareLost(i)
    PROVE  IInv'
<1> DEFINE l == local
           m == local'
           r == remote
           s == remote'
           k == [packets[i] EXCEPT !.map = "lost"]
           ns == packets[i].seqs
<1>1. /\ closed = "none" /\ packets' = [packets EXCEPT ![i].map = "lost"]
      /\ m = IF packets[i].kind = "new" THEN LostInTurn(l, ns)[Len(ns)] ELSE l
      /\ s = IF packets[i].kind = "retire" THEN RetirementsLost(r, ns) ELSE r
      /\ closed' = s.error /\ paths' = paths
  BY DEF DeclareLost
<1>2. /\ SetsInv(l, r) /\ PacketsInv(l, r, packets) /\ SpareInv(l, packets)
      /\ PathsInv(r, paths) /\ NewInv(l, packets)
      /\ (~PartialRetire => RetireInv(l, r, packets)) /\ (RotateBelow = 0 => ProbedInv(paths))
      /\ packets \in Seq(Packet) /\ Len(packets) <= MaxPackets /\ i \in 1 .. Len(packets)
      /\ LocalInv(l) /\ RemoteInv(r) /\ r.error = "none" /\ paths \in [0 .. NumPaths - 1 -> Path]
  BY <1>1 DEF IInv, StateInv, AlwaysInv, OpenInv, SetsInv
<1>3. packets[i] \in Packet /\ PacketInv(packets[i], l, r)
  BY <1>2 DEF PacketsInv, Listed
<1>4. /\ k \in Packet /\ k.kind = packets[i].kind /\ k.seqs = ns /\ k.map = "lost"
      /\ k.net = packets[i].net
      /\ ns \in Seq(0 .. MaxPathId - 1) /\ k.kind \in {"new", "retire"}
  BY <1>1, <1>3 DEF Packet
<1>40. packets' = Changed(packets, i, k)
  <2>1. packets' = [packets EXCEPT ![i] = k]
    BY <1>1, <1>2
  <2> QED
    BY <2>1, <1>4 DEF Changed
<1>41. k.kind = "retire" => \A j \in 1 .. Len(ns) : Gone(r, ns[j]) /\ ns[j] < l.next
  BY <1>3, <1>4 DEF PacketInv, Listed
<1> HIDE DEF k, m, l, r, s
<1>5. Becomes(packets, i, k, packets')
  BY <1>2, <1>4, <1>40 DEF Becomes
<1>6. Carries(packets, i, k, packets')
  BY <1>2, <1>4, <1>5, BecomesProp
<1>7. /\ LocalInv(m) /\ m.next = l.next /\ Issued(m) = Issued(l)
      /\ \A x : x \in Inflight(m) => x \in Inflight(l)
      /\ k.kind = "new" => \A x : x \in Inflight(m) => ~Listed(ns, x)
  <2>1. CASE k.kind = "new"
    <3>1. m = LostInTurn(l, ns)[Len(ns)]
      BY <2>1, <1>1, <1>4
    <3> HIDE DEF ns
    <3>2. ns \in NumberSeq /\ LocalInv(l)
      BY <1>2, <1>4 DEF NumberSeq
    <3>3. Settled(l, m, ns)
      BY <3>1, <3>2, LostSettles
    <3> QED
      BY <3>3 DEF Settled
  <2>2. CASE k.kind # "new"
    BY <2>2, <1>1, <1>2, <1>4
  <2> QED
    BY <2>1, <2>2
<1>8. /\ Evolves(r, s, l.next) /\ s.cids = r.cids
      /\ k.kind = "retire" /\ s.error = "none" => \A x : Listed(ns, x) => Listed(s.retired, x)
  <2>1. CASE k.kind = "retire"
    <3>1. s = RetirementsLost(r, ns)
      BY <2>1, <1>1, <1>4
    <3>2. \A j \in 1 .. Len(ns) : Gone(r, ns[j]) /\ ns[j] < l.next
      BY <2>1, <1>41
    <3>3. l.next \in Nat
      BY <1>2, LocalCidsAssumption DEF LocalInv, LocalSet
    <3>4. ns \in Seq(Nat)
      BY <1>4, NumbersAreNat DEF NumberSeq
    <3> HIDE DEF ns
    <3>5. /\ Evolves(r, s, l.next) /\ s.cids = r.cids
          /\ s.error = "none" => \A j \in 1 .. Len(ns) : Listed(s.retired, ns[j])
      BY <3>1, <3>2, <3>3, <3>4, <1>2, RetirementsLostProp
    <3> QED
      BY <3>5 DEF Listed
  <2>2. CASE k.kind # "retire"
    <3>1. s = r
      BY <2>2, <1>1, <1>4
    <3> QED
      BY <3>1, <2>2, <1>2, EvolvesNot
  <2> QED
    BY <2>1, <2>2
<1>9. CASE s.error # "none"
  <2>1. Len(packets') <= MaxPackets /\ packets' \in Seq(Packet)
    <3>1. Len(packets') \in Nat /\ Len(packets) \in Nat /\ Len(packets') <= Len(packets)
      BY <1>2, <1>6 DEF Carries
    <3> QED
      BY <3>1, <1>2, <1>6, ConnectionIdsAssumption DEF Carries
  <2>2. AlwaysInv(m, s, paths, packets', s.error)
    BY <2>1, <1>2, <1>7, <1>8 DEF AlwaysInv, Evolves
  <2> QED
    BY <2>2, <1>1, <1>9 DEF IInv, StateInv, m, s
<1>10. CASE s.error = "none"
  <2>1. \A kind, x : Carried(packets, kind, x) =>
            Carried(packets', kind, x) \/ (k.kind = kind /\ Listed(ns, x))
    BY <1>4, <1>6 DEF Carries, IsSent
  <2>2. /\ SetsInv(l, s) /\ PacketsInv(l, s, packets)
        /\ ~PartialRetire => RetireInv(l, s, packets)
    BY <1>2, <1>8, <1>10, SetsEvolve
  <2>3. NewInv(m, packets')
    BY <1>2, <1>7, <2>1 DEF NewInv
  <2>4. ~PartialRetire => RetireInv(l, s, packets')
    BY <2>1, <2>2, <1>8, <1>10 DEF RetireInv
  <2>5. SpareInv(l, packets')
    BY <1>2, <1>4, <1>5, <1>6, SpareKept
  <2>6. /\ SetsInv(m, s) /\ PacketsInv(m, s, packets) /\ SpareInv(m, packets')
        /\ ~PartialRetire => RetireInv(m, s, packets')
    BY <2>2, <2>4, <2>5, <1>7, IssuerStep
  <2>7. PacketInv(k, m, s)
    <3>1. PacketInv(packets[i], m, s)
      BY <2>6, <1>2 DEF PacketsInv, Listed
    <3> QED
      BY <3>1, <1>4 DEF PacketInv
  <2>8. PathsInv(s, paths)
    BY <1>2, <1>8 DEF PathsInv, InUse
  <2>9. StateInv(m, s, paths, packets', "none")
    BY <1>2, <1>6, <2>3, <2>6, <2>7, <2>8, PacketStep
  <2> QED
    BY <2>9, <1>1, <1>10 DEF IInv, m, s
<1> QED
  BY <1>9, <1>10

(* The RETIRE_CONNECTION_ID frames of a packet are handled: none of the     *)
(* calls fails, as one of the issued CIDs is not retired.                   *)
RetiredFrom(l, m, qs) ==
    /\ LocalInv(m) /\ l.next <= m.next
    /\ \A y : y \in Inflight(m) => y \in Inflight(l)
    /\ \A y : y \in Issued(m) => y \in Issued(l) \/ ~(y < l.next)
    /\ \A y \in 0 .. m.next - 1 :
          y \in Issued(m) \/ (y < l.next /\ (y \notin Issued(l) \/ Listed(qs, y)))
    /\ \A q : Listed(qs, q) => q \notin Issued(m)

LEMMA RetiredFromProp ==
    ASSUME NEW l, LocalInv(l), NEW qs, qs \in NumberSeq, \A q : Listed(qs, q) => q < l.next,
           NEW x, x \in Issued(l), ~Listed(qs, x),
           NEW a, a = RetiredInTurn(l, qs)[Len(qs)]
    PROVE  a.error = "none" /\ RetiredFrom(l, a.set, qs) /\ x \in Issued(a.set)
<1>1. qs \in Seq(0 .. MaxPathId - 1)
  BY DEF NumberSeq
<1>2. \A k \in 1 .. Len(qs) : qs[k] < l.next /\ qs[k] # x
  BY DEF Listed
<1>3. /\ a.error = "none" /\ LocalInv(a.set) /\ l.next <= a.set.next /\ x \in Issued(a.set)
      /\ \A y : y \in Inflight(a.set) => y \in Inflight(l)
      /\ \A y : y \in Issued(a.set) => y \in Issued(l) \/ ~(y < l.next)
      /\ \A y \in 0 .. a.set.next - 1 :
            y \in Issued(a.set) \/ (y < l.next /\ (y \notin Issued(l) \/ Listed(qs, y)))
      /\ \A j \in 1 .. Len(qs) : qs[j] \notin Issued(a.set)
  BY <1>1, <1>2, RetiredInTurnProp
<1> QED
  BY <1>3 DEF RetiredFrom, Listed

(* How the parts of the invariant follow the issuer's set. *)
LEMMA RetiredStep ==
    ASSUME NEW l, NEW m, NEW r, NEW ps, NEW qs, RetiredFrom(l, m, qs), SetsInv(l, r),
           \A q : Listed(qs, q) => Gone(r, q), PacketsInv(l, r, ps)
    PROVE  /\ SetsInv(m, r) /\ PacketsInv(m, r, ps)
           /\ RetireInv(l, r, ps) => RetireInv(m, r, ps)
           /\ NewInv(l, ps) => NewInv(m, ps)
<1>1. l.next \in Nat /\ m.next \in Nat /\ l.next <= m.next /\ LocalInv(m) /\ RemoteInv(r)
  BY LocalCidsAssumption DEF RetiredFrom, SetsInv, LocalInv, LocalSet
<1>2. ASSUME NEW q, q \in Nat, q < l.next PROVE q < m.next
  BY <1>1, <1>2
<1>3. \A q : Gone(r, q) => q \in Nat /\ q < l.next
  <2>1. r.largest \in Nat
    BY <1>1 DEF RemoteInv, RemoteSet
  <2> QED
    BY <2>1 DEF SetsInv, Gone
<1>4. \A q : Known(r, q) => q \in Nat
  <2>1. r.cids \in [1 .. Limit -> RemoteEntry]
    BY <1>1 DEF RemoteInv, RemoteSet
  <2> QED
    BY <2>1 DEF Known, RemoteEntry
<1>5. SetsInv(m, r)
  <2>1. \A q : Listed(r.retired, q) => Gone(r, q)
    BY <1>1 DEF RemoteInv
  <2>2. /\ \A q : Listed(r.retired, q) => q < m.next
        /\ \A q : Gone(r, q) => q < m.next
    BY <2>1, <1>2, <1>3
  <2>3. \A q : Known(r, q) => q < m.next
    BY <1>2, <1>4 DEF SetsInv
  <2>4. ASSUME NEW q \in 0 .. m.next - 1 PROVE q \in Issued(m) \/ Gone(r, q)
    <3>1. q \in Issued(m) \/ (q < l.next /\ (q \notin Issued(l) \/ Listed(qs, q)))
      BY DEF RetiredFrom
    <3>2. q < l.next => q \in 0 .. l.next - 1
      BY <1>1
    <3> QED
      BY <3>1, <3>2 DEF SetsInv
  <2> QED
    BY <2>2, <2>3, <2>4, <1>1 DEF SetsInv
<1>6. PacketsInv(m, r, ps)
  <2>1. ASSUME NEW k, Listed(ps, k) PROVE PacketInv(k, m, r)
    <3>1. PacketInv(k, l, r) /\ k \in Packet
      BY <2>1 DEF PacketsInv, PacketInv
    <3>2. k.seqs \in NumberSeq
      BY <3>1 DEF Packet, NumberSeq
    <3>3. \A q : Listed(k.seqs, q) => q \in Nat
      <4> DEFINE t == k.seqs
      <4>1. t \in Seq(Nat)
        BY <3>2, NumbersAreNat
      <4> HIDE DEF t
      <4>2. \A j \in 1 .. Len(t) : t[j] \in Nat
        BY <4>1, SeqElement
      <4> QED
        BY <4>2 DEF Listed, t
    <3>4. \A q : Listed(k.seqs, q) => q < m.next
      BY <3>1, <3>3, <1>2 DEF PacketInv
    <3>5. \A q : Listed(k.seqs, q) /\ q \notin Issued(l) => q \notin Issued(m)
      BY <3>1 DEF PacketInv, RetiredFrom
    <3> QED
      BY <3>1, <3>4, <3>5 DEF PacketInv
  <2> QED
    BY <2>1 DEF PacketsInv
<1>7. RetireInv(l, r, ps) => RetireInv(m, r, ps)
  BY <1>3 DEF RetireInv, RetiredFrom
<1>8. NewInv(l, ps) => NewInv(m, ps)
  BY DEF NewInv, RetiredFrom
<1> QED
  BY <1>5, <1>6, <1>7, <1>8

LEMMA ReceiveRetireStep ==
    ASSUME IInv, NEW i \in DOMAIN packets, ReceiveRetire(i)
    PROVE  IInv'
<1> DEFINE l == local
           m == local'
           r == remote
           k == [packets[i] EXCEPT !.net = "received"]
           ns == packets[i].seqs
           a == RetiredInTurn(local, packets[i].seqs)[Len(packets[i].seqs)]
<1>1. /\ closed = "none" /\ packets[i].net = "transit" /\ packets[i].kind = "retire"
      /\ packets' = Changed(packets, i, k)
      /\ m = a.set /\ closed' = a.error /\ remote' = r /\ paths' = paths
  BY DEF ReceiveRetire
<1>2. /\ SetsInv(l, r) /\ PacketsInv(l, r, packets) /\ SpareInv(l, packets)
      /\ PathsInv(r, paths) /\ NewInv(l, packets)
      /\ (~PartialRetire => RetireInv(l, r, packets)) /\ (RotateBelow = 0 => ProbedInv(paths))
      /\ packets \in Seq(Packet) /\ Len(packets) <= MaxPackets /\ i \in 1 .. Len(packets)
      /\ LocalInv(l)
  BY <1>1 DEF IInv, StateInv, AlwaysInv, OpenInv, SetsInv
<1>3. packets[i] \in Packet /\ PacketInv(packets[i], l, r) /\ Listed(packets, packets[i])
  BY <1>2 DEF PacketsInv, Listed
<1>4. /\ k \in Packet /\ k.kind = packets[i].kind /\ k.seqs = ns /\ k.map = packets[i].map
      /\ k.net = "received" /\ ns \in NumberSeq
  BY <1>1, <1>3 DEF Packet, NumberSeq
<1>5. \A q : Listed(ns, q) => q < l.next /\ Gone(r, q)
  BY <1>1, <1>3 DEF PacketInv
<1>6. PICK x \in Issued(l) :
          \A p : Listed(packets, p) /\ p.kind = "retire" /\ p.net = "transit" => ~Listed(p.seqs, x)
  BY <1>2 DEF SpareInv
<1>7. ~Listed(ns, x)
  BY <1>1, <1>3, <1>6
<1>8. a = RetiredInTurn(l, ns)[Len(ns)]
  OBVIOUS
<1> HIDE DEF k, m, l, r, ns, a
<1>9. a.error = "none" /\ RetiredFrom(l, m, ns) /\ x \in Issued(m)
  <2>1. a.error = "none" /\ RetiredFrom(l, a.set, ns) /\ x \in Issued(a.set)
    BY <1>2, <1>4, <1>5, <1>7, <1>8, RetiredFromProp
  <2> QED
    BY <2>1, <1>1
<1>10. Becomes(packets, i, k, packets')
  BY <1>1, <1>2, <1>4 DEF Becomes, ns
<1>11. Carries(packets, i, k, packets')
  BY <1>2, <1>4, <1>10, BecomesProp
<1>12. /\ SetsInv(m, r) /\ PacketsInv(m, r, packets)
       /\ ~PartialRetire => RetireInv(m, r, packets)
       /\ NewInv(m, packets)
  BY <1>2, <1>5, <1>9, RetiredStep
<1>13. \A kind, y : Carried(packets, kind, y) => Carried(packets', kind, y)
  BY <1>4, <1>11 DEF Carries, IsSent
<1>14. NewInv(m, packets') /\ (~PartialRetire => RetireInv(m, r, packets'))
  BY <1>12, <1>13 DEF NewInv, RetireInv
<1>15. SpareInv(m, packets')
  <2>1. ASSUME NEW p, Listed(packets', p), p.kind = "retire", p.net = "transit" PROVE ~Listed(p.seqs, x)
    <3>1. p = k \/ Listed(packets, p)
      BY <2>1, <1>11 DEF Carries
    <3> QED
      BY <3>1, <2>1, <1>4, <1>6
  <2> QED
    BY <2>1, <1>9 DEF SpareInv
<1>16. PacketInv(k, m, r)
  <2>1. PacketInv(packets[i], m, r)
    BY <1>3, <1>12 DEF PacketsInv
  <2>2. \A q : Listed(ns, q) => q \notin Issued(m)
    BY <1>9 DEF RetiredFrom
  <2> QED
    BY <2>1, <2>2, <1>4 DEF PacketInv, ns
<1>17. StateInv(m, r, paths, packets', "none")
  BY <1>2, <1>11, <1>12, <1>14, <1>15, <1>16, PacketStep
<1> QED
  BY <1>1, <1>9, <1>17 DEF IInv, m, r

(* The CIDs that a series of calls has added to the queue. *)
LEMMA TailProp ==
    ASSUME NEW t \in Seq(Nat), NEW n \in 0 .. Len(t), NEW q
    PROVE  q \in ToSet(SubSeq(t, n + 1, Len(t))) <=> \E j \in n + 1 .. Len(t) : t[j] = q
<1> DEFINE u == SubSeq(t, n + 1, Len(t))
<1>1. /\ Len(t) \in Nat /\ u \in Seq(Nat) /\ Len(u) = Len(t) - n /\ DOMAIN u = 1 .. Len(t) - n
      /\ \A j \in 1 .. Len(t) - n : u[j] = t[j + n]
  OBVIOUS
<1> HIDE DEF u
<1>2. q \in ToSet(u) <=> \E j \in 1 .. Len(t) - n : u[j] = q
  BY <1>1 DEF ToSet
<1>3. ASSUME NEW j \in 1 .. Len(t) - n, u[j] = q PROVE \E i \in n + 1 .. Len(t) : t[i] = q
  <2>1. j + n \in n + 1 .. Len(t) /\ t[j + n] = q
    BY <1>1, <1>3
  <2> QED
    BY <2>1
<1>4. ASSUME NEW i \in n + 1 .. Len(t), t[i] = q PROVE \E j \in 1 .. Len(t) - n : u[j] = q
  <2>1. i - n \in 1 .. Len(t) - n /\ (i - n) + n = i
    BY <1>1
  <2>2. u[i - n] = q
    BY <2>1, <1>1, <1>4
  <2> QED
    BY <2>1, <2>2
<1> QED
  BY <1>2, <1>3, <1>4 DEF u

(* handle_new_connection_id_frame: the CIDs that are dissociated from the   *)
(* paths are those that left the set while they were in use.                *)
LEMMA ReleasedByRegister ==
    ASSUME NEW l, NEW r, NEW s, SetsInv(l, r), Evolves(r, s, l.next), s.error = "none"
    PROVE  Released(r, s, ToSet(SubSeq(s.retired, Len(r.retired) + 1, Len(s.retired))))
<1> DEFINE n == Len(r.retired)
           t == s.retired
           T == ToSet(SubSeq(s.retired, Len(r.retired) + 1, Len(s.retired)))
<1>1. /\ RemoteInv(r) /\ RemoteInv(s) /\ t \in Seq(Nat) /\ n \in Nat /\ Len(t) \in Nat /\ n <= Len(t)
      /\ \A j \in 1 .. n : t[j] = r.retired[j]
  BY DEF SetsInv, Evolves, RemoteInv, RemoteSet
<1>2. ASSUME NEW q PROVE q \in T <=> \E j \in n + 1 .. Len(t) : t[j] = q
  BY <1>1, TailProp
<1> HIDE DEF T
<1>3. ASSUME NEW q, InUse(r, q), InUse(s, q) PROVE q \notin T
  <2>1. Present(s, q)
    BY <1>3 DEF InUse, Present
  <2>2. ~Listed(t, q)
    BY <2>1, <1>1 DEF RemoteInv, Gone
  <2>3. \A j \in n + 1 .. Len(t) : j \in 1 .. Len(t)
    BY <1>1
  <2> QED
    BY <2>2, <2>3, <1>2 DEF Listed
<1>4. ASSUME NEW q, InUse(r, q), ~InUse(s, q) PROVE q \in T
  <2>1. ~Gone(r, q)
    BY <1>4, InUseIsIssued
  <2>2. Listed(t, q)
    BY <2>1, <1>4 DEF Evolves
  <2>3. PICK j \in 1 .. Len(t) : t[j] = q
    BY <2>2 DEF Listed
  <2>4. ~(j \in 1 .. n)
    <3>1. ~Listed(r.retired, q)
      BY <2>1, <1>1 DEF RemoteInv
    <3> QED
      BY <3>1, <2>3, <1>1 DEF Listed
  <2>5. j \in n + 1 .. Len(t)
    BY <2>4, <1>1
  <2> QED
    BY <2>3, <2>5, <1>2
<1>5. \A q : InUse(s, q) => InUse(r, q)
  BY DEF Evolves
<1> QED
  BY <1>3, <1>4, <1>5 DEF Released, T

LEMMA ReceiveNewStep ==
    ASSUME IInv, NEW i \in DOMAIN packets, ReceiveNew(i)
    PROVE  IInv'
<1> DEFINE l == local
           r == remote
           s == remote'
           pb == paths'
           k == [packets[i] EXCEPT !.net = "received"]
           ns == packets[i].seqs
           T == ToSet(SubSeq(s.retired, Len(r.retired) + 1, Len(s.retired)))
<1>1. /\ closed = "none" /\ packets[i].net = "transit" /\ packets[i].kind = "new"
      /\ packets' = Changed(packets, i, k)
      /\ s = RegisteredInTurn(r, ns)[Len(ns)] /\ closed' = s.error
      /\ pb = Dissociated(paths, T) /\ local' = l
  BY DEF ReceiveNew
<1>2. /\ SetsInv(l, r) /\ PacketsInv(l, r, packets) /\ SpareInv(l, packets)
      /\ PathsInv(r, paths) /\ NewInv(l, packets)
      /\ (~PartialRetire => RetireInv(l, r, packets)) /\ (RotateBelow = 0 => ProbedInv(paths))
      /\ packets \in Seq(Packet) /\ Len(packets) <= MaxPackets /\ i \in 1 .. Len(packets)
      /\ LocalInv(l) /\ RemoteInv(r) /\ r.error = "none" /\ paths \in [0 .. NumPaths - 1 -> Path]
  BY <1>1 DEF IInv, StateInv, AlwaysInv, OpenInv, SetsInv
<1>3. packets[i] \in Packet /\ PacketInv(packets[i], l, r) /\ Listed(packets, packets[i])
  BY <1>2 DEF PacketsInv, Listed
<1>4. /\ k \in Packet /\ k.kind = "new" /\ k.kind = packets[i].kind /\ k.seqs = ns
      /\ k.map = packets[i].map /\ k.net = "received" /\ ns \in NumberSeq
  BY <1>1, <1>3 DEF Packet, NumberSeq
<1>5. \A q : Listed(ns, q) => q < l.next
  BY <1>3 DEF PacketInv
<1>6. T = ToSet(SubSeq(s.retired, Len(r.retired) + 1, Len(s.retired)))
  OBVIOUS
<1> HIDE DEF k, l, r, s, ns, T, pb
<1>7. Evolves(r, s, l.next) /\ (RotateBelow = 0 => s.retired = r.retired)
  <2>1. l.next \in Nat /\ r.largest \in Nat
    BY <1>2, LocalCidsAssumption DEF LocalInv, LocalSet, RemoteInv, RemoteSet
  <2>2. l.next - 1 <= r.largest
    BY <1>2, IssuedIsExpected DEF SetsInv
  <2>3. ns \in Seq(Nat)
    BY <1>4, NumbersAreNat
  <2>4. ASSUME NEW j \in 1 .. Len(ns) PROVE ns[j] \in 0 .. r.largest /\ ns[j] < l.next
    <3>1. ns[j] < l.next
      BY <1>5 DEF Listed
    <3>2. ns[j] \in Nat
      BY <2>3, SeqElement
    <3> QED
      BY <3>1, <3>2, <2>1, <2>2
  <2> QED
    BY <2>1, <2>3, <2>4, <1>1, <1>2, RegisteredInTurnProp
<1>8. /\ pb \in [0 .. NumPaths - 1 -> Path]
      /\ \A p \in 0 .. NumPaths - 1 :
            /\ pb[p].phase = paths[p].phase
            /\ paths[p].dcid \in T => pb[p].dcid = NoSeq
            /\ paths[p].dcid \notin T => pb[p] = paths[p]
  <2>1. pb = Dissociated(paths, T) /\ paths \in [0 .. NumPaths - 1 -> Path]
    BY <1>1, <1>2
  <2> QED
    BY <2>1, DissociatedProp
<1>9. Becomes(packets, i, k, packets')
  BY <1>1, <1>2, <1>4 DEF Becomes, ns
<1>10. Carries(packets, i, k, packets')
  BY <1>2, <1>4, <1>9, BecomesProp
<1>11. CASE s.error # "none"
  <2>1. Len(packets') <= MaxPackets /\ packets' \in Seq(Packet)
    <3>1. Len(packets') \in Nat /\ Len(packets) \in Nat /\ Len(packets') <= Len(packets)
      BY <1>2, <1>10 DEF Carries
    <3> QED
      BY <3>1, <1>2, <1>10, ConnectionIdsAssumption DEF Carries
  <2>2. AlwaysInv(l, s, pb, packets', s.error)
    BY <2>1, <1>2, <1>7, <1>8 DEF AlwaysInv, Evolves
  <2> QED
    BY <2>2, <1>1, <1>11 DEF IInv, StateInv, l, s, pb
<1>12. CASE s.error = "none"
  <2>1. Released(r, s, T)
    BY <1>2, <1>6, <1>7, <1>12, ReleasedByRegister
  <2>2. Detached(paths, pb, T)
    BY <1>8 DEF Detached
  <2>3. PathsInv(s, pb)
    BY <2>1, <2>2, <1>2, <1>8, PathsDissociate
  <2>4. ASSUME RotateBelow = 0 PROVE ProbedInv(pb)
    <3>1. T = {}
      <4>1. s.retired = r.retired /\ s.retired \in Seq(Nat) /\ Len(s.retired) \in Nat
        BY <2>4, <1>2, <1>7 DEF RemoteInv, RemoteSet
      <4> DEFINE t == s.retired
      <4>2. T = ToSet(SubSeq(t, Len(t) + 1, Len(t)))
        BY <4>1, <1>6
      <4>3. t \in Seq(Nat) /\ Len(t) \in 0 .. Len(t)
        BY <4>1
      <4> HIDE DEF t
      <4>4. \A q : q \in T => \E j \in Len(t) + 1 .. Len(t) : t[j] = q
        BY <4>2, <4>3, TailProp
      <4>5. Len(t) + 1 .. Len(t) = {}
        BY <4>3
      <4> QED
        BY <4>4, <4>5
    <3>2. 0 \in 0 .. NumPaths - 1 /\ \A p \in 0 .. NumPaths - 1 : pb[p] = paths[p]
      BY <3>1, <1>8, ConnectionIdsAssumption
    <3> QED
      BY <3>2, <2>4, <1>2 DEF ProbedInv
  <2>5. /\ SetsInv(l, s) /\ PacketsInv(l, s, packets)
        /\ ~PartialRetire => RetireInv(l, s, packets)
    BY <1>2, <1>7, <1>12, SetsEvolve
  <2>6. \A kind, x : Carried(packets, kind, x) => Carried(packets', kind, x)
    BY <1>4, <1>10 DEF Carries, IsSent
  <2>7. NewInv(l, packets') /\ (~PartialRetire => RetireInv(l, s, packets'))
    BY <2>5, <2>6, <1>2 DEF NewInv, RetireInv
  <2>8. SpareInv(l, packets')
    BY <1>2, <1>4, <1>9, <1>10, SpareKept
  <2>9. PacketInv(k, l, s)
    <3>1. PacketInv(packets[i], l, s)
      BY <2>5, <1>3 DEF PacketsInv
    <3> QED
      BY <3>1, <1>4 DEF PacketInv, ns
  <2>10. StateInv(l, s, pb, packets', "none")
    BY <1>2, <1>10, <2>3, <2>4, <2>5, <2>7, <2>8, <2>9, PacketStep
  <2> QED
    BY <2>10, <1>1, <1>12 DEF IInv, l, s, pb
<1> QED
  BY <1>11, <1>12

-------------------------------------------------------------------------------
(* The user's set to begin with: CID 0 is in use, the others are expected. *)
LEMMA InitRemoteProp ==
    ASSUME NEW r, r = InitRemote
    PROVE  /\ RemoteInv(r) /\ r.error = "none" /\ r.retired = << >>
           /\ \A q : ~Gone(r, q)
           /\ \A q : Known(r, q) <=> q = 0
           /\ \A q : InUse(r, q) <=> q = 0
<1> DEFINE c == [i \in 1 .. Limit |-> [state |-> IF i = 1 THEN "in_use" ELSE "unavailable", seq |-> i - 1]]
<1>1. Limit \in Nat \ {0} /\ RetireCapacity \in Nat
  BY RemoteCidsAssumption
<1>2. \A i \in 1 .. Limit : /\ c[i] \in RemoteEntry /\ c[i].seq = i - 1
                            /\ i = 1 => c[i].state = "in_use"
                            /\ i # 1 => c[i].state = "unavailable"
  BY <1>1 DEF RemoteEntry, RemoteStates
<1>3. c \in [1 .. Limit -> RemoteEntry]
  <2>1. c = [i \in 1 .. Limit |-> c[i]]
    OBVIOUS
  <2> HIDE DEF c
  <2> QED
    BY <2>1, <1>2
<1>4. r = [cids |-> c, largest |-> Limit - 1, retired |-> << >>, error |-> "none"]
  BY DEF InitRemote
<1> HIDE DEF c
<1>5. /\ r \in RemoteSet /\ r.cids = c /\ r.largest = Limit - 1 /\ r.retired = << >> /\ r.error = "none"
  BY <1>1, <1>3, <1>4 DEF RemoteSet
<1>6. \A q : ~Listed(r.retired, q)
  BY <1>5 DEF Listed
<1>7. ASSUME NEW q PROVE ~Gone(r, q)
  <2>1. SUFFICES ASSUME q \in 0 .. Limit - 1 PROVE Present(r, q)
    BY <1>5 DEF Gone
  <2>2. q + 1 \in 1 .. Limit /\ (q + 1) - 1 = q
    BY <1>1, <2>1
  <2> QED
    BY <2>2, <1>2, <1>5 DEF Present
<1>8. ASSUME NEW q PROVE (Known(r, q) <=> q = 0) /\ (InUse(r, q) <=> q = 0)
  <2>1. 1 \in 1 .. Limit /\ 1 - 1 = 0
    BY <1>1
  <2> QED
    BY <2>1, <1>2, <1>5 DEF Known, InUse
<1>9. RemoteInv(r)
  <2>1. \A i, j \in 1 .. Limit : r.cids[i].seq = r.cids[j].seq => i = j
    BY <1>1, <1>2, <1>5
  <2>2. \A i \in 1 .. Limit : r.cids[i].seq <= r.largest
    BY <1>1, <1>2, <1>5
  <2>3. Len(r.retired) <= RetireCapacity
    BY <1>1, <1>5
  <2> QED
    BY <2>1, <2>2, <2>3, <1>5, <1>6 DEF RemoteInv
<1> QED
  BY <1>5, <1>7, <1>8, <1>9

LEMMA InitInv == Init => IInv
<1> DEFINE l == local
           r == remote
<1>1. SUFFICES ASSUME Init PROVE IInv
  OBVIOUS
<1>2. l = InitLocal /\ r = InitRemote /\ packets = << >> /\ closed = "none"
  BY <1>1 DEF Init
<1>3. /\ LocalInv(l) /\ Inflight(l) = {} /\ 0 \in Issued(l)
      /\ \A x \in 0 .. l.next - 1 : x \in Issued(l)
  BY <1>2, InitLocalProp
<1>4. /\ RemoteInv(r) /\ r.error = "none" /\ r.retired = << >>
      /\ \A q : ~Gone(r, q)
      /\ \A q : Known(r, q) <=> q = 0
      /\ \A q : InUse(r, q) <=> q = 0
  BY <1>2, InitRemoteProp
<1>5. \A q : ~Listed(r.retired, q) /\ ~Listed(packets, q)
  BY <1>2, <1>4 DEF Listed
<1>6. /\ paths \in [0 .. NumPaths - 1 -> Path] /\ 0 \in 0 .. NumPaths - 1
      /\ paths[0] = [dcid |-> 0, phase |-> "valid"]
      /\ \A p \in 0 .. NumPaths - 1 : p # 0 => paths[p] = NoPath
  <2>1. 0 \in 0 .. NumPaths - 1
    BY ConnectionIdsAssumption
  <2>2. [dcid |-> 0, phase |-> "valid"] \in Path /\ NoPath \in Path
    BY LocalCidsAssumption DEF Path, NoPath, NoSeq
  <2> QED
    BY <1>1, <2>1, <2>2 DEF Init
<1>7. paths[0].dcid = 0 /\ \A p \in 0 .. NumPaths - 1 : p # 0 => paths[p].dcid = NoSeq /\ paths[p].phase = "none"
  BY <1>6 DEF NoPath
<1> HIDE DEF l, r
<1>8. SetsInv(l, r)
  <2>1. 0 < l.next
    BY <1>3, LocalCidsAssumption DEF LocalInv, LocalSet
  <2> QED
    BY <2>1, <1>3, <1>4, <1>5 DEF SetsInv
<1>9. packets \in Seq(Packet) /\ Len(packets) <= MaxPackets
  BY <1>2, ConnectionIdsAssumption
<1>10. PacketsInv(l, r, packets) /\ SpareInv(l, packets) /\ NewInv(l, packets) /\ RetireInv(l, r, packets)
  BY <1>3, <1>4, <1>5, <1>9 DEF PacketsInv, SpareInv, NewInv, RetireInv
<1>11. PathsInv(r, paths)
  <2>1. NoSeq # 0
    BY DEF NoSeq
  <2>2. \A p, q \in 0 .. NumPaths - 1 : paths[p].dcid = paths[q].dcid /\ paths[p].dcid # NoSeq => p = q
    BY <2>1, <1>6, <1>7
  <2> QED
    BY <2>1, <2>2, <1>4, <1>6, <1>7 DEF PathsInv
<1>12. ProbedInv(paths)
  BY <1>6, <1>7 DEF ProbedInv, NoSeq
<1>13. OpenInv(l, r, paths, packets)
  BY <1>8, <1>10, <1>11, <1>12 DEF OpenInv
<1>14. AlwaysInv(l, r, paths, packets, closed)
  BY <1>2, <1>3, <1>4, <1>6, <1>9 DEF AlwaysInv
<1> QED
  BY <1>13, <1>14 DEF IInv, StateInv, l, r

LEMMA NextInv == IInv /\ [Next]_vars => IInv'
<1> SUFFICES ASSUME IInv, [Next]_vars PROVE IInv'
  OBVIOUS
<1>1. CASE UNCHANGED vars
  BY <1>1 DEF IInv, vars
<1>2. CASE PathNext
  BY <1>2, SetupDefaultPathStep, OpenPathStep, ProbePathStep, GiveUpPathStep, ValidatePathStep, PromotePathStep
     DEF PathNext
<1>3. CASE FrameNext
  BY <1>3, SendNewStep, SendRetireStep, LoseStep, ReceiveNewStep, ReceiveRetireStep, OnAckStep, DeclareLostStep,
     ExpireStep
     DEF FrameNext
<1> QED
  BY <1>1, <1>2, <1>3 DEF Next

(* What the invariant says of the properties. *)
LEMMA InvImplies ==
    ASSUME IInv
    PROVE  TypeOK /\ NewCidsAreFifo /\ NoFalseAccusation
<1>1. /\ LocalInv(local) /\ RemoteInv(remote) /\ paths \in [0 .. NumPaths - 1 -> Path]
      /\ packets \in Seq(Packet) /\ Len(packets) <= MaxPackets
      /\ closed \in {"none", "exhausted"}
  BY DEF IInv, StateInv, AlwaysInv
<1>2. local.cids \in [1 .. LocalSize -> LocalEntry] /\ local.next \in 1 .. MaxPathId /\ PendingIsFifo(local)
  BY <1>1 DEF LocalInv, LocalSet
<1>3. /\ remote.cids \in [1 .. Limit -> RemoteEntry] /\ remote.largest \in Nat
      /\ Len(remote.retired) <= RetireCapacity
      /\ \A i \in 1 .. Limit : remote.cids[i].seq <= remote.largest
  BY <1>1 DEF RemoteInv, RemoteSet
<1>4. ASSUME NEW i \in 1 .. Limit
      PROVE  remote.cids[i].state \in RemoteStates /\ remote.cids[i].seq \in 0 .. remote.largest
  <2>1. remote.cids[i] \in RemoteEntry
    BY <1>3
  <2>2. remote.cids[i].state \in RemoteStates /\ remote.cids[i].seq \in Nat
    BY <2>1 DEF RemoteEntry
  <2> QED
    BY <2>2, <1>3
<1> QED
  BY <1>1, <1>2, <1>3, <1>4 DEF TypeOK, NewCidsAreFifo, NoFalseAccusation

LEMMA InvImpliesPaths ==
    ASSUME IInv
    PROVE  PathCidsAreLive /\ NoCidLeak /\ (RotateBelow = 0 => DefaultPathFindsCid)
<1>1. CASE closed # "none"
  BY <1>1 DEF PathCidsAreLive, NoCidLeak, DefaultPathFindsCid
<1>2. CASE closed = "none"
  <2>1. /\ SetsInv(local, remote) /\ PathsInv(remote, paths) /\ RemoteInv(remote)
        /\ RotateBelow = 0 => ProbedInv(paths)
    BY <1>2 DEF IInv, StateInv, OpenInv, SetsInv
  <2>2. DOMAIN paths = 0 .. NumPaths - 1 /\ DOMAIN remote.cids = 1 .. Limit
    BY <2>1 DEF PathsInv, RemoteInv, RemoteSet
  <2>3. ASSUME NEW p \in DOMAIN paths, paths[p].dcid # NoSeq
        PROVE  /\ paths[p].dcid \in Issued(local)
               /\ \E i \in EntriesOf(remote, paths[p].dcid) : remote.cids[i].state = "in_use"
               /\ \A q \in DOMAIN paths : q # p => paths[q].dcid # paths[p].dcid
    <3>1. InUse(remote, paths[p].dcid)
      BY <2>1, <2>2, <2>3 DEF PathsInv
    <3>2. paths[p].dcid \in Issued(local)
      BY <3>1, <2>1, InUseIsIssued
    <3>3. \E i \in EntriesOf(remote, paths[p].dcid) : remote.cids[i].state = "in_use"
      BY <3>1, <2>2 DEF EntriesOf, InUse
    <3>4. \A q \in DOMAIN paths : q # p => paths[q].dcid # paths[p].dcid
      BY <2>1, <2>2, <2>3 DEF PathsInv
    <3> QED
      BY <3>2, <3>3, <3>4
  <2>4. ASSUME NEW i \in DOMAIN remote.cids, remote.cids[i].state = "in_use"
        PROVE  \E p \in DOMAIN paths : paths[p].dcid = remote.cids[i].seq
    <3>1. InUse(remote, remote.cids[i].seq)
      BY <2>2, <2>4 DEF InUse
    <3> QED
      BY <3>1, <2>1, <2>2 DEF PathsInv
  <2> QED
    BY <1>2, <2>1, <2>3, <2>4 DEF PathCidsAreLive, NoCidLeak, DefaultPathFindsCid, ProbedInv
<1> QED
  BY <1>1, <1>2

LEMMA InvImpliesFrames ==
    ASSUME IInv
    PROVE  NewCidNotForgotten /\ (~PartialRetire => RetirementNotForgotten)
<1>1. CASE closed # "none"
  BY <1>1 DEF NewCidNotForgotten, RetirementNotForgotten
<1>2. CASE closed = "none"
  <2>1. /\ SetsInv(local, remote) /\ PacketsInv(local, remote, packets) /\ NewInv(local, packets)
        /\ ~PartialRetire => RetireInv(local, remote, packets)
        /\ RemoteInv(remote) /\ LocalInv(local) /\ packets \in Seq(Packet)
    BY <1>2 DEF IInv, StateInv, OpenInv, SetsInv, PacketsInv
  <2>2. /\ DOMAIN remote.cids = 1 .. Limit /\ DOMAIN local.cids = 1 .. LocalSize
        /\ DOMAIN packets = 1 .. Len(packets)
        /\ remote.retired \in Seq(Nat) /\ remote.largest \in Nat
    BY <2>1 DEF RemoteInv, RemoteSet, LocalInv, LocalSet
  <2>3. ASSUME NEW kind, NEW x, Carried(packets, kind, x)
        PROVE  \E i \in DOMAIN packets : /\ packets[i].kind = kind /\ packets[i].map = "inflight"
                                         /\ Contains(packets[i].seqs, x)
    <3>1. PICK k : Listed(packets, k) /\ IsSent(k, kind) /\ Listed(k.seqs, x)
      BY <2>3 DEF Carried
    <3>2. PICK i \in 1 .. Len(packets) : packets[i] = k
      BY <3>1 DEF Listed
    <3>3. k \in Packet
      BY <3>1, <2>1 DEF PacketsInv, PacketInv
    <3>4. DOMAIN k.seqs = 1 .. Len(k.seqs)
      BY <3>3 DEF Packet
    <3>5. Contains(k.seqs, x)
      BY <3>1, <3>4 DEF Listed, Contains
    <3> QED
      BY <3>1, <3>2, <3>5, <2>2 DEF IsSent
  <2>4. ASSUME NEW i \in DOMAIN local.cids, local.cids[i].state = "inflight"
        PROVE  \E k \in DOMAIN packets : /\ packets[k].kind = "new" /\ packets[k].map = "inflight"
                                         /\ Contains(packets[k].seqs, local.cids[i].seq)
    <3>1. local.cids[i].seq \in Inflight(local)
      BY <2>2, <2>4 DEF Inflight
    <3>2. Carried(packets, "new", local.cids[i].seq)
      BY <3>1, <2>1 DEF NewInv
    <3> QED
      BY <3>2, <2>3
  <2>5. ASSUME ~PartialRetire, NEW q \in Issued(local), q <= remote.largest
        PROVE  \/ EntriesOf(remote, q) # {}
               \/ Contains(remote.retired, q)
               \/ \E i \in DOMAIN packets : /\ packets[i].kind = "retire" /\ packets[i].map = "inflight"
                                            /\ Contains(packets[i].seqs, q)
    <3>1. CASE Present(remote, q)
      BY <3>1, <2>2 DEF Present, EntriesOf
    <3>2. CASE ~Present(remote, q)
      <4>1. q \in 0 .. local.next - 1
        BY <2>1, EntryNumbers
      <4>2. Gone(remote, q)
        <5>1. q \in 0 .. remote.largest
          BY <4>1, <2>2, <2>5
        <5> QED
          BY <5>1, <3>2 DEF Gone
      <4>3. Listed(remote.retired, q) \/ Carried(packets, "retire", q)
        BY <4>2, <2>1, <2>5 DEF RetireInv
      <4>4. Listed(remote.retired, q) => Contains(remote.retired, q)
        BY <2>2 DEF Listed, Contains
      <4> QED
        BY <4>3, <4>4, <2>3
    <3> QED
      BY <3>1, <3>2
  <2> QED
    BY <2>4, <2>5 DEF NewCidNotForgotten, RetirementNotForgotten
<1> QED
  BY <1>1, <1>2

-------------------------------------------------------------------------------
(* The two sets, the paths and the packets stay in step (IInv), whatever is *)
(* lost, delayed or reordered.                                              *)
THEOREM Inductive == Spec => []IInv
<1>1. Init => IInv
  BY InitInv
<1>2. IInv /\ [Next]_vars => IInv'
  BY NextInv
<1> QED
  BY <1>1, <1>2, PTL DEF Spec

(* Every variable has its type; the queue of retirements never outgrows its *)
(* array (quicly_remote_cid_push_retired).                                  *)
THEOREM TypeCorrect == Spec => []TypeOK
<1>1. IInv => TypeOK
  BY InvImplies
<1> QED
  BY <1>1, Inductive, PTL

(* NEW_CONNECTION_ID frames are sent in the order in which they became      *)
(* necessary: do_mark_pending, do_mark_delivered, quicly_local_cid_on_sent  *)
(* and quicly_local_cid_retire keep the pending entries first and in order. *)
THEOREM NewCidsInOrder == Spec => []NewCidsAreFifo
<1>1. IInv => NewCidsAreFifo
  BY InvImplies
<1> QED
  BY <1>1, Inductive, PTL

(* Neither endpoint closes the connection with an accusation of the other:  *)
(* the issuer hands out no more CIDs than the user expects, and the user    *)
(* retires neither a CID that was not issued nor the last one               *)
(* (handle_new_connection_id_frame, handle_retire_connection_id_frame).     *)
THEOREM NobodyIsAccused == Spec => []NoFalseAccusation
<1>1. IInv => NoFalseAccusation
  BY InvImplies
<1> QED
  BY <1>1, Inductive, PTL

(* The CID of every path is one that the issuer answers to, is in use and   *)
(* belongs to this path alone (setup_path_dcid, do_delete_path,             *)
(* promote_path, dissociate_cid).                                           *)
THEOREM PathsHaveLiveCids == Spec => []PathCidsAreLive
<1>1. IInv => PathCidsAreLive
  BY InvImpliesPaths
<1> QED
  BY <1>1, Inductive, PTL

(* Every CID in use belongs to a path, as paths are opened, given up,       *)
(* replaced and promoted.                                                   *)
THEOREM NoCidIsLeaked == Spec => []NoCidLeak
<1>1. IInv => NoCidLeak
  BY InvImpliesPaths
<1> QED
  BY <1>1, Inductive, PTL

(* A CID the issuer counts as in flight is in a packet whose loss would     *)
(* make it pending again (quicly_local_cid_on_lost).                        *)
THEOREM NewCidsArePursued == Spec => []NewCidNotForgotten
<1>1. IInv => NewCidNotForgotten
  BY InvImpliesFrames
<1> QED
  BY <1>1, Inductive, PTL

(* A retired CID that the issuer still holds is queued or in flight, if the *)
(* queue always fits in one packet.  When it does not,                      *)
(* quicly_remote_cid_shift_retired drops entries (the run                   *)
(* connection_ids_shift).                                                   *)
THEOREM RetirementsArePursued == ~PartialRetire => (Spec => []RetirementNotForgotten)
<1>1. ~PartialRetire /\ IInv => RetirementNotForgotten
  BY InvImpliesFrames
<1>2. ASSUME ~PartialRetire PROVE IInv => RetirementNotForgotten
  BY <1>1, <1>2
<1>3. ASSUME ~PartialRetire PROVE Spec => []RetirementNotForgotten
  BY <1>2, <1>3, Inductive, PTL
<1> QED
  BY <1>3

(* quicly_send finds a CID for the default path when the peer never asks    *)
(* for CIDs to be retired, as quicly does not.  A peer that does can leave  *)
(* it without one (the run connection_ids_rotate).                          *)
THEOREM DefaultPathHasCid == RotateBelow = 0 => (Spec => []DefaultPathFindsCid)
<1>1. RotateBelow = 0 /\ IInv => DefaultPathFindsCid
  BY InvImpliesPaths
<1>2. ASSUME RotateBelow = 0 PROVE IInv => DefaultPathFindsCid
  BY <1>1, <1>2
<1>3. ASSUME RotateBelow = 0 PROVE Spec => []DefaultPathFindsCid
  BY <1>2, <1>3, Inductive, PTL
<1> QED
  BY <1>3
=============================================================================
