-------------------------- MODULE ServerProcessProofs --------------------------
(***************************************************************************)
(* The threads of the server for any number of threads, limits and         *)
(* certificates: the counters of connections are exact and the limits      *)
(* hold, nobody sleeps through the news that there is room or that the     *)
(* last connection is gone, nothing is used before the barriers say that   *)
(* it is ready, and the semaphore bounds the fetches of OCSP responses.    *)
(*                                                                         *)
(* The inductive invariant is a conjunction of parts, each an operator of  *)
(* the fields it is about.                                                 *)
(***************************************************************************)
EXTENDS ServerProcess, TLAPS, FiniteSetTheorems, FunctionTheorems, SequenceTheorems, WellFoundedInduction

Labels == {"setup", "barrier1", "check", "barrier2", "loop", "count", "listen", "unlisten", "poll", "queue", "lastqueue",
           "again", "giveback", "accept", "quic", "token", "quicback", "stop", "shutdown", "last", "lastpoll"}
(* Labels of threads that are not behind the first barrier yet. *)
Starting == {"setup", "barrier1", "check"}
Polls    == {"poll", "lastpoll"}
(* Places that will become connections, or are given back. *)
Holding  == {"accept", "quic", "token", "quicback"}
QuicHeld == {"token", "quicback"}

Conn == [st : {"active", "idle", "shutdown"}, old : BOOLEAN, rested : BOOLEAN, quic : BOOLEAN]
Update == [pc : {"sleep", "fetch", "done"}, fails : Nat, response : BOOLEAN]

Failures == KnownFailures \cup {"receiver is not registered", "QUIC without keys"}

State ==
    [scene : [tcp : Nat, quic : BOOLEAN, idle : BOOLEAN, term : BOOLEAN, ocsp : BOOLEAN], failed : SUBSET Failures,
     pc : [Threads -> Labels], registered : SUBSET Threads, listening : SUBSET Threads, efd : SUBSET Threads,
     barrier : [1 .. 2 -> Int], tickets : BOOLEAN, handler : {"flag", "notify"}, term : BOOLEAN, exited : BOOLEAN,
     num : Int, quic : Int, conns : [Threads -> Seq(Conn)], backlog : Int, arrivals : Int, early : BOOLEAN,
     sem : Int, fetches : Int, ocsp : [Certs -> Update]]

(* The barriers count those that have not reached them, and the handler of  *)
(* SIGTERM notifies only when every thread is registered.                   *)
StartInv(pc, barrier, registered, handler, tickets, quic, failed) ==
    /\ barrier[1] = Cardinality(At(pc, {"setup"}))
    /\ barrier[2] = Cardinality(At(pc, Starting)) + (IF quic /\ ~tickets THEN 1 ELSE 0)
    /\ registered = Threads \ At(pc, {"setup"})
    /\ handler = "flag" <=> pc[1] \in {"setup", "barrier1"}
    /\ handler = "notify" => registered = Threads
    /\ failed \subseteq KnownFailures

(* The counters are exact.  The limits hold even if every thread that has   *)
(* found room makes a connection.                                           *)
CountInv(pc, conns, num, quic) ==
    /\ IsFiniteSet(Served(conns, BOOLEAN)) /\ IsFiniteSet(Served(conns, {TRUE}))
    /\ num = Cardinality(Served(conns, BOOLEAN)) + Cardinality(At(pc, Undecided))
    /\ quic = Cardinality(Served(conns, {TRUE})) + Cardinality(At(pc, QuicHeld))
    /\ Cardinality(Served(conns, BOOLEAN)) + Cardinality(At(pc, Holding)) <= MaxConnections
    /\ Cardinality(Served(conns, {TRUE})) + Cardinality(At(pc, {"token"})) <= MaxQuic

(* Who sleeps without listening, or has decided to, is told when there is   *)
(* room.                                                                    *)
WakeInv(pc, listening, num, efd) ==
    \A t \in Threads : (pc[t] = "unlisten" \/ (pc[t] = "poll" /\ t \notin listening)) /\ num < MaxConnections => t \in efd

(* Who sleeps, or is about to, is told that the server ends, unless the     *)
(* main thread has not looked at the flag yet.                              *)
TermInv(term, exited, pc, efd) ==
    term /\ ~exited => \/ pc[1] \in Starting
                       \/ \A t \in Threads : pc[t] \in {"count", "listen", "unlisten", "poll"} => t \in efd

Fetching(ocsp) == {k \in Certs : ocsp[k].pc = "fetch"}
OcspInv(sem, ocsp) ==
    /\ sem = -1 => Fetching(ocsp) = {}
    /\ sem # -1 => sem \in Nat /\ sem + Cardinality(Fetching(ocsp)) = OcspCapacity
    /\ \A k \in Certs : ocsp[k].pc = "done" => ~ocsp[k].response

(* What holds of a state, also in the middle of a callback. *)
MidInv(c) ==
    /\ c \in State
    /\ StartInv(c.pc, c.barrier, c.registered, c.handler, c.tickets, c.scene.quic, c.failed)
    /\ CountInv(c.pc, c.conns, c.num, c.quic)
    /\ WakeInv(c.pc, c.listening, c.num, c.efd)
    /\ TermInv(c.term, c.exited, c.pc, c.efd)
    /\ OcspInv(c.sem, c.ocsp)

(* Somebody will see that nothing is left to do. *)
EndInv(c) == c.term /\ ~c.exited /\ c.num = 0 => \E t \in Threads : c.pc[t] \notin Polls \/ t \in c.efd

IInv == MidInv(sv) /\ EndInv(sv)

--------------------------------------------------------------------------------
(* Counting threads and connections. *)

LEMMA LeastElement ==
    ASSUME NEW T, T \subseteq Nat, T # {}
    PROVE  \E x \in T : \A y \in T : x <= y
<1>1. PICK x \in T : \A y \in T : ~ (<<y, x>> \in OpToRel(<, Nat))
  BY NatLessThanWellFounded, WFMin
<1>2. ASSUME NEW y \in T PROVE x <= y
  <2>1. ~ (<<y, x>> \in OpToRel(<, Nat)) /\ x \in Nat /\ y \in Nat
    BY <1>1
  <2> QED
    BY <2>1 DEF OpToRel
<1> QED
  BY <1>2

LEMMA AtIsFinite ==
    ASSUME ConstantsOK, NEW pc, NEW A
    PROVE  IsFiniteSet(At(pc, A)) /\ Cardinality(At(pc, A)) \in Nat
<1>1. At(pc, A) \subseteq Threads /\ IsFiniteSet(Threads)
  BY DEF At, ConstantsOK
<1>2. IsFiniteSet(At(pc, A))
  BY <1>1, FS_Subset
<1> QED
  BY <1>2, FS_CardinalityType

LEMMA AtIsMonotone ==
    ASSUME ConstantsOK, NEW pc, NEW A, NEW B, A \subseteq B
    PROVE  Cardinality(At(pc, A)) <= Cardinality(At(pc, B))
<1>1. At(pc, A) \subseteq At(pc, B)
  BY DEF At
<1> QED
  BY <1>1, AtIsFinite, FS_Subset

(* A thread goes from one label to another. *)
In(l, A) == IF l \in A THEN 1 ELSE 0

LEMMA AtMoves ==
    ASSUME ConstantsOK, NEW pc \in [Threads -> Labels], NEW t \in Threads, NEW l \in Labels, NEW A
    PROVE  Cardinality(At([pc EXCEPT ![t] = l], A)) = Cardinality(At(pc, A)) - In(pc[t], A) + In(l, A)
<1> DEFINE qc == [pc EXCEPT ![t] = l]
           X == At(pc, A)
           Y == At(qc, A)
<1>1. IsFiniteSet(X) /\ Cardinality(X) \in Nat
  BY AtIsFinite
<1>2. CASE pc[t] \in A /\ l \in A
  <2>1. Y = X
    BY <1>2 DEF At
  <2> QED
    BY <2>1, <1>1, <1>2 DEF In
<1>3. CASE pc[t] \in A /\ l \notin A
  <2>1. Y = X \ {t} /\ t \in X
    BY <1>3 DEF At
  <2>2. Cardinality(Y) = Cardinality(X) - 1
    BY <2>1, <1>1, FS_RemoveElement
  <2> QED
    BY <2>2, <1>1, <1>3 DEF In
<1>4. CASE pc[t] \notin A /\ l \in A
  <2>1. Y = X \cup {t} /\ t \notin X
    BY <1>4 DEF At
  <2>2. Cardinality(Y) = Cardinality(X) + 1
    BY <2>1, <1>1, FS_AddElement
  <2> QED
    BY <2>2, <1>1, <1>4 DEF In
<1>5. CASE pc[t] \notin A /\ l \notin A
  <2>1. Y = X
    BY <1>5 DEF At
  <2> QED
    BY <2>1, <1>1, <1>5 DEF In
<1> QED
  BY <1>2, <1>3, <1>4, <1>5

IsServed(conns, K, t, i) == t \in Threads /\ i \in DOMAIN conns[t] /\ conns[t][i].quic \in K

LEMMA ServedMember ==
    ASSUME NEW conns, NEW K, NEW x
    PROVE  x \in Served(conns, K) <=> \E t, i : x = <<t, i>> /\ IsServed(conns, K, t, i)
<1>1. ASSUME x \in Served(conns, K)
      PROVE  \E t, i : x = <<t, i>> /\ IsServed(conns, K, t, i)
  <2>1. PICK t \in Threads : x \in {t} \X DOMAIN conns[t]
    BY <1>1 DEF Served
  <2>2. PICK i \in DOMAIN conns[t] : x = <<t, i>>
    BY <2>1
  <2>3. conns[t][i].quic \in K
    BY <1>1, <2>2 DEF Served
  <2> QED
    BY <2>2, <2>3 DEF IsServed
<1>2. ASSUME NEW t \in Threads, NEW i \in DOMAIN conns[t], x = <<t, i>>, conns[t][i].quic \in K
      PROVE  x \in Served(conns, K)
  <2>1. x \in {t} \X DOMAIN conns[t]
    BY <1>2
  <2>2. x \in UNION {{u} \X DOMAIN conns[u] : u \in Threads}
    BY <2>1
  <2> QED
    BY <2>2, <1>2 DEF Served
<1> QED
  BY <1>1, <1>2 DEF IsServed

LEMMA ServedIntro ==
    ASSUME NEW conns, NEW K, NEW t, NEW i, IsServed(conns, K, t, i)
    PROVE  <<t, i>> \in Served(conns, K)
BY ServedMember

LEMMA ServedElim ==
    ASSUME NEW conns, NEW K, NEW t, NEW i, <<t, i>> \in Served(conns, K)
    PROVE  IsServed(conns, K, t, i)
BY ServedMember

(* The kinds of the connections stay the same. *)
SameKinds(conns, after) ==
    \A t \in Threads : DOMAIN after[t] = DOMAIN conns[t] /\ \A i \in DOMAIN conns[t] : after[t][i].quic = conns[t][i].quic

LEMMA ServedSame ==
    ASSUME NEW conns, NEW after, SameKinds(conns, after), NEW K
    PROVE  Served(after, K) = Served(conns, K)
<1>1. ASSUME NEW x PROVE x \in Served(after, K) <=> x \in Served(conns, K)
  <2>1. ASSUME NEW t, NEW i PROVE IsServed(after, K, t, i) <=> IsServed(conns, K, t, i)
    BY DEF SameKinds, IsServed
  <2> QED
    BY <2>1, ServedMember
<1> QED
  BY <1>1

(* A connection is created. *)
Creates(conns, after, t, q) == after = [conns EXCEPT ![t] = Append(@, NewConn(q))]

LEMMA ServedCreate ==
    ASSUME NEW conns \in [Threads -> Seq(Conn)], NEW t \in Threads, NEW q \in BOOLEAN, NEW K,
           IsFiniteSet(Served(conns, K)), NEW after, Creates(conns, after, t, q)
    PROVE  /\ IsFiniteSet(Served(after, K))
           /\ Cardinality(Served(after, K)) = Cardinality(Served(conns, K)) + In(q, K)
<1> DEFINE n == Len(conns[t]) + 1
<1>1. /\ conns[t] \in Seq(Conn) /\ n \in Nat \ {0} /\ DOMAIN conns[t] = 1 .. n - 1
      /\ DOMAIN after[t] = 1 .. n /\ after[t][n].quic = q
      /\ \A i \in 1 .. n - 1 : after[t][i] = conns[t][i]
      /\ \A u \in Threads : u # t => after[u] = conns[u]
  BY DEF NewConn, Creates
<1> HIDE DEF n
<1>2. <<t, n>> \notin Served(conns, K)
  <2>1. n \notin DOMAIN conns[t]
    BY <1>1
  <2>2. ~IsServed(conns, K, t, n)
    BY <2>1 DEF IsServed
  <2> QED
    BY <2>2, ServedElim
<1>3. ASSUME NEW u, NEW i
      PROVE  IsServed(after, K, u, i) <=> IsServed(conns, K, u, i) \/ (u = t /\ i = n /\ q \in K)
  <2>1. CASE u \in Threads /\ u # t
    BY <2>1, <1>1 DEF IsServed
  <2>2. CASE u = t /\ i \in 1 .. n - 1
    <3>1. i \in 1 .. n /\ i # n
      BY <2>2, <1>1
    <3> QED
      BY <3>1, <2>2, <1>1 DEF IsServed
  <2>3. CASE u = t /\ i = n
    <3>1. n \in 1 .. n /\ n \notin 1 .. n - 1
      BY <1>1
    <3> QED
      BY <3>1, <2>3, <1>1 DEF IsServed
  <2>4. CASE u = t /\ i \notin 1 .. n
    <3>1. i \notin 1 .. n - 1 /\ i # n
      BY <2>4, <1>1
    <3> QED
      BY <3>1, <2>4, <1>1 DEF IsServed
  <2>5. CASE u \notin Threads
    BY <2>5 DEF IsServed
  <2>6. i \in 1 .. n => i \in 1 .. n - 1 \/ i = n
    BY <1>1
  <2> QED
    BY <2>1, <2>2, <2>3, <2>4, <2>5, <2>6
<1>4. CASE q \in K
  <2>1. ASSUME NEW x PROVE x \in Served(after, K) <=> x \in Served(conns, K) \/ x = <<t, n>>
    <3>1. ASSUME x \in Served(after, K) PROVE x \in Served(conns, K) \/ x = <<t, n>>
      <4>1. PICK u, i : x = <<u, i>> /\ IsServed(after, K, u, i)
        BY <3>1, ServedMember
      <4>2. IsServed(conns, K, u, i) \/ (u = t /\ i = n)
        <5>1. IsServed(after, K, u, i)
          BY <4>1
        <5>2. IsServed(after, K, u, i) => IsServed(conns, K, u, i) \/ (u = t /\ i = n)
          BY <1>3
        <5> QED
          BY <5>1, <5>2
      <4>3. IsServed(conns, K, u, i) => <<u, i>> \in Served(conns, K)
        BY ServedIntro
      <4> QED
        BY <4>1, <4>2, <4>3
    <3>2. ASSUME x \in Served(conns, K) PROVE x \in Served(after, K)
      <4>1. PICK u, i : x = <<u, i>> /\ IsServed(conns, K, u, i)
        BY <3>2, ServedMember
      <4> QED
        BY <4>1, <1>3, ServedIntro
    <3>3. <<t, n>> \in Served(after, K)
      BY <1>3, <1>4, ServedIntro
    <3> QED
      BY <3>1, <3>2, <3>3
  <2>2. Served(after, K) = Served(conns, K) \cup {<<t, n>>}
    BY <2>1
  <2>3. In(q, K) = 1
    BY <1>4 DEF In
  <2> DEFINE x == <<t, n>>
             X == Served(conns, K)
  <2>4. IsFiniteSet(X) /\ x \notin X
    BY <1>2
  <2> HIDE DEF x, X
  <2>5. IsFiniteSet(X \cup {x}) /\ Cardinality(X \cup {x}) = Cardinality(X) + 1
    BY <2>4, FS_AddElement
  <2> QED
    BY <2>2, <2>3, <2>5 DEF x, X
<1>5. CASE q \notin K
  <2>1. ASSUME NEW x PROVE x \in Served(after, K) <=> x \in Served(conns, K)
    <3>1. ASSUME NEW u, NEW i PROVE IsServed(after, K, u, i) <=> IsServed(conns, K, u, i)
      BY <1>3, <1>5
    <3>2. ASSUME x \in Served(after, K) PROVE x \in Served(conns, K)
      <4>1. PICK u, i : x = <<u, i>> /\ IsServed(after, K, u, i)
        BY <3>2, ServedMember
      <4> QED
        BY <4>1, <3>1, ServedIntro
    <3>3. ASSUME x \in Served(conns, K) PROVE x \in Served(after, K)
      <4>1. PICK u, i : x = <<u, i>> /\ IsServed(conns, K, u, i)
        BY <3>3, ServedMember
      <4> QED
        BY <4>1, <3>1, ServedIntro
    <3> QED
      BY <3>2, <3>3
  <2>2. Served(after, K) = Served(conns, K)
    BY <2>1
  <2>3. In(q, K) = 0 /\ Cardinality(Served(conns, K)) \in Nat
    BY <1>5, FS_CardinalityType DEF In
  <2> QED
    BY <2>2, <2>3
<1> QED
  BY <1>4, <1>5

(* A connection is removed: those after it move up. *)
Removed(s, i) == SubSeq(s, 1, i - 1) \o SubSeq(s, i + 1, Len(s))

LEMMA RemovedElements ==
    ASSUME NEW S, NEW s \in Seq(S), NEW i \in 1 .. Len(s)
    PROVE  /\ Removed(s, i) \in Seq(S) /\ Len(Removed(s, i)) = Len(s) - 1
           /\ \A j \in 1 .. Len(s) - 1 : Removed(s, i)[j] = IF j < i THEN s[j] ELSE s[j + 1]
<1> DEFINE a == SubSeq(s, 1, i - 1)
           b == SubSeq(s, i + 1, Len(s))
<1>1. a \in Seq(S) /\ Len(a) = i - 1 /\ \A j \in 1 .. i - 1 : a[j] = s[j]
  OBVIOUS
<1>2. b \in Seq(S) /\ Len(b) = Len(s) - i /\ \A j \in 1 .. Len(s) - i : b[j] = s[j + i]
  OBVIOUS
<1>3. i \in Nat /\ Len(s) \in Nat /\ i <= Len(s)
  OBVIOUS
<1> HIDE DEF a, b
<1>4. a \o b \in Seq(S) /\ Len(a \o b) = Len(s) - 1
  <2>1. a \o b \in Seq(S) /\ Len(a \o b) = Len(a) + Len(b)
    BY <1>1, <1>2, ConcatProperties
  <2> QED
    BY <2>1, <1>1, <1>2, <1>3
<1>5. ASSUME NEW j \in 1 .. Len(s) - 1 PROVE (a \o b)[j] = IF j < i THEN s[j] ELSE s[j + 1]
  <2>1. CASE j < i
    BY <2>1, <1>1, <1>2, <1>3
  <2>2. CASE ~(j < i)
    <3>1. (a \o b)[j] = b[j - (i - 1)] /\ j - (i - 1) \in 1 .. Len(s) - i
      BY <2>2, <1>1, <1>2, <1>3
    <3>2. b[j - (i - 1)] = s[j - (i - 1) + i] /\ j - (i - 1) + i = j + 1
      BY <3>1, <1>2, <1>3
    <3> QED
      BY <3>1, <3>2, <2>2
  <2> QED
    BY <2>1, <2>2
<1> QED
  BY <1>4, <1>5 DEF a, b, Removed

Removes(conns, after, t, i) == after = [conns EXCEPT ![t] = Removed(@, i)]

LEMMA ServedRemove ==
    ASSUME NEW conns \in [Threads -> Seq(Conn)], NEW t \in Threads, NEW i \in 1 .. Len(conns[t]), NEW K,
           IsFiniteSet(Served(conns, K)), NEW after, Removes(conns, after, t, i)
    PROVE  /\ IsFiniteSet(Served(after, K))
           /\ Cardinality(Served(after, K)) = Cardinality(Served(conns, K)) - In(conns[t][i].quic, K)
<1> DEFINE n == Len(conns[t])
           D(u) == 1 .. Len(conns[u])
           Y == Served(after, K)
           X == Served(conns, K) \ {<<t, i>>}
           up(u, j) == IF u = t /\ j >= i THEN j + 1 ELSE j
           f == [x \in Y |-> <<x[1], up(x[1], x[2])>>]
<1>1. /\ \A u \in Threads : DOMAIN conns[u] = 1 .. Len(conns[u])
      /\ n \in Nat /\ i \in Nat /\ i <= n /\ 1 <= i
      /\ DOMAIN after[t] = 1 .. n - 1
      /\ \A j \in 1 .. n - 1 : after[t][j] = IF j < i THEN conns[t][j] ELSE conns[t][j + 1]
      /\ \A u \in Threads : u # t => after[u] = conns[u]
  <2>1. conns[t] \in Seq(Conn) /\ \A u \in Threads : conns[u] \in Seq(Conn)
    OBVIOUS
  <2>2. after[t] = Removed(conns[t], i) /\ \A u \in Threads : u # t => after[u] = conns[u]
    BY DEF Removes
  <2>3. /\ Removed(conns[t], i) \in Seq(Conn) /\ Len(Removed(conns[t], i)) = n - 1
        /\ \A j \in 1 .. n - 1 : Removed(conns[t], i)[j] = IF j < i THEN conns[t][j] ELSE conns[t][j + 1]
    BY <2>1, RemovedElements
  <2>4. DOMAIN Removed(conns[t], i) = 1 .. n - 1
    BY <2>3
  <2>5. n \in Nat /\ i \in Nat /\ i <= n /\ 1 <= i
    BY <2>1
  <2> QED
    BY <2>1, <2>2, <2>3, <2>4, <2>5
<1> HIDE DEF n
(* Connection j of thread u is the one that was at up(u, j). *)
<1>2. ASSUME NEW u, NEW j, IsServed(after, K, u, j)
      PROVE  IsServed(conns, K, u, up(u, j)) /\ <<u, up(u, j)>> # <<t, i>> /\ j \in Nat
  <2>1. CASE u # t
    <3>1. u \in Threads /\ after[u] = conns[u] /\ j \in DOMAIN conns[u] /\ conns[u][j].quic \in K /\ up(u, j) = j
      BY <2>1, <1>1, <1>2 DEF IsServed
    <3>2. j \in Nat
      BY <3>1, <1>1
    <3> QED
      BY <3>1, <3>2, <2>1 DEF IsServed
  <2>2. CASE u = t /\ j < i
    <3>1. j \in 1 .. n - 1 /\ after[t][j].quic \in K
      BY <2>2, <1>1, <1>2 DEF IsServed
    <3>2. after[t][j] = conns[t][j] /\ j \in 1 .. n /\ up(u, j) = j /\ j # i /\ j \in Nat
      BY <2>2, <3>1, <1>1
    <3> QED
      BY <2>2, <3>1, <3>2, <1>1 DEF IsServed, n
  <2>3. CASE u = t /\ ~(j < i)
    <3>1. j \in 1 .. n - 1 /\ after[t][j].quic \in K
      BY <2>3, <1>1, <1>2 DEF IsServed
    <3>2. after[t][j] = conns[t][j + 1] /\ j + 1 \in 1 .. n /\ up(u, j) = j + 1 /\ j + 1 # i /\ j \in Nat
      BY <2>3, <3>1, <1>1
    <3> QED
      BY <2>3, <3>1, <3>2, <1>1 DEF IsServed, n
  <2> QED
    BY <2>1, <2>2, <2>3
<1>3. ASSUME NEW u, NEW k, IsServed(conns, K, u, k), <<u, k>> # <<t, i>>
      PROVE  \E j : IsServed(after, K, u, j) /\ up(u, j) = k
  <2>1. CASE u # t
    <3>1. IsServed(after, K, u, k) /\ up(u, k) = k
      BY <2>1, <1>1, <1>3 DEF IsServed
    <3> QED
      BY <3>1
  <2>2. CASE u = t
    <3>1. k \in 1 .. n /\ k # i /\ conns[t][k].quic \in K
      BY <2>2, <1>1, <1>3 DEF IsServed, n
    <3>2. CASE k < i
      <4>1. k \in 1 .. n - 1 /\ after[t][k] = conns[t][k] /\ up(u, k) = k
        BY <3>1, <3>2, <1>1
      <4> QED
        BY <4>1, <3>1, <2>2, <1>1 DEF IsServed
    <3>3. CASE ~(k < i)
      <4>1. k - 1 \in 1 .. n - 1 /\ ~(k - 1 < i) /\ k - 1 + 1 = k /\ up(u, k - 1) = k
        BY <3>1, <3>3, <2>2, <1>1
      <4>2. after[t][k - 1] = conns[t][k]
        BY <4>1, <1>1
      <4> QED
        BY <4>1, <4>2, <3>1, <2>2, <1>1 DEF IsServed
    <3> QED
      BY <3>2, <3>3
  <2> QED
    BY <2>1, <2>2
<1>4. f \in Bijection(Y, X)
  <2>1. ASSUME NEW x \in Y PROVE f[x] \in X
    <3>1. PICK u, j : x = <<u, j>> /\ IsServed(after, K, u, j)
      BY <2>1, ServedMember
    <3>2. f[x] = <<u, up(u, j)>>
      BY <3>1
    <3>3. <<u, up(u, j)>> \in Served(conns, K) /\ <<u, up(u, j)>> # <<t, i>>
      BY <3>1, <1>2, ServedIntro
    <3> QED
      BY <3>2, <3>3
  <2>2. ASSUME NEW x \in Y, NEW y \in Y, f[x] = f[y] PROVE x = y
    <3>1. PICK u, j : x = <<u, j>> /\ IsServed(after, K, u, j)
      BY <2>2, ServedMember
    <3>2. PICK v, k : y = <<v, k>> /\ IsServed(after, K, v, k)
      BY <2>2, ServedMember
    <3>3. <<u, up(u, j)>> = <<v, up(v, k)>> /\ j \in Nat /\ k \in Nat
      BY <3>1, <3>2, <2>2, <1>2
    <3>4. u = v /\ up(u, j) = up(v, k)
      BY <3>3
    <3>5. j = k
      BY <3>3, <3>4, <1>1
    <3> QED
      BY <3>1, <3>2, <3>4, <3>5
  <2>3. ASSUME NEW y \in X PROVE \E x \in Y : f[x] = y
    <3>1. PICK u, k : y = <<u, k>> /\ IsServed(conns, K, u, k)
      BY <2>3, ServedMember
    <3>2. PICK j : IsServed(after, K, u, j) /\ up(u, j) = k
      BY <3>1, <2>3, <1>3
    <3>3. <<u, j>> \in Y
      BY <3>2, ServedIntro
    <3>4. f[<<u, j>>] = <<u, up(u, j)>>
      BY <3>3
    <3> QED
      BY <3>1, <3>2, <3>3, <3>4
  <2>4. f \in [Y -> X]
    BY <2>1
  <2> HIDE DEF f, X, Y
  <2> QED
    BY <2>2, <2>3, <2>4 DEF Bijection, Injection, Surjection, IsInjective
<1> HIDE DEF f
<1>5. IsFiniteSet(X) /\ Cardinality(X) = Cardinality(Served(conns, K)) - In(conns[t][i].quic, K)
  <2>1. CASE conns[t][i].quic \in K
    <3>1. <<t, i>> \in Served(conns, K)
      <4>1. IsServed(conns, K, t, i)
        BY <2>1, <1>1 DEF IsServed, n
      <4> QED
        BY <4>1, ServedIntro
    <3> DEFINE x == <<t, i>>
               Z == Served(conns, K)
    <3>2. x \in Z /\ IsFiniteSet(Z)
      BY <3>1
    <3> HIDE DEF x, Z
    <3>3. IsFiniteSet(Z \ {x}) /\ Cardinality(Z \ {x}) = Cardinality(Z) - 1
      BY <3>2, FS_RemoveElement
    <3>4. In(conns[t][i].quic, K) = 1
      BY <2>1 DEF In
    <3> QED
      BY <3>3, <3>4 DEF x, Z
  <2>2. CASE conns[t][i].quic \notin K
    <3>1. ~IsServed(conns, K, t, i)
      BY <2>2 DEF IsServed
    <3>2. X = Served(conns, K)
      BY <3>1, ServedElim
    <3>3. In(conns[t][i].quic, K) = 0 /\ Cardinality(Served(conns, K)) \in Nat
      BY <2>2, FS_CardinalityType DEF In
    <3>4. Cardinality(Served(conns, K)) - 0 = Cardinality(Served(conns, K)) /\ IsFiniteSet(Served(conns, K))
      BY <3>3
    <3> HIDE DEF X
    <3> QED
      BY <3>2, <3>3, <3>4
  <2> QED
    BY <2>1, <2>2
<1>6. ExistsBijection(X, Y)
  <2> HIDE DEF X, Y
  <2>1. ExistsBijection(Y, X)
    BY <1>4 DEF ExistsBijection
  <2> QED
    BY <2>1, Fun_ExistsBijSymmetric
<1> HIDE DEF X
<1>7. IsFiniteSet(Y) /\ Cardinality(Y) = Cardinality(X)
  <2> HIDE DEF Y
  <2> QED
    BY <1>5, <1>6, FS_Bijection
<1> QED
  BY <1>5, <1>7

--------------------------------------------------------------------------------
(* The parts of the invariant, when a thread goes on. *)

LEMMA StartMoves ==
    ASSUME ConstantsOK, NEW pc \in [Threads -> Labels], NEW t \in Threads, NEW l \in Labels,
           pc[t] \notin Starting, l \notin Starting,
           NEW barrier, NEW registered, NEW handler, NEW tickets, NEW quic, NEW failed,
           StartInv(pc, barrier, registered, handler, tickets, quic, failed)
    PROVE  StartInv([pc EXCEPT ![t] = l], barrier, registered, handler, tickets, quic, failed)
<1> DEFINE qc == [pc EXCEPT ![t] = l]
<1>1. At(qc, {"setup"}) = At(pc, {"setup"}) /\ At(qc, Starting) = At(pc, Starting)
  BY DEF At, Starting
<1>2. qc[1] \in {"setup", "barrier1"} <=> pc[1] \in {"setup", "barrier1"}
  BY DEF Starting, ConstantsOK
<1> HIDE DEF qc
<1>3. StartInv(qc, barrier, registered, handler, tickets, quic, failed)
  BY <1>1, <1>2 DEF StartInv
<1> QED
  BY <1>3 DEF qc

(* How many connections of some kinds there are more than before. *)
More(conns, after, K) == Cardinality(Served(after, K)) - Cardinality(Served(conns, K))

(* The label A counts one more, or one less. *)
Enters(pc, t, l, A) == In(l, A) - In(pc[t], A)

LEMMA AtEnters ==
    ASSUME ConstantsOK, NEW pc \in [Threads -> Labels], NEW t \in Threads, NEW l \in Labels, NEW A
    PROVE  Cardinality(At([pc EXCEPT ![t] = l], A)) = Cardinality(At(pc, A)) + Enters(pc, t, l, A)
<1> DEFINE X == Cardinality(At([pc EXCEPT ![t] = l], A))
           Y == Cardinality(At(pc, A))
<1>1. Y \in Nat
  BY AtIsFinite
<1>2. X = Y - In(pc[t], A) + In(l, A)
  BY AtMoves
<1> HIDE DEF X, Y
<1>3. X = Y + Enters(pc, t, l, A)
  BY <1>1, <1>2 DEF Enters, In
<1> QED
  BY <1>3 DEF X, Y

LEMMA CountStep ==
    ASSUME ConstantsOK, NEW pc \in [Threads -> Labels], NEW t \in Threads, NEW l \in Labels,
           NEW conns, NEW after, NEW num, NEW quic, CountInv(pc, conns, num, quic),
           IsFiniteSet(Served(after, BOOLEAN)), IsFiniteSet(Served(after, {TRUE})),
           NEW num2, num2 = num + More(conns, after, BOOLEAN) + Enters(pc, t, l, Undecided),
           NEW quic2, quic2 = quic + More(conns, after, {TRUE}) + Enters(pc, t, l, QuicHeld),
           \/ More(conns, after, BOOLEAN) + Enters(pc, t, l, Holding) <= 0
           \/ More(conns, after, BOOLEAN) + Enters(pc, t, l, Holding) <= 1 /\ num < MaxConnections,
           \/ More(conns, after, {TRUE}) + Enters(pc, t, l, {"token"}) <= 0
           \/ More(conns, after, {TRUE}) + Enters(pc, t, l, {"token"}) <= 1 /\ quic < MaxQuic
    PROVE  CountInv([pc EXCEPT ![t] = l], after, num2, quic2)
<1> DEFINE qc == [pc EXCEPT ![t] = l]
           s == Cardinality(Served(conns, BOOLEAN))
           q == Cardinality(Served(conns, {TRUE}))
           s2 == Cardinality(Served(after, BOOLEAN))
           q2 == Cardinality(Served(after, {TRUE}))
           u == Cardinality(At(pc, Undecided))
           h == Cardinality(At(pc, Holding))
           k == Cardinality(At(pc, QuicHeld))
           n == Cardinality(At(pc, {"token"}))
<1>1. s \in Nat /\ q \in Nat /\ s2 \in Nat /\ q2 \in Nat
  BY FS_CardinalityType DEF CountInv
<1>2. u \in Nat /\ h \in Nat /\ k \in Nat /\ n \in Nat
  BY AtIsFinite
<1>3. h <= u /\ n <= k
  BY AtIsMonotone DEF Undecided, Holding, QuicHeld
<1>4. \A A : In(l, A) \in {0, 1} /\ In(pc[t], A) \in {0, 1}
  BY DEF In
<1>5. /\ Cardinality(At(qc, Undecided)) = u + Enters(pc, t, l, Undecided)
      /\ Cardinality(At(qc, Holding)) = h + Enters(pc, t, l, Holding)
      /\ Cardinality(At(qc, QuicHeld)) = k + Enters(pc, t, l, QuicHeld)
      /\ Cardinality(At(qc, {"token"})) = n + Enters(pc, t, l, {"token"})
  <2>1. Cardinality(At(qc, Undecided)) = u + Enters(pc, t, l, Undecided)
    BY AtEnters
  <2>2. Cardinality(At(qc, Holding)) = h + Enters(pc, t, l, Holding)
    BY AtEnters
  <2>3. Cardinality(At(qc, QuicHeld)) = k + Enters(pc, t, l, QuicHeld)
    BY AtEnters
  <2>4. Cardinality(At(qc, {"token"})) = n + Enters(pc, t, l, {"token"})
    BY AtEnters
  <2> QED
    BY <2>1, <2>2, <2>3, <2>4
<1>6. \A A : Enters(pc, t, l, A) \in Int
  BY <1>4 DEF Enters
<1>7. num = s + u /\ quic = q + k /\ s + h <= MaxConnections /\ q + n <= MaxQuic
  BY DEF CountInv
<1>8. More(conns, after, BOOLEAN) = s2 - s /\ More(conns, after, {TRUE}) = q2 - q
  BY DEF More
<1>9. MaxConnections \in Nat /\ MaxQuic \in Nat
  BY DEF ConstantsOK
<1> HIDE DEF qc, s, q, s2, q2, u, h, k, n
<1>10. num2 = s2 + Cardinality(At(qc, Undecided))
  BY <1>1, <1>2, <1>5, <1>6, <1>7, <1>8
<1>11. quic2 = q2 + Cardinality(At(qc, QuicHeld))
  BY <1>1, <1>2, <1>5, <1>6, <1>7, <1>8
<1>12. s2 + Cardinality(At(qc, Holding)) <= MaxConnections
  BY <1>1, <1>2, <1>3, <1>5, <1>6, <1>7, <1>8, <1>9
<1>13. q2 + Cardinality(At(qc, {"token"})) <= MaxQuic
  BY <1>1, <1>2, <1>3, <1>5, <1>6, <1>7, <1>8, <1>9
<1>14. CountInv(qc, after, num2, quic2)
  BY <1>10, <1>11, <1>12, <1>13 DEF CountInv, s2, q2
<1> QED
  BY <1>14 DEF qc

LEMMA WakeStep ==
    ASSUME NEW pc \in [Threads -> Labels], NEW t \in Threads, NEW l \in Labels,
           NEW listening, NEW num \in Int, NEW efd, WakeInv(pc, listening, num, efd),
           NEW listening2, \A u \in Threads : u # t /\ u \in listening => u \in listening2,
           NEW efd2, \A u \in Threads : u # t /\ u \in efd => u \in efd2,
           NEW num2 \in Int, num < MaxConnections \/ ~(num2 < MaxConnections) \/ efd2 = Threads,
           l = "unlisten" \/ (l = "poll" /\ t \notin listening2) => t \in efd2 \/ ~(num2 < MaxConnections)
    PROVE  WakeInv([pc EXCEPT ![t] = l], listening2, num2, efd2)
BY DEF WakeInv

(* Those who sleep or are about to. *)
Waiting == {"count", "listen", "unlisten", "poll"}

LEMMA TermStep ==
    ASSUME ConstantsOK, NEW pc \in [Threads -> Labels], NEW t \in Threads, NEW l \in Labels,
           NEW term, NEW exited, NEW efd, TermInv(term, exited, pc, efd), pc[t] \notin Starting,
           NEW efd2, \A u \in Threads : u # t /\ u \in efd => u \in efd2,
           l \in Waiting => ~term \/ (pc[t] \in Waiting /\ (t \in efd => t \in efd2))
    PROVE  TermInv(term, exited, [pc EXCEPT ![t] = l], efd2)
<1> DEFINE qc == [pc EXCEPT ![t] = l]
<1> SUFFICES ASSUME term, ~exited
             PROVE  \/ qc[1] \in Starting
                    \/ \A u \in Threads : qc[u] \in Waiting => u \in efd2
  BY DEF TermInv, Waiting
<1>1. CASE pc[1] \in Starting
  BY <1>1 DEF ConstantsOK
<1>2. CASE \A u \in Threads : pc[u] \in Waiting => u \in efd
  BY <1>2
<1> QED
  BY <1>1, <1>2 DEF TermInv, Waiting

--------------------------------------------------------------------------------
(* States.  Frame: the fields that the main loop leaves alone. *)

Frame(c, d) ==
    /\ d.barrier = c.barrier /\ d.registered = c.registered /\ d.handler = c.handler /\ d.tickets = c.tickets
    /\ d.scene = c.scene /\ d.failed = c.failed /\ d.term = c.term /\ d.exited = c.exited
    /\ d.sem = c.sem /\ d.ocsp = c.ocsp

Moves(c, d, t, l) == d.pc = [c.pc EXCEPT ![t] = l]

Counted(c, d, t, l) ==
    /\ IsFiniteSet(Served(d.conns, BOOLEAN)) /\ IsFiniteSet(Served(d.conns, {TRUE}))
    /\ d.num = c.num + More(c.conns, d.conns, BOOLEAN) + Enters(c.pc, t, l, Undecided)
    /\ d.quic = c.quic + More(c.conns, d.conns, {TRUE}) + Enters(c.pc, t, l, QuicHeld)
    /\ \/ More(c.conns, d.conns, BOOLEAN) + Enters(c.pc, t, l, Holding) <= 0
       \/ More(c.conns, d.conns, BOOLEAN) + Enters(c.pc, t, l, Holding) <= 1 /\ c.num < MaxConnections
    /\ \/ More(c.conns, d.conns, {TRUE}) + Enters(c.pc, t, l, {"token"}) <= 0
       \/ More(c.conns, d.conns, {TRUE}) + Enters(c.pc, t, l, {"token"}) <= 1 /\ c.quic < MaxQuic

Woken(c, d, t, l) ==
    /\ \A u \in Threads : u # t => (u \in c.listening => u \in d.listening) /\ (u \in c.efd => u \in d.efd)
    /\ c.num < MaxConnections \/ ~(d.num < MaxConnections) \/ d.efd = Threads
    /\ l = "unlisten" \/ (l = "poll" /\ t \notin d.listening) => t \in d.efd \/ ~(d.num < MaxConnections)
    /\ l \in Waiting => ~c.term \/ (c.pc[t] \in Waiting /\ (t \in c.efd => t \in d.efd))

(* A step of a thread that is past the start. *)
LEMMA ThreadStep ==
    ASSUME ConstantsOK, NEW c, MidInv(c), NEW d \in State, Frame(c, d), NEW t \in Threads, NEW l \in Labels,
           c.pc[t] \notin Starting, l \notin Starting, Moves(c, d, t, l), Counted(c, d, t, l), Woken(c, d, t, l)
    PROVE  MidInv(d)
<1>1. c \in State /\ c.pc \in [Threads -> Labels] /\ c.num \in Int /\ d.num \in Int
  BY DEF MidInv, State
<1>2. StartInv(d.pc, d.barrier, d.registered, d.handler, d.tickets, d.scene.quic, d.failed)
  <2>1. StartInv([c.pc EXCEPT ![t] = l], c.barrier, c.registered, c.handler, c.tickets, c.scene.quic, c.failed)
    BY <1>1, StartMoves DEF MidInv
  <2> QED
    BY <2>1 DEF Frame, Moves
<1>3. CountInv(d.pc, d.conns, d.num, d.quic)
  <2>1. CountInv(c.pc, c.conns, c.num, c.quic)
    BY DEF MidInv
  <2>2. CountInv([c.pc EXCEPT ![t] = l], d.conns, d.num, d.quic)
    BY <1>1, <2>1, CountStep DEF Counted
  <2> QED
    BY <2>2 DEF Moves
<1>4. WakeInv(d.pc, d.listening, d.num, d.efd)
  <2>1. WakeInv([c.pc EXCEPT ![t] = l], d.listening, d.num, d.efd)
    BY <1>1, WakeStep DEF MidInv, Woken
  <2> QED
    BY <2>1 DEF Moves
<1>5. TermInv(d.term, d.exited, d.pc, d.efd)
  <2>1. TermInv(c.term, c.exited, [c.pc EXCEPT ![t] = l], d.efd)
    BY <1>1, TermStep DEF MidInv, Woken
  <2> QED
    BY <2>1 DEF Moves, Frame
<1>6. OcspInv(d.sem, d.ocsp)
  BY DEF MidInv, Frame
<1> QED
  BY <1>2, <1>3, <1>4, <1>5, <1>6 DEF MidInv

(* The thread that has just done something does not sleep. *)
LEMMA AwakeAtTheEnd ==
    ASSUME NEW c \in State, NEW d, NEW t \in Threads, NEW l, Moves(c, d, t, l), l \notin Polls
    PROVE  EndInv(d)
<1>1. d.pc[t] = l
  BY DEF Moves, State
<1> QED
  BY <1>1 DEF EndInv

(* A step that leaves connections and counters alone. *)
LEMMA NothingCounted ==
    ASSUME ConstantsOK, NEW c, MidInv(c), NEW d, NEW t \in Threads, NEW l, SameKinds(c.conns, d.conns),
           d.num = c.num, d.quic = c.quic, l = c.pc[t] \/ (c.pc[t] \notin Undecided /\ l \notin Undecided)
    PROVE  Counted(c, d, t, l)
<1>1. Served(d.conns, BOOLEAN) = Served(c.conns, BOOLEAN) /\ Served(d.conns, {TRUE}) = Served(c.conns, {TRUE})
  BY ServedSame
<1>2. IsFiniteSet(Served(c.conns, BOOLEAN)) /\ IsFiniteSet(Served(c.conns, {TRUE}))
  BY DEF MidInv, CountInv
<1>3. Cardinality(Served(c.conns, BOOLEAN)) \in Nat /\ Cardinality(Served(c.conns, {TRUE})) \in Nat
  BY <1>2, FS_CardinalityType
<1>4. More(c.conns, d.conns, BOOLEAN) = 0 /\ More(c.conns, d.conns, {TRUE}) = 0
  BY <1>1, <1>3 DEF More
<1>5. /\ Enters(c.pc, t, l, Undecided) = 0 /\ Enters(c.pc, t, l, Holding) = 0
      /\ Enters(c.pc, t, l, QuicHeld) = 0 /\ Enters(c.pc, t, l, {"token"}) = 0
  BY DEF Enters, In, Undecided, Holding, QuicHeld
<1>6. c.num \in Int /\ c.quic \in Int
  BY DEF MidInv, State
<1> QED
  BY <1>1, <1>2, <1>4, <1>5, <1>6 DEF Counted

LEMMA KindsStay ==
    ASSUME NEW conns
    PROVE  SameKinds(conns, conns)
BY DEF SameKinds

Rest(c, d) ==
    /\ d.conns = c.conns /\ d.num = c.num /\ d.quic = c.quic
    /\ d.listening = c.listening /\ d.efd = c.efd

LEMMA Going ==
    ASSUME NEW c \in State, NEW t \in Threads, NEW l \in Labels
    PROVE  Goto(c, t, l) \in State /\ Frame(c, Goto(c, t, l)) /\ Moves(c, Goto(c, t, l), t, l) /\ Rest(c, Goto(c, t, l))
BY DEF Goto, State, Frame, Moves, Rest

(* A thread goes to a label at which it does not sleep. *)
LEMMA GoingOn ==
    ASSUME ConstantsOK, NEW c, MidInv(c), NEW t \in Threads, NEW l \in Labels,
           c.pc[t] \notin Starting, l \notin Starting, c.pc[t] \notin Undecided, l \notin Undecided,
           l \notin Waiting \/ (l = "count" /\ ~c.term) \/ (l = "listen" /\ c.pc[t] \in Waiting)
           \/ (l = "unlisten" /\ c.pc[t] \in Waiting /\ ~(c.num < MaxConnections))
    PROVE  MidInv(Goto(c, t, l))
<1> DEFINE d == Goto(c, t, l)
<1>1. c \in State
  BY DEF MidInv
<1>2. d \in State /\ Frame(c, d) /\ Moves(c, d, t, l) /\ Rest(c, d)
  BY <1>1, Going
<1> HIDE DEF d
<1>3. SameKinds(c.conns, d.conns) /\ d.num = c.num /\ d.quic = c.quic
  BY <1>2, KindsStay DEF Rest
<1>4. Counted(c, d, t, l)
  BY <1>3, NothingCounted
<1>5. Woken(c, d, t, l)
  <2>1. c.num \in Int /\ MaxConnections \in Int /\ c.term \in BOOLEAN
    BY <1>1 DEF State, ConstantsOK
  <2> QED
    BY <1>2, <2>1 DEF Woken, Rest, Waiting
<1>6. MidInv(d)
  BY <1>2, <1>4, <1>5, ThreadStep
<1> QED
  BY <1>6 DEF d

LEMMA LoopStep ==
    ASSUME ConstantsOK, IInv, NEW t \in Threads, Loop(t)
    PROVE  IInv'
<1> DEFINE l == IF sv.term THEN "stop" ELSE "count"
<1>1. MidInv(sv) /\ sv \in State /\ sv.pc[t] = "loop" /\ sv' = Goto(sv, t, l)
  BY DEF IInv, MidInv, Loop, Pc
<1>2. l \in Labels /\ l \notin Starting /\ l \notin Undecided /\ l \notin Polls /\ (l \notin Waiting \/ (l = "count" /\ ~sv.term))
  BY DEF Labels, Starting, Undecided, Polls, Waiting
<1>3. sv.pc[t] \notin Starting /\ sv.pc[t] \notin Undecided
  BY <1>1 DEF Starting, Undecided
<1> HIDE DEF l
<1>4. MidInv(sv')
  BY <1>1, <1>2, <1>3, GoingOn
<1>5. EndInv(sv')
  BY <1>1, <1>2, Going, AwakeAtTheEnd
<1> QED
  BY <1>4, <1>5 DEF IInv

LEMMA ReadCountStep ==
    ASSUME ConstantsOK, IInv, NEW t \in Threads, ReadCount(t)
    PROVE  IInv'
<1> DEFINE l == IF sv.num < MaxConnections THEN "listen" ELSE "unlisten"
<1>1. MidInv(sv) /\ sv \in State /\ sv.pc[t] = "count" /\ sv' = Goto(sv, t, l)
  BY DEF IInv, MidInv, ReadCount, Pc
<1>2. /\ l \in Labels /\ l \notin Starting /\ l \notin Undecided /\ l \notin Polls
      /\ l = "listen" \/ (l = "unlisten" /\ ~(sv.num < MaxConnections))
  BY DEF Labels, Starting, Undecided, Polls
<1>3. sv.pc[t] \notin Starting /\ sv.pc[t] \notin Undecided /\ sv.pc[t] \in Waiting
  BY <1>1 DEF Starting, Undecided, Waiting
<1> HIDE DEF l
<1>4. MidInv(sv')
  BY <1>1, <1>2, <1>3, GoingOn
<1>5. EndInv(sv')
  BY <1>1, <1>2, Going, AwakeAtTheEnd
<1> QED
  BY <1>4, <1>5 DEF IInv

LEMMA QueueDoneStep ==
    ASSUME ConstantsOK, IInv, NEW t \in Threads, QueueDone(t)
    PROVE  IInv'
<1> DEFINE l == IF sv.pc[t] = "queue" THEN "loop" ELSE "last"
<1>1. MidInv(sv) /\ sv \in State /\ sv.pc[t] \in {"queue", "lastqueue"} /\ sv' = Goto(sv, t, l)
  BY DEF IInv, MidInv, QueueDone, Pc
<1>2. l \in Labels /\ l \notin Starting /\ l \notin Undecided /\ l \notin Polls /\ l \notin Waiting
  BY DEF Labels, Starting, Undecided, Polls, Waiting
<1>3. sv.pc[t] \notin Starting /\ sv.pc[t] \notin Undecided
  BY <1>1 DEF Starting, Undecided
<1> HIDE DEF l
<1>4. MidInv(sv')
  BY <1>1, <1>2, <1>3, GoingOn
<1>5. EndInv(sv')
  BY <1>1, <1>2, Going, AwakeAtTheEnd
<1> QED
  BY <1>4, <1>5 DEF IInv

(* update_listener_state: who sleeps without listening has seen that there  *)
(* is no room, and is told when there is.                                   *)
LEMMA UpdateListenerStep ==
    ASSUME ConstantsOK, IInv, NEW t \in Threads, UpdateListener(t)
    PROVE  IInv'
<1> DEFINE d == sv'
<1>1. MidInv(sv) /\ sv \in State
  BY DEF IInv, MidInv
<1>2. sv.pc[t] \in {"listen", "unlisten"}
  BY DEF UpdateListener, Pc
<1>3. /\ d \in State /\ Frame(sv, d) /\ Moves(sv, d, t, "poll")
      /\ d.conns = sv.conns /\ d.num = sv.num /\ d.quic = sv.quic /\ d.efd = sv.efd
      /\ \/ sv.pc[t] = "listen" /\ d.listening = sv.listening \cup {t}
         \/ sv.pc[t] = "unlisten" /\ d.listening = sv.listening \ {t}
  <2>1. CASE sv.pc[t] = "listen" /\ sv' = [Goto(sv, t, "poll") EXCEPT !.listening = @ \cup {t}]
    BY <1>1, <2>1 DEF State, Goto, Frame, Moves, Labels
  <2>2. CASE sv.pc[t] = "unlisten" /\ sv' = [Goto(sv, t, "poll") EXCEPT !.listening = @ \ {t}]
    BY <1>1, <2>2 DEF State, Goto, Frame, Moves, Labels
  <2> QED
    BY <2>1, <2>2 DEF UpdateListener, Pc
<1> HIDE DEF d
<1>4. sv.pc[t] \notin Starting /\ sv.pc[t] \notin Undecided /\ sv.pc[t] \in Waiting
  BY <1>2 DEF Starting, Undecided, Waiting
<1>5. "poll" \notin Starting /\ "poll" \notin Undecided /\ "poll" \in Labels /\ "poll" \in Waiting
  BY DEF Starting, Undecided, Labels, Waiting
<1>6. Counted(sv, d, t, "poll")
  BY <1>1, <1>3, <1>4, <1>5, KindsStay, NothingCounted
<1>7. Woken(sv, d, t, "poll")
  <2>1. \A u \in Threads : u # t => (u \in sv.listening => u \in d.listening) /\ (u \in sv.efd => u \in d.efd)
    BY <1>3
  <2>2. t \notin d.listening => t \in d.efd \/ ~(d.num < MaxConnections)
    <3>1. WakeInv(sv.pc, sv.listening, sv.num, sv.efd)
      BY <1>1 DEF MidInv
    <3> QED
      BY <1>3, <3>1 DEF WakeInv
  <2>3. sv.num < MaxConnections \/ ~(d.num < MaxConnections)
    BY <1>3
  <2> QED
    BY <2>1, <2>2, <2>3, <1>3, <1>4 DEF Woken
<1>8. MidInv(d)
  BY <1>1, <1>3, <1>4, <1>5, <1>6, <1>7, ThreadStep
(* It does not fall asleep when the server ends. *)
<1>9. EndInv(d)
  <2> SUFFICES ASSUME d.term, ~d.exited PROVE \E u \in Threads : d.pc[u] \notin Polls \/ u \in d.efd
    BY DEF EndInv
  <2>1. \/ d.pc[1] \in Starting
        \/ \A u \in Threads : d.pc[u] \in Waiting => u \in d.efd
    BY <1>8 DEF MidInv, TermInv, Waiting
  <2>2. d.pc[t] \in Waiting
    BY <1>1, <1>3, <1>5 DEF Moves, State
  <2>3. 1 \in Threads
    BY DEF ConstantsOK
  <2> QED
    BY <2>1, <2>2, <2>3 DEF Starting, Polls
<1> QED
  BY <1>8, <1>9 DEF IInv, d

LEMMA NotifiedStep ==
    ASSUME ConstantsOK, IInv, NEW t \in Threads, Notified(t)
    PROVE  IInv'
<1> DEFINE d == sv'
           l == IF sv.pc[t] = "poll" THEN "queue" ELSE "lastqueue"
<1>1. MidInv(sv) /\ sv \in State /\ sv.pc[t] \in Polls
  BY DEF IInv, MidInv, Notified, Polling, Pc, Polls
<1>2. l \in Labels /\ l \notin Starting /\ l \notin Undecided /\ l \notin Polls /\ l \notin Waiting /\ l # "poll" /\ l # "unlisten"
  BY DEF Labels, Starting, Undecided, Polls, Waiting
<1>3. sv.pc[t] \notin Starting /\ sv.pc[t] \notin Undecided
  BY <1>1 DEF Starting, Undecided, Polls
<1>4. sv' = [Goto(sv, t, l) EXCEPT !.efd = @ \ {t}]
  BY DEF Notified, Pc
<1> HIDE DEF l
<1>5. /\ d \in State /\ Frame(sv, d) /\ Moves(sv, d, t, l) /\ d.efd = sv.efd \ {t}
      /\ d.conns = sv.conns /\ d.num = sv.num /\ d.quic = sv.quic /\ d.listening = sv.listening
  BY <1>1, <1>2, <1>4 DEF State, Goto, Frame, Moves
<1> HIDE DEF d
<1>6. Counted(sv, d, t, l)
  BY <1>1, <1>2, <1>3, <1>5, KindsStay, NothingCounted
<1>7. Woken(sv, d, t, l)
  BY <1>2, <1>5 DEF Woken
<1>8. MidInv(d)
  BY <1>1, <1>2, <1>3, <1>5, <1>6, <1>7, ThreadStep
<1>9. EndInv(d)
  BY <1>1, <1>2, <1>5, AwakeAtTheEnd
<1> QED
  BY <1>8, <1>9 DEF IInv, d

LEMMA SeqIntro ==
    ASSUME NEW S, NEW n \in Nat, NEW s, s \in [1 .. n -> S]
    PROVE  s \in Seq(S)
OBVIOUS

LEMMA StopListeningStep ==
    ASSUME ConstantsOK, IInv, NEW t \in Threads, StopListening(t)
    PROVE  IInv'
<1> DEFINE d == sv'
           l == "shutdown"
<1>1. MidInv(sv) /\ sv \in State /\ sv.pc[t] = "stop"
  BY DEF IInv, MidInv, StopListening, Pc
<1>2. l \in Labels /\ l \notin Starting /\ l \notin Undecided /\ l \notin Polls /\ l \notin Waiting /\ l # "poll" /\ l # "unlisten"
  BY DEF Labels, Starting, Undecided, Polls, Waiting
<1>3. sv.pc[t] \notin Starting /\ sv.pc[t] \notin Undecided
  BY <1>1 DEF Starting, Undecided
<1>4. sv' = [Goto(sv, t, l) EXCEPT !.listening = @ \ {t}]
  BY DEF StopListening
<1> HIDE DEF l
<1>5. /\ d \in State /\ Frame(sv, d) /\ Moves(sv, d, t, l) /\ d.efd = sv.efd
      /\ d.conns = sv.conns /\ d.num = sv.num /\ d.quic = sv.quic /\ d.listening = sv.listening \ {t}
  BY <1>1, <1>2, <1>4 DEF State, Goto, Frame, Moves
<1> HIDE DEF d
<1>6. Counted(sv, d, t, l)
  BY <1>1, <1>2, <1>3, <1>5, KindsStay, NothingCounted
<1>7. Woken(sv, d, t, l)
  BY <1>2, <1>5 DEF Woken
<1>8. MidInv(d)
  BY <1>1, <1>2, <1>3, <1>5, <1>6, <1>7, ThreadStep
<1>9. EndInv(d)
  BY <1>1, <1>2, <1>5, AwakeAtTheEnd
<1> QED
  BY <1>8, <1>9 DEF IInv, d

LEMMA RequestShutdownStep ==
    ASSUME ConstantsOK, IInv, NEW t \in Threads, RequestShutdown(t)
    PROVE  IInv'
<1> DEFINE d == sv'
           l == "last"
           told == [i \in DOMAIN sv.conns[t] |-> [sv.conns[t][i] EXCEPT !.st = "shutdown", !.rested = FALSE]]
<1>1. MidInv(sv) /\ sv \in State /\ sv.pc[t] = "shutdown"
  BY DEF IInv, MidInv, RequestShutdown, Pc
<1>2. l \in Labels /\ l \notin Starting /\ l \notin Undecided /\ l \notin Polls /\ l \notin Waiting /\ l # "poll" /\ l # "unlisten"
  BY DEF Labels, Starting, Undecided, Polls, Waiting
<1>3. sv.pc[t] \notin Starting /\ sv.pc[t] \notin Undecided
  BY <1>1 DEF Starting, Undecided
<1>4. sv.conns \in [Threads -> Seq(Conn)] /\ sv.conns[t] \in Seq(Conn)
  BY <1>1 DEF State
<1>5. told \in Seq(Conn)
  <2>1. \A i \in 1 .. Len(sv.conns[t]) : [sv.conns[t][i] EXCEPT !.st = "shutdown", !.rested = FALSE] \in Conn
    <3> SUFFICES ASSUME NEW i \in 1 .. Len(sv.conns[t])
                 PROVE  [sv.conns[t][i] EXCEPT !.st = "shutdown", !.rested = FALSE] \in Conn
      OBVIOUS
    <3>1. sv.conns[t][i] \in Conn
      BY <1>4
    <3> QED
      BY <3>1 DEF Conn
  <2>2. DOMAIN sv.conns[t] = 1 .. Len(sv.conns[t]) /\ Len(sv.conns[t]) \in Nat
    BY <1>4
  <2>3. told \in [1 .. Len(sv.conns[t]) -> Conn]
    BY <2>1, <2>2
  <2> HIDE DEF told
  <2> QED
    BY <2>2, <2>3, SeqIntro
<1>6. \A i \in DOMAIN sv.conns[t] : told[i].quic = sv.conns[t][i].quic
  <2> SUFFICES ASSUME NEW i \in DOMAIN sv.conns[t] PROVE told[i].quic = sv.conns[t][i].quic
    OBVIOUS
  <2>1. sv.conns[t][i] \in Conn
    BY <1>4
  <2> QED
    BY <2>1 DEF Conn
<1>7. DOMAIN told = DOMAIN sv.conns[t]
  OBVIOUS
<1>8. sv' = [Goto(sv, t, l) EXCEPT !.conns = [sv.conns EXCEPT ![t] = told]]
  <2>1. sv' = [Goto(sv, t, l) EXCEPT !.conns[t] = [i \in DOMAIN @ |-> [@[i] EXCEPT !.st = "shutdown", !.rested = FALSE]]]
    BY DEF RequestShutdown
  <2>2. Goto(sv, t, l).conns = sv.conns
    BY <1>1 DEF Goto, State
  <2> QED
    BY <2>1, <2>2
<1> HIDE DEF l, told
<1>9. /\ d \in State /\ Frame(sv, d) /\ Moves(sv, d, t, l) /\ d.efd = sv.efd
      /\ d.conns = [sv.conns EXCEPT ![t] = told] /\ d.num = sv.num /\ d.quic = sv.quic /\ d.listening = sv.listening
  <2>1. [sv.conns EXCEPT ![t] = told] \in [Threads -> Seq(Conn)]
    BY <1>4, <1>5
  <2> QED
    BY <1>1, <1>2, <1>8, <2>1 DEF State, Goto, Frame, Moves
<1> HIDE DEF d
<1>10. SameKinds(sv.conns, d.conns)
  BY <1>4, <1>6, <1>7, <1>9 DEF SameKinds
<1>11. Counted(sv, d, t, l)
  BY <1>1, <1>2, <1>3, <1>9, <1>10, NothingCounted
<1>12. Woken(sv, d, t, l)
  BY <1>2, <1>9 DEF Woken
<1>13. MidInv(d)
  BY <1>1, <1>2, <1>3, <1>9, <1>11, <1>12, ThreadStep
<1>14. EndInv(d)
  BY <1>1, <1>2, <1>9, AwakeAtTheEnd
<1> QED
  BY <1>13, <1>14 DEF IInv, d

(* The process exits: nothing is said of who is told what. *)
LEMMA Exiting ==
    ASSUME ConstantsOK, MidInv(sv), sv' = [sv EXCEPT !.exited = TRUE]
    PROVE  IInv'
<1> DEFINE d == sv'
<1>1. /\ d \in State /\ d.barrier = sv.barrier /\ d.registered = sv.registered /\ d.handler = sv.handler
      /\ d.tickets = sv.tickets /\ d.scene = sv.scene /\ d.failed = sv.failed /\ d.sem = sv.sem /\ d.ocsp = sv.ocsp
      /\ d.pc = sv.pc /\ d.conns = sv.conns /\ d.num = sv.num /\ d.quic = sv.quic /\ d.listening = sv.listening
      /\ d.efd = sv.efd /\ d.exited
  BY DEF MidInv, State
<1> HIDE DEF d
<1>2. MidInv(d)
  BY <1>1 DEF MidInv, TermInv
<1> QED
  BY <1>1, <1>2 DEF IInv, EndInv, d

(* The loop after SIGTERM sleeps only while there are connections. *)
LEMMA LastLoopStep ==
    ASSUME ConstantsOK, IInv, NEW t \in Threads, LastLoop(t)
    PROVE  IInv'
<1> DEFINE l == "lastpoll"
<1>1. MidInv(sv) /\ sv \in State /\ sv.pc[t] = "last"
  BY DEF IInv, MidInv, LastLoop, Pc
<1>2. CASE sv.num = 0
  <2>1. sv' = [sv EXCEPT !.exited = TRUE]
    BY <1>2 DEF LastLoop
  <2> QED
    BY <2>1, <1>1, Exiting
<1>3. CASE sv.num # 0
  <2>1. sv' = Goto(sv, t, l)
    BY <1>3 DEF LastLoop
  <2>2. l \in Labels /\ l \notin Starting /\ l \notin Undecided /\ l \notin Waiting
    BY DEF Labels, Starting, Undecided, Waiting
  <2>3. sv.pc[t] \notin Starting /\ sv.pc[t] \notin Undecided
    BY <1>1 DEF Starting, Undecided
  <2> HIDE DEF l
  <2>4. MidInv(sv')
    BY <1>1, <2>1, <2>2, <2>3, GoingOn
  <2>5. sv'.num # 0
    BY <1>1, <1>3, <2>1, <2>2, Going DEF Rest
  <2> QED
    BY <2>4, <2>5 DEF IInv, EndInv
<1> QED
  BY <1>2, <1>3

--------------------------------------------------------------------------------
(* The start. *)

LEMMA ReadyStep ==
    ASSUME ConstantsOK, IInv, NEW t \in Threads, Ready(t)
    PROVE  IInv'
<1> DEFINE d == sv'
           l == "barrier1"
           b == [sv.barrier EXCEPT ![1] = @ - 1]
<1>1. MidInv(sv) /\ sv \in State /\ sv.pc[t] = "setup"
  BY DEF IInv, MidInv, Ready, Pc
<1>2. /\ sv.pc \in [Threads -> Labels] /\ sv.barrier \in [1 .. 2 -> Int] /\ sv.num \in Int
      /\ sv.registered \in SUBSET Threads /\ sv.listening \in SUBSET Threads
  BY <1>1 DEF State
<1>3. /\ sv'.pc = [sv.pc EXCEPT ![t] = l] /\ sv'.registered = sv.registered \cup {t}
      /\ sv'.listening = sv.listening \cup {t} /\ sv'.barrier = b
      /\ sv' \in State /\ sv'.handler = sv.handler /\ sv'.tickets = sv.tickets /\ sv'.scene = sv.scene
      /\ sv'.failed = sv.failed /\ sv'.sem = sv.sem /\ sv'.ocsp = sv.ocsp /\ sv'.conns = sv.conns
      /\ sv'.num = sv.num /\ sv'.quic = sv.quic /\ sv'.efd = sv.efd /\ sv'.term = sv.term /\ sv'.exited = sv.exited
  <2>1. sv' = [Goto(sv, t, l) EXCEPT !.registered = @ \cup {t}, !.listening = @ \cup {t}, !.barrier[1] = @ - 1]
    BY DEF Ready
  <2>2. b \in [1 .. 2 -> Int] /\ l \in Labels
    BY <1>2 DEF Labels
  <2> HIDE DEF l
  <2> QED
    BY <1>1, <2>1, <2>2 DEF Goto, State
<1> DEFINE qc == [sv.pc EXCEPT ![t] = l]
<1>4. l \in Labels /\ l \notin Polls
  BY DEF Labels, Polls
<1>5. StartInv(d.pc, d.barrier, d.registered, d.handler, d.tickets, d.scene.quic, d.failed)
  <2>1. StartInv(sv.pc, sv.barrier, sv.registered, sv.handler, sv.tickets, sv.scene.quic, sv.failed)
    BY <1>1 DEF MidInv
  <2>2. Cardinality(At(qc, {"setup"})) = Cardinality(At(sv.pc, {"setup"})) - 1
    <3>1. Enters(sv.pc, t, l, {"setup"}) = -1
      BY <1>1 DEF Enters, In
    <3>2. Cardinality(At(sv.pc, {"setup"})) \in Nat
      BY AtIsFinite
    <3>3. Cardinality(At(qc, {"setup"})) = Cardinality(At(sv.pc, {"setup"})) + Enters(sv.pc, t, l, {"setup"})
      BY <1>2, <1>4, AtEnters
    <3> QED
      BY <3>1, <3>2, <3>3
  <2>3. At(qc, Starting) = At(sv.pc, Starting)
    BY <1>1, <1>2 DEF At, Starting
  <2>4. b[1] = sv.barrier[1] - 1 /\ b[2] = sv.barrier[2]
    BY <1>2
  <2>5. At(qc, {"setup"}) = At(sv.pc, {"setup"}) \ {t}
    BY <1>2 DEF At
  <2>6. qc[1] \in {"setup", "barrier1"} <=> sv.pc[1] \in {"setup", "barrier1"}
    BY <1>1, <1>2 DEF ConstantsOK
  <2>7. t \in Threads
    OBVIOUS
  <2> HIDE DEF qc, b
  <2>8. sv.handler = "notify" => sv.registered \cup {t} = Threads
    BY <2>1 DEF StartInv
  <2>9. sv.registered \cup {t} = Threads \ At(qc, {"setup"})
    BY <2>1, <2>5 DEF StartInv
  <2>10. StartInv(qc, b, sv.registered \cup {t}, sv.handler, sv.tickets, sv.scene.quic, sv.failed)
    BY <2>1, <2>2, <2>3, <2>4, <2>6, <2>8, <2>9 DEF StartInv
  <2> QED
    BY <2>10, <1>3 DEF qc
<1>6. CountInv(d.pc, d.conns, d.num, d.quic)
  <2>1. Counted(sv, d, t, l)
    BY <1>1, <1>3, KindsStay, NothingCounted DEF Undecided
  <2>2. CountInv([sv.pc EXCEPT ![t] = l], d.conns, d.num, d.quic)
    BY <1>1, <1>2, <1>4, <2>1, CountStep DEF Counted, MidInv
  <2> QED
    BY <2>2, <1>3
<1>7. WakeInv(d.pc, d.listening, d.num, d.efd)
  BY <1>1, <1>2, <1>3 DEF MidInv, WakeInv
<1>8. TermInv(d.term, d.exited, d.pc, d.efd)
  BY <1>1, <1>2, <1>3 DEF MidInv, TermInv, Starting, ConstantsOK
<1>9. EndInv(d)
  BY <1>1, <1>3, <1>4, AwakeAtTheEnd DEF Moves
<1>10. MidInv(d)
  BY <1>1, <1>3, <1>5, <1>6, <1>7, <1>8 DEF MidInv
<1> QED
  BY <1>9, <1>10 DEF IInv

LEMMA StartStep ==
    ASSUME ConstantsOK, NEW c, MidInv(c), NEW d \in State, NEW t \in Threads, NEW l \in Labels, Moves(c, d, t, l), Rest(c, d),
           d.sem = c.sem, d.ocsp = c.ocsp, c.pc[t] \notin Undecided, l \notin Undecided, l \notin Waiting,
           StartInv(d.pc, d.barrier, d.registered, d.handler, d.tickets, d.scene.quic, d.failed),
           TermInv(d.term, d.exited, d.pc, d.efd)
    PROVE  MidInv(d)
<1>1. c \in State /\ c.pc \in [Threads -> Labels] /\ c.num \in Int
  BY DEF MidInv, State
<1>2. d.conns = c.conns /\ d.num = c.num /\ d.quic = c.quic /\ d.listening = c.listening /\ d.efd = c.efd
  BY DEF Rest
<1>3. CountInv(d.pc, d.conns, d.num, d.quic)
  <2>1. SameKinds(c.conns, d.conns)
    BY <1>2, KindsStay
  <2>2. Counted(c, d, t, l)
    BY <1>2, <2>1, NothingCounted
  <2>3. CountInv([c.pc EXCEPT ![t] = l], d.conns, d.num, d.quic)
    BY <1>1, <2>2, CountStep DEF Counted, MidInv
  <2> QED
    BY <2>3 DEF Moves
<1>4. WakeInv(d.pc, d.listening, d.num, d.efd)
  <2>1. l # "unlisten" /\ l # "poll"
    BY DEF Waiting
  <2>2. WakeInv(c.pc, c.listening, c.num, c.efd)
    BY DEF MidInv
  <2> QED
    BY <1>1, <1>2, <2>1, <2>2 DEF Moves, WakeInv
<1>5. OcspInv(d.sem, d.ocsp)
  BY DEF MidInv
<1> QED
  BY <1>3, <1>4, <1>5 DEF MidInv

(* A thread other than the main one has passed the first barrier: the       *)
(* second counts one less.                                                  *)
LEMMA SecondBarrier ==
    ASSUME ConstantsOK, NEW c, MidInv(c), NEW d \in State, NEW t \in Threads, c.pc[t] \in {"barrier1", "check"},
           t = 1 => c.pc[t] = "check" /\ ~c.term, d = [Goto(c, t, "barrier2") EXCEPT !.barrier[2] = @ - 1]
    PROVE  MidInv(d) /\ EndInv(d)
<1> DEFINE l == "barrier2"
           b == [c.barrier EXCEPT ![2] = @ - 1]
           qc == [c.pc EXCEPT ![t] = l]
<1>1. /\ c \in State /\ c.pc \in [Threads -> Labels] /\ c.barrier \in [1 .. 2 -> Int] /\ 1 \in Threads
      /\ c.scene.quic \in BOOLEAN /\ c.tickets \in BOOLEAN
  BY DEF MidInv, State, ConstantsOK
<1>2. l \in Labels /\ l \notin Undecided /\ l \notin Waiting /\ l \notin Polls /\ c.pc[t] \notin Undecided
  BY DEF Labels, Undecided, Waiting, Polls
<1>3. /\ Moves(c, d, t, l) /\ Rest(c, d) /\ d.sem = c.sem /\ d.ocsp = c.ocsp /\ d.barrier = b
      /\ d.registered = c.registered /\ d.handler = c.handler /\ d.tickets = c.tickets /\ d.scene = c.scene
      /\ d.failed = c.failed /\ d.term = c.term /\ d.exited = c.exited
  BY <1>1 DEF Goto, State, Moves, Rest
<1>4. StartInv(c.pc, c.barrier, c.registered, c.handler, c.tickets, c.scene.quic, c.failed)
  BY DEF MidInv
<1>5. b[1] = c.barrier[1] /\ b[2] = c.barrier[2] - 1
  BY <1>1
<1>6. At(qc, {"setup"}) = At(c.pc, {"setup"})
  BY <1>1 DEF At
<1>7. Cardinality(At(qc, Starting)) = Cardinality(At(c.pc, Starting)) - 1 /\ Cardinality(At(c.pc, Starting)) \in Nat
  <2>1. Enters(c.pc, t, l, Starting) = -1
    BY DEF Enters, In, Starting
  <2>2. Cardinality(At(c.pc, Starting)) \in Nat
    BY AtIsFinite
  <2>3. Cardinality(At(qc, Starting)) = Cardinality(At(c.pc, Starting)) + Enters(c.pc, t, l, Starting)
    BY <1>1, <1>2, AtEnters
  <2> QED
    BY <2>1, <2>2, <2>3
<1>8. qc[1] \in {"setup", "barrier1"} <=> c.pc[1] \in {"setup", "barrier1"}
  BY <1>1
<1> HIDE DEF b, qc, l
<1>9. StartInv(qc, b, c.registered, c.handler, c.tickets, c.scene.quic, c.failed)
  <2>1. b[2] = Cardinality(At(qc, Starting)) + (IF c.scene.quic /\ ~c.tickets THEN 1 ELSE 0)
    BY <1>4, <1>5, <1>7 DEF StartInv
  <2> QED
    BY <1>4, <1>5, <1>6, <1>8, <2>1 DEF StartInv
<1>10. StartInv(d.pc, d.barrier, d.registered, d.handler, d.tickets, d.scene.quic, d.failed)
  BY <1>3, <1>9 DEF Moves, qc
<1>11. TermInv(d.term, d.exited, d.pc, d.efd)
  <2>1. TermInv(c.term, c.exited, c.pc, c.efd)
    BY DEF MidInv
  <2>2. d.pc = [c.pc EXCEPT ![t] = l] /\ d.efd = c.efd
    BY <1>3 DEF Moves, Rest
  <2> QED
    BY <1>1, <1>2, <1>3, <2>1, <2>2 DEF TermInv, Waiting
<1>12. MidInv(d)
  BY <1>2, <1>3, <1>10, <1>11, StartStep
<1> QED
  BY <1>1, <1>2, <1>3, <1>12, AwakeAtTheEnd

LEMMA SecondBarrierType ==
    ASSUME NEW c \in State, NEW t \in Threads
    PROVE  [Goto(c, t, "barrier2") EXCEPT !.barrier[2] = @ - 1] \in State
<1>1. "barrier2" \in Labels
  BY DEF Labels
<1>2. c.barrier \in [1 .. 2 -> Int] /\ [c.barrier EXCEPT ![2] = @ - 1] \in [1 .. 2 -> Int]
  BY DEF State
<1> QED
  BY <1>1, <1>2 DEF Goto, State

(* The first barrier: the main thread sets the handler when all threads are *)
(* registered.                                                              *)
LEMMA PassFirstStep ==
    ASSUME ConstantsOK, IInv, NEW t \in Threads, PassFirst(t)
    PROVE  IInv'
<1>1. MidInv(sv) /\ sv \in State /\ sv.pc[t] = "barrier1" /\ sv.barrier[1] = 0
  BY DEF IInv, MidInv, PassFirst, Pc
<1>2. CASE t # 1
  <2>1. sv' = [Goto(sv, t, "barrier2") EXCEPT !.barrier[2] = @ - 1]
    BY <1>2 DEF PassFirst
  <2>2. sv' \in State
    BY <1>1, <2>1, SecondBarrierType
  <2>3. MidInv(sv') /\ EndInv(sv')
    BY <1>1, <1>2, <2>1, <2>2, SecondBarrier
  <2> QED
    BY <2>3 DEF IInv
<1>3. CASE t = 1
  <2> DEFINE d == sv'
             l == "check"
             qc == [sv.pc EXCEPT ![t] = l]
  <2>1. d = [Goto(sv, t, l) EXCEPT !.handler = "notify"]
    BY <1>3 DEF PassFirst
  <2>2. l \in Labels /\ l \notin Undecided /\ l \notin Waiting /\ l \notin Polls /\ sv.pc[t] \notin Undecided
    BY <1>1 DEF Labels, Undecided, Waiting, Polls
  <2>3. /\ d \in State /\ Moves(sv, d, t, l) /\ Rest(sv, d) /\ d.sem = sv.sem /\ d.ocsp = sv.ocsp /\ d.barrier = sv.barrier
        /\ d.registered = sv.registered /\ d.handler = "notify" /\ d.tickets = sv.tickets /\ d.scene = sv.scene
        /\ d.failed = sv.failed /\ d.term = sv.term /\ d.exited = sv.exited
    BY <1>1, <2>1, <2>2 DEF Goto, State, Moves, Rest
  <2>4. StartInv(sv.pc, sv.barrier, sv.registered, sv.handler, sv.tickets, sv.scene.quic, sv.failed)
    BY <1>1 DEF MidInv
  <2>5. sv.pc \in [Threads -> Labels]
    BY <1>1 DEF State
  <2>6. At(qc, {"setup"}) = At(sv.pc, {"setup"}) /\ At(qc, Starting) = At(sv.pc, Starting)
    BY <1>1, <2>5 DEF At, Starting
  <2>7. At(sv.pc, {"setup"}) = {}
    <3>1. Cardinality(At(sv.pc, {"setup"})) = 0 /\ IsFiniteSet(At(sv.pc, {"setup"}))
      BY <1>1, <2>4, AtIsFinite DEF StartInv
    <3> QED
      BY <3>1, FS_EmptySet
  <2>8. qc[1] = "check"
    BY <1>3, <2>5
  <2> HIDE DEF d, l, qc
  <2>9. sv.registered = Threads
    BY <2>4, <2>7 DEF StartInv
  <2>10. StartInv(qc, sv.barrier, sv.registered, "notify", sv.tickets, sv.scene.quic, sv.failed)
    BY <2>4, <2>6, <2>8, <2>9 DEF StartInv
  <2>11. StartInv(d.pc, d.barrier, d.registered, d.handler, d.tickets, d.scene.quic, d.failed)
    BY <2>3, <2>10 DEF Moves, qc
  <2>12. d.pc[1] = "check"
    BY <2>3, <2>8 DEF Moves, qc
  <2>13. TermInv(d.term, d.exited, d.pc, d.efd)
    BY <2>12 DEF TermInv, Starting
  <2>14. MidInv(d)
    BY <1>1, <2>2, <2>3, <2>11, <2>13, StartStep
  <2>15. EndInv(d)
    BY <1>1, <2>2, <2>3, AwakeAtTheEnd
  <2> QED
    BY <2>14, <2>15 DEF IInv, d
<1> QED
  BY <1>2, <1>3

LEMMA CheckEarlyTermStep ==
    ASSUME ConstantsOK, IInv, CheckEarlyTerm
    PROVE  IInv'
<1>1. MidInv(sv) /\ sv \in State /\ sv.pc[1] = "check" /\ 1 \in Threads
  BY DEF IInv, MidInv, CheckEarlyTerm, Pc, ConstantsOK
<1>2. CASE sv.term
  BY <1>1, <1>2, Exiting DEF CheckEarlyTerm
<1>3. CASE ~sv.term
  <2>1. sv' = [Goto(sv, 1, "barrier2") EXCEPT !.barrier[2] = @ - 1]
    BY <1>3 DEF CheckEarlyTerm
  <2>2. sv' \in State
    BY <1>1, <2>1, SecondBarrierType
  <2>3. MidInv(sv') /\ EndInv(sv')
    BY <1>1, <1>3, <2>1, <2>2, SecondBarrier
  <2> QED
    BY <2>3 DEF IInv
<1> QED
  BY <1>2, <1>3

LEMMA TicketsReadyStep ==
    ASSUME ConstantsOK, IInv, TicketsReady
    PROVE  IInv'
<1> DEFINE d == sv'
           b == [sv.barrier EXCEPT ![2] = @ - 1]
<1>1. MidInv(sv) /\ EndInv(sv) /\ sv \in State /\ sv.scene.quic /\ ~sv.tickets
  BY DEF IInv, MidInv, TicketsReady
<1>2. sv.barrier \in [1 .. 2 -> Int] /\ b \in [1 .. 2 -> Int]
  BY <1>1 DEF State
<1>3. /\ d \in State /\ Rest(sv, d) /\ d.sem = sv.sem /\ d.ocsp = sv.ocsp /\ d.barrier = b /\ d.pc = sv.pc
      /\ d.registered = sv.registered /\ d.handler = sv.handler /\ d.tickets /\ d.scene = sv.scene
      /\ d.failed = sv.failed /\ d.term = sv.term /\ d.exited = sv.exited
  <2>1. sv' = [sv EXCEPT !.tickets = TRUE, !.barrier[2] = @ - 1]
    BY DEF TicketsReady
  <2> QED
    BY <1>1, <1>2, <2>1 DEF State, Rest
<1>4. StartInv(sv.pc, sv.barrier, sv.registered, sv.handler, sv.tickets, sv.scene.quic, sv.failed)
  BY <1>1 DEF MidInv
<1>5. b[1] = sv.barrier[1] /\ b[2] = sv.barrier[2] - 1
  BY <1>2
<1>6. Cardinality(At(sv.pc, Starting)) \in Nat
  BY AtIsFinite
<1> HIDE DEF d, b
<1>7. StartInv(d.pc, d.barrier, d.registered, d.handler, d.tickets, d.scene.quic, d.failed)
  BY <1>1, <1>3, <1>4, <1>5, <1>6 DEF StartInv
<1>8. MidInv(d)
  BY <1>1, <1>3, <1>7 DEF MidInv, Rest
<1>9. EndInv(d)
  BY <1>1, <1>3 DEF EndInv, Rest
<1> QED
  BY <1>8, <1>9 DEF IInv, d

(* The second barrier opens when the keys are there. *)
LEMMA PassSecondStep ==
    ASSUME ConstantsOK, IInv, NEW t \in Threads, PassSecond(t)
    PROVE  IInv'
<1> DEFINE l == "loop"
<1>1. MidInv(sv) /\ sv \in State /\ sv.pc[t] = "barrier2" /\ sv.barrier[2] = 0
  BY DEF IInv, MidInv, PassSecond, Pc
<1>2. ~sv.scene.quic \/ sv.tickets
  <2>1. StartInv(sv.pc, sv.barrier, sv.registered, sv.handler, sv.tickets, sv.scene.quic, sv.failed)
    BY <1>1 DEF MidInv
  <2>2. Cardinality(At(sv.pc, Starting)) \in Nat
    BY AtIsFinite
  <2> QED
    BY <1>1, <2>1, <2>2 DEF StartInv
<1>3. sv' = Goto(sv, t, l)
  BY <1>2 DEF PassSecond, Asserted
<1>4. l \in Labels /\ l \notin Starting /\ l \notin Undecided /\ l \notin Polls /\ l \notin Waiting
  BY DEF Labels, Starting, Undecided, Polls, Waiting
<1>5. sv.pc[t] \notin Starting /\ sv.pc[t] \notin Undecided
  BY <1>1 DEF Starting, Undecided
<1> HIDE DEF l
<1>6. MidInv(sv')
  BY <1>1, <1>3, <1>4, <1>5, GoingOn
<1>7. EndInv(sv')
  BY <1>1, <1>3, <1>4, Going, AwakeAtTheEnd
<1> QED
  BY <1>6, <1>7 DEF IInv

--------------------------------------------------------------------------------
(* Places are taken and given back. *)

(* num_connections(-1), with the notification when there is room again. *)
Left(c, d) ==
    /\ Frame(c, d) /\ d.pc = c.pc /\ d.conns = c.conns /\ d.num = c.num - 1 /\ d.listening = c.listening
    /\ d.efd = IF c.num = MaxConnections THEN Threads ELSE c.efd

LEMMA Leaving ==
    ASSUME NEW c \in State
    PROVE  LeaveOne(c) \in State /\ Left(c, LeaveOne(c)) /\ LeaveOne(c).quic = c.quic
<1>1. c.num \in Int /\ c.num - 1 \in Int
  BY DEF State
<1>2. CASE c.num = MaxConnections
  BY <1>1, <1>2 DEF LeaveOne, Freed, NotifyAll, State, Left, Frame
<1>3. CASE c.num # MaxConnections
  BY <1>1, <1>3 DEF LeaveOne, Freed, NotifyAll, State, Left, Frame
<1> QED
  BY <1>2, <1>3

LEMMA LeavingQuic ==
    ASSUME NEW c \in State
    PROVE  LeaveQuic(c) \in State /\ Left(c, LeaveQuic(c)) /\ LeaveQuic(c).quic = c.quic - 1
<1> DEFINE d == LeaveOne(c)
<1>1. d \in State /\ Left(c, d) /\ d.quic = c.quic
  BY Leaving
<1>2. LeaveQuic(c) = [d EXCEPT !.quic = @ - 1]
  BY DEF LeaveQuic
<1> HIDE DEF d
<1>3. d.quic \in Int /\ d.quic - 1 \in Int
  BY <1>1 DEF State
<1>4. LeaveQuic(c) \in State
  BY <1>1, <1>2, <1>3 DEF State
<1>5. /\ Frame(d, LeaveQuic(c)) /\ LeaveQuic(c).pc = d.pc /\ LeaveQuic(c).conns = d.conns /\ LeaveQuic(c).num = d.num
      /\ LeaveQuic(c).listening = d.listening /\ LeaveQuic(c).efd = d.efd /\ LeaveQuic(c).quic = d.quic - 1
  BY <1>1, <1>2 DEF State, Frame
<1> QED
  BY <1>1, <1>4, <1>5 DEF Left, Frame

(* Who gives back a place wakes the others if there was none. *)
LEMMA LeftAndGone ==
    ASSUME ConstantsOK, NEW c \in State, NEW e \in State, Left(c, e), NEW t \in Threads, NEW l \in Labels, l \notin Waiting,
           NEW d, d = Goto(e, t, l)
    PROVE  /\ d \in State /\ Frame(c, d) /\ Moves(c, d, t, l) /\ Woken(c, d, t, l)
           /\ d.conns = c.conns /\ d.num = c.num - 1 /\ d.quic = e.quic
<1>1. Frame(e, d) /\ Moves(e, d, t, l) /\ Rest(e, d) /\ d \in State
  BY Going
<1>2. d.conns = c.conns /\ d.num = c.num - 1 /\ d.quic = e.quic /\ d.listening = c.listening
  BY <1>1 DEF Rest, Left
<1>3. d.efd = IF c.num = MaxConnections THEN Threads ELSE c.efd
  BY <1>1 DEF Rest, Left
<1>4. c.num \in Int /\ MaxConnections \in Int
  BY DEF State, ConstantsOK
<1>5. c.num < MaxConnections \/ ~(d.num < MaxConnections) \/ d.efd = Threads
  BY <1>2, <1>3, <1>4
<1>6. l # "unlisten" /\ l # "poll"
  BY DEF Waiting
<1>7. \A u \in Threads : (u \in c.listening => u \in d.listening) /\ (u \in c.efd => u \in d.efd)
  BY <1>2, <1>3
<1>8. Woken(c, d, t, l)
  BY <1>5, <1>6, <1>7 DEF Woken
<1>9. Frame(c, d) /\ Moves(c, d, t, l)
  BY <1>1 DEF Frame, Left, Moves
<1> QED
  BY <1>1, <1>2, <1>8, <1>9

(* Nothing was served before or is served after that was not. *)
LEMMA NoMore ==
    ASSUME NEW c, MidInv(c), NEW d, d.conns = c.conns
    PROVE  /\ IsFiniteSet(Served(d.conns, BOOLEAN)) /\ IsFiniteSet(Served(d.conns, {TRUE}))
           /\ More(c.conns, d.conns, BOOLEAN) = 0 /\ More(c.conns, d.conns, {TRUE}) = 0
<1>1. IsFiniteSet(Served(c.conns, BOOLEAN)) /\ IsFiniteSet(Served(c.conns, {TRUE}))
  BY DEF MidInv, CountInv
<1>2. Cardinality(Served(c.conns, BOOLEAN)) \in Nat /\ Cardinality(Served(c.conns, {TRUE})) \in Nat
  BY <1>1, FS_CardinalityType
<1> QED
  BY <1>1, <1>2 DEF More

LEMMA PlaceGivenBack ==
    ASSUME ConstantsOK, NEW c, MidInv(c), NEW t \in Threads, NEW d,
           \/ c.pc[t] \in {"accept", "giveback"} /\ d = Goto(LeaveOne(c), t, "loop")
           \/ c.pc[t] \in QuicHeld /\ d = Goto(LeaveQuic(c), t, "loop")
    PROVE  MidInv(d) /\ EndInv(d)
<1> DEFINE l == "loop"
<1>1. c \in State /\ c.num \in Int /\ c.quic \in Int
  BY DEF MidInv, State
<1>2. l \in Labels /\ l \notin Starting /\ l \notin Undecided /\ l \notin Polls /\ l \notin Waiting
  BY DEF Labels, Starting, Undecided, Polls, Waiting
<1>3. c.pc[t] \notin Starting
  BY DEF Starting, QuicHeld
<1>4. CASE c.pc[t] \in {"accept", "giveback"} /\ d = Goto(LeaveOne(c), t, l)
  <2> HIDE DEF l
  <2>1. /\ d \in State /\ Frame(c, d) /\ Moves(c, d, t, l) /\ Woken(c, d, t, l)
        /\ d.conns = c.conns /\ d.num = c.num - 1 /\ d.quic = c.quic
    BY <1>1, <1>2, <1>4, Leaving, LeftAndGone
  <2>2. /\ Enters(c.pc, t, l, Undecided) = -1 /\ Enters(c.pc, t, l, Holding) \in {-1, 0}
        /\ Enters(c.pc, t, l, QuicHeld) = 0 /\ Enters(c.pc, t, l, {"token"}) = 0
    BY <1>4 DEF Enters, In, Undecided, Holding, QuicHeld, l
  <2>3. Counted(c, d, t, l)
    BY <1>1, <2>1, <2>2, NoMore DEF Counted
  <2>4. MidInv(d)
    BY <1>2, <1>3, <2>1, <2>3, ThreadStep
  <2> QED
    BY <1>1, <1>2, <2>1, <2>4, AwakeAtTheEnd
<1>5. CASE c.pc[t] \in QuicHeld /\ d = Goto(LeaveQuic(c), t, l)
  <2> HIDE DEF l
  <2>1. /\ d \in State /\ Frame(c, d) /\ Moves(c, d, t, l) /\ Woken(c, d, t, l)
        /\ d.conns = c.conns /\ d.num = c.num - 1 /\ d.quic = c.quic - 1
    BY <1>1, <1>2, <1>5, LeavingQuic, LeftAndGone
  <2>2. /\ Enters(c.pc, t, l, Undecided) = -1 /\ Enters(c.pc, t, l, Holding) = -1
        /\ Enters(c.pc, t, l, QuicHeld) = -1 /\ Enters(c.pc, t, l, {"token"}) \in {-1, 0}
    BY <1>5 DEF Enters, In, Undecided, Holding, QuicHeld, l
  <2>3. Counted(c, d, t, l)
    BY <1>1, <2>1, <2>2, NoMore DEF Counted
  <2>4. MidInv(d)
    BY <1>2, <1>3, <2>1, <2>3, ThreadStep
  <2> QED
    BY <1>1, <1>2, <2>1, <2>4, AwakeAtTheEnd
<1> QED
  BY <1>4, <1>5

LEMMA GiveBackStep ==
    ASSUME ConstantsOK, IInv, NEW t \in Threads, GiveBack(t)
    PROVE  IInv'
<1>1. MidInv(sv) /\ sv.pc[t] = "giveback" /\ sv' = Goto(LeaveOne(sv), t, "loop")
  BY DEF IInv, GiveBack, Pc
<1>2. MidInv(sv') /\ EndInv(sv')
  BY <1>1, PlaceGivenBack
<1> QED
  BY <1>2 DEF IInv

LEMMA QuicBackStep ==
    ASSUME ConstantsOK, IInv, NEW t \in Threads, QuicBack(t)
    PROVE  IInv'
<1>1. MidInv(sv) /\ sv.pc[t] \in QuicHeld /\ sv' = Goto(LeaveQuic(sv), t, "loop")
  BY DEF IInv, QuicBack, Pc, QuicHeld
<1>2. MidInv(sv') /\ EndInv(sv')
  BY <1>1, PlaceGivenBack
<1> QED
  BY <1>2 DEF IInv

(* A place that was taken becomes a connection. *)
LEMMA Creation ==
    ASSUME ConstantsOK, NEW c, MidInv(c), NEW t \in Threads, NEW q \in BOOLEAN, NEW l \in {"loop", "again"},
           c.pc[t] = IF q THEN "token" ELSE "accept",
           NEW d \in State, Frame(c, d), Moves(c, d, t, l), d.num = c.num, d.quic = c.quic,
           Creates(c.conns, d.conns, t, q), d.listening = c.listening, d.efd = c.efd
    PROVE  MidInv(d) /\ EndInv(d)
<1>1. c \in State /\ c.num \in Int /\ c.quic \in Int /\ c.conns \in [Threads -> Seq(Conn)]
  BY DEF MidInv, State
<1>2. l \in Labels /\ l \notin Starting /\ l \notin Undecided /\ l \notin Polls /\ l \notin Waiting
  BY DEF Labels, Starting, Undecided, Polls, Waiting
<1>3. c.pc[t] \notin Starting
  BY DEF Starting
<1>4. IsFiniteSet(Served(c.conns, BOOLEAN)) /\ IsFiniteSet(Served(c.conns, {TRUE}))
  BY DEF MidInv, CountInv
<1>5. Cardinality(Served(c.conns, BOOLEAN)) \in Nat /\ Cardinality(Served(c.conns, {TRUE})) \in Nat
  BY <1>4, FS_CardinalityType
<1>6. IsFiniteSet(Served(d.conns, BOOLEAN))
      /\ Cardinality(Served(d.conns, BOOLEAN)) = Cardinality(Served(c.conns, BOOLEAN)) + In(q, BOOLEAN)
  BY <1>1, <1>4, ServedCreate
<1>7. IsFiniteSet(Served(d.conns, {TRUE}))
      /\ Cardinality(Served(d.conns, {TRUE})) = Cardinality(Served(c.conns, {TRUE})) + In(q, {TRUE})
  BY <1>1, <1>4, ServedCreate
<1>8. In(q, BOOLEAN) = 1 /\ In(q, {TRUE}) = IF q THEN 1 ELSE 0
  BY DEF In
<1>9. More(c.conns, d.conns, BOOLEAN) = 1 /\ More(c.conns, d.conns, {TRUE}) = IF q THEN 1 ELSE 0
  BY <1>5, <1>6, <1>7, <1>8 DEF More
<1>10. /\ Enters(c.pc, t, l, Undecided) = -1 /\ Enters(c.pc, t, l, Holding) = -1
       /\ Enters(c.pc, t, l, QuicHeld) = IF q THEN -1 ELSE 0
       /\ Enters(c.pc, t, l, {"token"}) = IF q THEN -1 ELSE 0
  BY DEF Enters, In, Undecided, Holding, QuicHeld
<1>11. Counted(c, d, t, l)
  BY <1>1, <1>6, <1>7, <1>9, <1>10 DEF Counted
<1>12. Woken(c, d, t, l)
  <2>1. l # "unlisten" /\ l # "poll"
    OBVIOUS
  <2> QED
    BY <1>2, <2>1 DEF Woken
<1>13. MidInv(d)
  BY <1>2, <1>3, <1>11, <1>12, ThreadStep
<1> QED
  BY <1>1, <1>2, <1>13, AwakeAtTheEnd

IsCreation(c, d, t, q, l) ==
    /\ d \in State /\ Frame(c, d) /\ Moves(c, d, t, l) /\ d.num = c.num /\ d.quic = c.quic
    /\ Creates(c.conns, d.conns, t, q) /\ d.listening = c.listening /\ d.efd = c.efd

LEMMA Created ==
    ASSUME NEW c \in State, NEW t \in Threads, NEW q \in BOOLEAN, NEW l \in Labels
    PROVE  IsCreation(c, Goto(CreateConnection(c, t, q), t, l), t, q, l)
<1> DEFINE d == Goto(CreateConnection(c, t, q), t, l)
<1> DEFINE after == [c.conns EXCEPT ![t] = Append(@, NewConn(q))]
           e == CreateConnection(c, t, q)
<1>1. c.conns \in [Threads -> Seq(Conn)] /\ c.conns[t] \in Seq(Conn)
  BY DEF State
<1>2. NewConn(q) \in Conn
  BY DEF NewConn, Conn
<1>3. Append(c.conns[t], NewConn(q)) \in Seq(Conn)
  BY <1>1, <1>2
<1>4. after \in [Threads -> Seq(Conn)]
  BY <1>1, <1>3
<1>5. e \in State /\ Frame(c, e) /\ e.pc = c.pc /\ e.num = c.num /\ e.quic = c.quic /\ e.conns = after
      /\ e.listening = c.listening /\ e.efd = c.efd
  BY <1>4 DEF CreateConnection, State, Frame
<1> HIDE DEF e, after
<1>6. Frame(e, d) /\ Moves(e, d, t, l) /\ Rest(e, d) /\ d \in State
  BY <1>5, Going DEF e
<1> HIDE DEF d
<1>7. IsCreation(c, d, t, q, l)
  BY <1>5, <1>6 DEF Frame, Moves, Rest, after, Creates, IsCreation
<1> QED
  BY <1>7 DEF d

LEMMA AcceptAnyStep ==
    ASSUME ConstantsOK, IInv, NEW t \in Threads, AcceptAny(t)
    PROVE  IInv'
<1>1. MidInv(sv) /\ sv \in State /\ sv.pc[t] = "accept"
  BY DEF IInv, MidInv, AcceptAny, Pc
<1>2. CASE sv.backlog = 0
  <2>1. sv' = Goto(LeaveOne(sv), t, "loop")
    BY <1>2 DEF AcceptAny
  <2>2. MidInv(sv') /\ EndInv(sv')
    BY <1>1, <2>1, PlaceGivenBack
  <2> QED
    BY <2>2 DEF IInv
<1>3. CASE sv.backlog # 0
  <2> DEFINE c == [sv EXCEPT !.backlog = @ - 1]
  <2>1. sv' = Goto(CreateConnection(c, t, FALSE), t, "again")
    BY <1>3 DEF AcceptAny
  <2>2. c \in State /\ Frame(sv, c) /\ c.pc = sv.pc /\ Rest(sv, c)
    <3>1. sv.backlog \in Int /\ sv.backlog - 1 \in Int
      BY <1>1 DEF State
    <3> QED
      BY <1>1, <3>1 DEF State, Frame, Rest
  <2> HIDE DEF c
  <2>3. "again" \in Labels
    BY DEF Labels
  <2>4. IsCreation(c, sv', t, FALSE, "again")
    BY <2>1, <2>2, <2>3, Created
  <2>5. /\ Frame(sv, sv') /\ Moves(sv, sv', t, "again") /\ sv'.num = sv.num /\ sv'.quic = sv.quic
        /\ Creates(sv.conns, sv'.conns, t, FALSE) /\ sv'.listening = sv.listening /\ sv'.efd = sv.efd
    BY <2>2, <2>4 DEF Frame, Moves, Rest, IsCreation
  <2>6. MidInv(sv') /\ EndInv(sv')
    BY <1>1, <2>4, <2>5, Creation DEF IsCreation
  <2> QED
    BY <2>6 DEF IInv
<1> QED
  BY <1>2, <1>3

LEMMA AcceptQuicStep ==
    ASSUME ConstantsOK, IInv, NEW t \in Threads, AcceptQuic(t)
    PROVE  IInv'
<1>1. MidInv(sv) /\ sv \in State /\ sv.pc[t] = "token" /\ sv.num \in Int /\ sv.quic \in Int
  BY DEF IInv, MidInv, AcceptQuic, Pc, State
<1>2. CASE sv' = Goto(CreateConnection(sv, t, TRUE), t, "loop")
  <2>1. "loop" \in Labels
    BY DEF Labels
  <2>2. IsCreation(sv, sv', t, TRUE, "loop")
    BY <1>1, <1>2, <2>1, Created
  <2>3. MidInv(sv') /\ EndInv(sv')
    BY <1>1, <2>2, Creation DEF IsCreation
  <2> QED
    BY <2>3 DEF IInv
<1>3. CASE sv' = Goto(sv, t, "quicback")
  <2> DEFINE l == "quicback"
             d == sv'
  <2>1. l \in Labels /\ l \notin Starting /\ l \notin Polls /\ l \notin Waiting /\ sv.pc[t] \notin Starting
    BY <1>1 DEF Labels, Starting, Polls, Waiting
  <2>2. d \in State /\ Frame(sv, d) /\ Moves(sv, d, t, l) /\ Rest(sv, d)
    BY <1>1, <1>3, <2>1, Going
  <2>3. /\ Enters(sv.pc, t, l, Undecided) = 0 /\ Enters(sv.pc, t, l, Holding) = 0
        /\ Enters(sv.pc, t, l, QuicHeld) = 0 /\ Enters(sv.pc, t, l, {"token"}) = -1
    BY <1>1 DEF Enters, In, Undecided, Holding, QuicHeld
  <2> HIDE DEF d, l
  <2>4. Counted(sv, d, t, l)
    BY <1>1, <2>2, <2>3, NoMore DEF Counted, Rest
  <2>5. Woken(sv, d, t, l)
    BY <2>1, <2>2 DEF Woken, Rest, Waiting
  <2>6. MidInv(d)
    BY <1>1, <2>1, <2>2, <2>4, <2>5, ThreadStep
  <2>7. EndInv(d)
    BY <1>1, <2>1, <2>2, AwakeAtTheEnd
  <2> QED
    BY <2>6, <2>7 DEF IInv, d
<1>4. CASE sv' = Goto(LeaveQuic(sv), t, "loop")
  <2>1. sv.pc[t] \in QuicHeld
    BY <1>1 DEF QuicHeld
  <2>2. MidInv(sv') /\ EndInv(sv')
    BY <1>1, <1>4, <2>1, PlaceGivenBack
  <2> QED
    BY <2>2 DEF IInv
<1> QED
  BY <1>2, <1>3, <1>4 DEF AcceptQuic

LEMMA CountQuicStep ==
    ASSUME ConstantsOK, IInv, NEW t \in Threads, CountQuic(t)
    PROVE  IInv'
<1> DEFINE l == IF sv.quic >= MaxQuic THEN "quicback" ELSE "token"
           e == Goto(sv, t, l)
           d == sv'
<1>1. MidInv(sv) /\ sv \in State /\ sv.pc[t] = "quic" /\ sv.num \in Int /\ sv.quic \in Int /\ sv.quic + 1 \in Int
  BY DEF IInv, MidInv, CountQuic, Pc, State
<1>2. l \in Labels /\ l \notin Starting /\ l \notin Polls /\ l \notin Waiting /\ sv.pc[t] \notin Starting
  BY <1>1 DEF Labels, Starting, Polls, Waiting
<1>3. e \in State /\ Frame(sv, e) /\ Moves(sv, e, t, l) /\ Rest(sv, e)
  BY <1>1, <1>2, Going
<1>4. d = [e EXCEPT !.quic = @ + 1]
  BY DEF CountQuic
<1>5. /\ Enters(sv.pc, t, l, Undecided) = 0 /\ Enters(sv.pc, t, l, Holding) = 0
      /\ Enters(sv.pc, t, l, QuicHeld) = 1
      /\ Enters(sv.pc, t, l, {"token"}) = 0 \/ (Enters(sv.pc, t, l, {"token"}) = 1 /\ sv.quic < MaxQuic)
  <2>1. MaxQuic \in Int
    BY DEF ConstantsOK
  <2> QED
    BY <1>1, <2>1 DEF Enters, In, Undecided, Holding, QuicHeld
<1> HIDE DEF d, l, e
<1>6. e.quic = sv.quic /\ e.quic + 1 \in Int
  BY <1>1, <1>3 DEF Rest
<1>7. d \in State
  BY <1>3, <1>4, <1>6 DEF State
<1>8. Frame(e, d) /\ d.pc = e.pc /\ d.conns = e.conns /\ d.num = e.num /\ d.quic = e.quic + 1
      /\ d.listening = e.listening /\ d.efd = e.efd
  BY <1>3, <1>4 DEF State, Frame
<1>9. Frame(sv, d) /\ Moves(sv, d, t, l) /\ d.conns = sv.conns /\ d.num = sv.num /\ d.quic = sv.quic + 1
      /\ d.listening = sv.listening /\ d.efd = sv.efd
  BY <1>3, <1>8 DEF Frame, Moves, Rest
<1>10. Counted(sv, d, t, l)
  <2>1. /\ IsFiniteSet(Served(d.conns, BOOLEAN)) /\ IsFiniteSet(Served(d.conns, {TRUE}))
        /\ More(sv.conns, d.conns, BOOLEAN) = 0 /\ More(sv.conns, d.conns, {TRUE}) = 0
    BY <1>1, <1>9, NoMore
  <2> QED
    BY <1>1, <1>5, <1>9, <2>1 DEF Counted
<1>11. Woken(sv, d, t, l)
  BY <1>2, <1>9 DEF Woken, Waiting
<1>12. MidInv(d)
  BY <1>1, <1>2, <1>7, <1>9, <1>10, <1>11, ThreadStep
<1>13. EndInv(d)
  BY <1>1, <1>2, <1>9, AwakeAtTheEnd
<1> QED
  BY <1>12, <1>13 DEF IInv, d

--------------------------------------------------------------------------------
(* What callbacks do to connections before the thread goes on. *)

Halfway(c, d) == MidInv(d) /\ Frame(c, d) /\ d.pc = c.pc

LEMMA Stays ==
    ASSUME NEW c \in State, NEW d, d.pc = c.pc, NEW t \in Threads
    PROVE  Moves(c, d, t, c.pc[t]) /\ c.pc[t] \in Labels /\ \A A : Enters(c.pc, t, c.pc[t], A) = 0
<1>1. c.pc \in [Threads -> Labels]
  BY DEF State
<1>2. c.pc = [c.pc EXCEPT ![t] = c.pc[t]]
  BY <1>1
<1>3. \A A : Enters(c.pc, t, c.pc[t], A) = 0
  BY DEF Enters, In
<1> QED
  BY <1>1, <1>2, <1>3 DEF Moves

(* Who has to be woken has been, or is woken now. *)
LEMMA StaysAwake ==
    ASSUME ConstantsOK, NEW c, MidInv(c), NEW d, NEW t \in Threads, d.listening = c.listening,
           \/ d.num = c.num /\ d.efd = c.efd
           \/ d.num = c.num - 1 /\ d.efd = IF c.num = MaxConnections THEN Threads ELSE c.efd
    PROVE  Woken(c, d, t, c.pc[t])
<1>1. c.num \in Int /\ MaxConnections \in Int /\ c.efd \subseteq Threads
  BY DEF MidInv, State, ConstantsOK
<1>2. WakeInv(c.pc, c.listening, c.num, c.efd)
  BY DEF MidInv
<1>3. \A u \in Threads : u \in c.efd => u \in d.efd
  BY <1>1
<1>4. c.num < MaxConnections \/ ~(d.num < MaxConnections) \/ d.efd = Threads
  BY <1>1
<1>5. c.pc[t] = "unlisten" \/ (c.pc[t] = "poll" /\ t \notin d.listening) => t \in d.efd \/ ~(d.num < MaxConnections)
  BY <1>2, <1>3, <1>4 DEF WakeInv
<1> QED
  BY <1>3, <1>4, <1>5 DEF Woken

LEMMA Destroyed ==
    ASSUME ConstantsOK, NEW c, MidInv(c), NEW t \in Threads, c.pc[t] \notin Starting, NEW i \in DOMAIN c.conns[t]
    PROVE  Halfway(c, DestroyConnection(c, t, i))
<1> DEFINE e == RemoveConn(c, t, i)
           after == [c.conns EXCEPT ![t] = Removed(@, i)]
           q == c.conns[t][i].quic
           l == c.pc[t]
           d == DestroyConnection(c, t, i)
<1>1. /\ c \in State /\ c.num \in Int /\ c.quic \in Int /\ c.conns \in [Threads -> Seq(Conn)] /\ c.conns[t] \in Seq(Conn)
      /\ i \in 1 .. Len(c.conns[t])
  BY DEF MidInv, State
<1>2. q \in BOOLEAN
  <2>1. c.conns[t][i] \in Conn
    BY <1>1
  <2> QED
    BY <2>1 DEF Conn
<1>3. after \in [Threads -> Seq(Conn)] /\ Removes(c.conns, after, t, i)
  <2>1. Removed(c.conns[t], i) \in Seq(Conn)
    BY <1>1, RemovedElements
  <2> QED
    BY <1>1, <2>1 DEF Removes
<1>4. e = [c EXCEPT !.conns = after]
  BY <1>1 DEF RemoveConn, Removed, State
<1>5. d = IF q THEN LeaveQuic(e) ELSE LeaveOne(e)
  BY DEF DestroyConnection
<1> HIDE DEF e, d
<1>6. /\ e \in State /\ Frame(c, e) /\ e.pc = c.pc /\ e.num = c.num /\ e.quic = c.quic /\ e.listening = c.listening
      /\ e.efd = c.efd /\ e.conns = after
  <2> HIDE DEF after
  <2> QED
    BY <1>1, <1>3, <1>4 DEF State, Frame
<1>7. d \in State /\ Left(e, d) /\ d.quic = IF q THEN c.quic - 1 ELSE c.quic
  <2>1. CASE q
    BY <1>5, <1>6, <2>1, LeavingQuic
  <2>2. CASE ~q
    BY <1>5, <1>6, <2>2, Leaving
  <2> QED
    BY <2>1, <2>2
<1>8. /\ Frame(c, d) /\ d.pc = c.pc /\ d.conns = after /\ d.num = c.num - 1 /\ d.listening = c.listening
      /\ d.efd = IF c.num = MaxConnections THEN Threads ELSE c.efd
  BY <1>6, <1>7 DEF Left, Frame
<1>9. IsFiniteSet(Served(c.conns, BOOLEAN)) /\ IsFiniteSet(Served(c.conns, {TRUE}))
  BY DEF MidInv, CountInv
<1> HIDE DEF after, q
<1>9a. ASSUME NEW K, IsFiniteSet(Served(c.conns, K))
       PROVE  /\ IsFiniteSet(Served(after, K))
              /\ Cardinality(Served(after, K)) = Cardinality(Served(c.conns, K)) - In(q, K)
  <2>1. /\ IsFiniteSet(Served(after, K))
        /\ Cardinality(Served(after, K)) = Cardinality(Served(c.conns, K)) - In(c.conns[t][i].quic, K)
    <3> DEFINE conns == c.conns
    <3>1. conns \in [Threads -> Seq(Conn)] /\ i \in 1 .. Len(conns[t]) /\ IsFiniteSet(Served(conns, K)) /\ Removes(conns, after, t, i)
      BY <1>1, <1>3, <1>9a
    <3> HIDE DEF conns
    <3>2. /\ IsFiniteSet(Served(after, K))
          /\ Cardinality(Served(after, K)) = Cardinality(Served(conns, K)) - In(conns[t][i].quic, K)
      BY <3>1, ServedRemove
    <3> QED
      BY <3>2 DEF conns
  <2> QED
    BY <2>1 DEF q
<1>10. /\ IsFiniteSet(Served(after, BOOLEAN))
       /\ Cardinality(Served(after, BOOLEAN)) = Cardinality(Served(c.conns, BOOLEAN)) - In(q, BOOLEAN)
  BY <1>9, <1>9a
<1>11. /\ IsFiniteSet(Served(after, {TRUE}))
       /\ Cardinality(Served(after, {TRUE})) = Cardinality(Served(c.conns, {TRUE})) - In(q, {TRUE})
  BY <1>9, <1>9a
<1>12. Cardinality(Served(c.conns, BOOLEAN)) \in Nat /\ Cardinality(Served(c.conns, {TRUE})) \in Nat
  BY <1>9, FS_CardinalityType
<1>13. In(q, BOOLEAN) = 1 /\ In(q, {TRUE}) = IF q THEN 1 ELSE 0
  BY <1>2 DEF In
<1>14. More(c.conns, d.conns, BOOLEAN) = -1 /\ More(c.conns, d.conns, {TRUE}) = IF q THEN -1 ELSE 0
  BY <1>8, <1>10, <1>11, <1>12, <1>13 DEF More
<1>15. Moves(c, d, t, l) /\ l \in Labels /\ \A A : Enters(c.pc, t, l, A) = 0
  BY <1>1, <1>8, Stays
<1>16. Woken(c, d, t, l)
  BY <1>8, StaysAwake
<1> HIDE DEF l
<1>17. IsFiniteSet(Served(d.conns, BOOLEAN)) /\ IsFiniteSet(Served(d.conns, {TRUE}))
  BY <1>8, <1>10, <1>11
<1>18. Counted(c, d, t, l)
  BY <1>1, <1>7, <1>8, <1>14, <1>15, <1>17 DEF Counted
<1>19. MidInv(d)
  BY <1>7, <1>8, <1>15, <1>16, <1>18, ThreadStep DEF l
<1> QED
  BY <1>8, <1>19 DEF Halfway, d

(* Something about connections changes that is not counted. *)
LEMMA KindsUnchanged ==
    ASSUME ConstantsOK, NEW c, MidInv(c), NEW d \in State, Frame(c, d), d.pc = c.pc, SameKinds(c.conns, d.conns),
           d.num = c.num, d.quic = c.quic, d.listening = c.listening, d.efd = c.efd
    PROVE  Halfway(c, d)
<1>1. Served(d.conns, BOOLEAN) = Served(c.conns, BOOLEAN) /\ Served(d.conns, {TRUE}) = Served(c.conns, {TRUE})
  BY ServedSame
<1>2. CountInv(d.pc, d.conns, d.num, d.quic)
  <2>1. CountInv(c.pc, c.conns, c.num, c.quic)
    BY DEF MidInv
  <2> QED
    BY <1>1, <2>1 DEF CountInv
<1>3. MidInv(d)
  BY <1>2 DEF MidInv, Frame
<1> QED
  BY <1>3 DEF Halfway

(* A connection is replaced by one of the same kind. *)
Replaces(conns, after, t, i, r) == after = [conns EXCEPT ![t] = [@ EXCEPT ![i] = r]]

LEMMA Replaced ==
    ASSUME ConstantsOK, NEW c, MidInv(c), NEW t \in Threads, NEW i \in DOMAIN c.conns[t],
           NEW r \in Conn, r.quic = c.conns[t][i].quic, NEW after, Replaces(c.conns, after, t, i, r)
    PROVE  Halfway(c, [c EXCEPT !.conns = after])
<1> DEFINE s == c.conns[t]
           s2 == [s EXCEPT ![i] = r]
           d == [c EXCEPT !.conns = after]
<1>1. c \in State /\ c.conns \in [Threads -> Seq(Conn)] /\ s \in Seq(Conn) /\ i \in 1 .. Len(s)
  BY DEF MidInv, State
<1>2. s2 \in Seq(Conn) /\ DOMAIN s2 = DOMAIN s
  <2>1. s \in [1 .. Len(s) -> Conn] /\ Len(s) \in Nat
    BY <1>1
  <2>2. s2 \in [1 .. Len(s) -> Conn]
    BY <2>1
  <2>3. s2 \in Seq(Conn)
    BY <2>1, <2>2, SeqIntro
  <2> QED
    BY <2>1, <2>2, <2>3
<1>3. after[t] = s2 /\ after \in [Threads -> Seq(Conn)] /\ \A u \in Threads : u # t => after[u] = c.conns[u]
  <2> HIDE DEF s2
  <2>1. after = [c.conns EXCEPT ![t] = s2]
    BY DEF Replaces, s2, s
  <2> QED
    BY <1>1, <1>2, <2>1
<1>4. \A j \in DOMAIN s : s2[j].quic = s[j].quic
  BY <1>1
<1> HIDE DEF s2
<1>5. SameKinds(c.conns, after)
  BY <1>2, <1>3, <1>4 DEF SameKinds
<1>6. /\ d \in State /\ Frame(c, d) /\ d.pc = c.pc /\ d.conns = after /\ d.num = c.num /\ d.quic = c.quic
      /\ d.listening = c.listening /\ d.efd = c.efd
  BY <1>1, <1>3 DEF State, Frame
<1> HIDE DEF d
<1>7. Halfway(c, d)
  BY <1>5, <1>6, KindsUnchanged
<1> QED
  BY <1>7 DEF d

LEMMA StateSet ==
    ASSUME ConstantsOK, NEW c, MidInv(c), NEW t \in Threads, NEW i \in DOMAIN c.conns[t],
           NEW st \in {"active", "idle", "shutdown"}
    PROVE  Halfway(c, SetState(c, t, i, st))
<1> DEFINE s == c.conns[t]
           r == [s[i] EXCEPT !.st = st, !.rested = FALSE]
           after == [c.conns EXCEPT ![t] = [@ EXCEPT ![i] = r]]
<1>1. c \in State /\ c.conns \in [Threads -> Seq(Conn)] /\ s \in Seq(Conn) /\ i \in 1 .. Len(s)
  BY DEF MidInv, State
<1>2. s[i] \in Conn
  BY <1>1
<1>3. r \in Conn /\ r.quic = s[i].quic
  BY <1>2 DEF Conn
<1>4. SetState(c, t, i, st) = [c EXCEPT !.conns = after]
  BY DEF SetState
<1>5. Replaces(c.conns, after, t, i, r)
  BY DEF Replaces
<1> HIDE DEF r, after
<1>6. Halfway(c, [c EXCEPT !.conns = after])
  BY <1>3, <1>5, Replaced DEF s
<1> QED
  BY <1>4, <1>6

LEMMA HalfwayOn ==
    ASSUME NEW c, NEW d, NEW e, Halfway(c, d), Halfway(d, e)
    PROVE  Halfway(c, e)
BY DEF Halfway, Frame

LEMMA IdleClosed ==
    ASSUME ConstantsOK, NEW c, MidInv(c), NEW t \in Threads, c.pc[t] \notin Starting, NEW i \in DOMAIN c.conns[t]
    PROVE  Halfway(c, CloseIdle(c, t, i))
<1> DEFINE d == [c EXCEPT !.early = @ \/ ~c.conns[t][i].rested]
           e == CloseIdle(c, t, i)
<1>1. c \in State
  BY DEF MidInv
<1>2. d \in State /\ Frame(c, d) /\ d.pc = c.pc /\ d.conns = c.conns /\ d.num = c.num /\ d.quic = c.quic
      /\ d.listening = c.listening /\ d.efd = c.efd
  <2>1. (c.early \/ ~c.conns[t][i].rested) \in BOOLEAN
    OBVIOUS
  <2> QED
    BY <1>1, <2>1 DEF State, Frame
<1>3. e = IF c.conns[t][i].quic THEN SetState(d, t, i, "shutdown") ELSE DestroyConnection(d, t, i)
  BY DEF CloseIdle
<1> HIDE DEF d, e
<1>4. Halfway(c, d)
  BY <1>2, KindsStay, KindsUnchanged
<1>5. MidInv(d) /\ i \in DOMAIN d.conns[t] /\ d.pc[t] \notin Starting
  BY <1>2, <1>4 DEF Halfway
<1>6. Halfway(d, e)
  BY <1>3, <1>5, StateSet, Destroyed
<1>7. Halfway(c, e)
  BY <1>4, <1>6, HalfwayOn
<1> QED
  BY <1>7 DEF e

LEMMA IdleConnectionsClosed ==
    ASSUME ConstantsOK, NEW c, MidInv(c), NEW t \in Threads, c.pc[t] \notin Starting
    PROVE  Halfway(c, CloseIdleConnections(c, t))
<1> DEFINE T == OldIdle(c, t)
<1>1. Halfway(c, c)
  BY DEF Halfway, Frame
<1>2. CASE T = {}
  BY <1>1, <1>2 DEF CloseIdleConnections
<1>3. CASE T # {}
  <2>1. T \subseteq Nat /\ T \subseteq DOMAIN c.conns[t]
    <3>1. c.conns[t] \in Seq(Conn)
      BY DEF MidInv, State
    <3> QED
      BY <3>1 DEF OldIdle
  <2> HIDE DEF T
  <2>2. \E x \in T : \A y \in T : x <= y
    BY <1>3, <2>1, LeastElement
  <2>3. Min(T) \in T
    BY <2>2 DEF Min
  <2>4. Halfway(c, CloseIdle(c, t, Min(T)))
    BY <2>1, <2>3, IdleClosed
  <2> QED
    BY <1>1, <2>4 DEF CloseIdleConnections, T
<1> QED
  BY <1>2, <1>3

(* The place is taken first: it is kept only if there was one. *)
LEMMA PlaceTaken ==
    ASSUME ConstantsOK, NEW c, MidInv(c), NEW t \in Threads, c.pc[t] \in {"again", "poll"}, NEW m \in {"accept", "quic"},
           NEW l, l = IF c.num >= MaxConnections THEN "giveback" ELSE m,
           NEW d \in State, Frame(c, d), Moves(c, d, t, l), d.num = c.num + 1, d.quic = c.quic, d.conns = c.conns,
           d.listening = c.listening, d.efd = c.efd
    PROVE  MidInv(d) /\ EndInv(d)
<1>1. c \in State /\ c.num \in Int /\ c.quic \in Int /\ MaxConnections \in Int
  <2>1. c \in State /\ MaxConnections \in Int
    BY DEF MidInv, ConstantsOK
  <2> QED
    BY <2>1 DEF State
<1>2. l \in Labels /\ l \notin Starting /\ l \notin Polls /\ l \notin Waiting /\ c.pc[t] \notin Starting
  BY DEF Labels, Starting, Polls, Waiting
<1>3. /\ Enters(c.pc, t, l, Undecided) = 1
      /\ Enters(c.pc, t, l, Holding) = 0 \/ (Enters(c.pc, t, l, Holding) = 1 /\ c.num < MaxConnections)
      /\ Enters(c.pc, t, l, QuicHeld) = 0 /\ Enters(c.pc, t, l, {"token"}) = 0
  BY <1>1 DEF Enters, In, Undecided, Holding, QuicHeld
<1>4. /\ IsFiniteSet(Served(d.conns, BOOLEAN)) /\ IsFiniteSet(Served(d.conns, {TRUE}))
      /\ More(c.conns, d.conns, BOOLEAN) = 0 /\ More(c.conns, d.conns, {TRUE}) = 0
  BY NoMore
<1>5. Counted(c, d, t, l)
  BY <1>1, <1>3, <1>4 DEF Counted
<1>6. Woken(c, d, t, l)
  <2>1. l # "unlisten" /\ l # "poll"
    BY <1>2 DEF Waiting
  <2>2. c.num < MaxConnections \/ ~(d.num < MaxConnections)
    BY <1>1
  <2> QED
    BY <1>2, <2>1, <2>2 DEF Woken
<1>7. MidInv(d)
  BY <1>2, <1>5, <1>6, ThreadStep
<1> QED
  BY <1>1, <1>2, <1>7, AwakeAtTheEnd

LEMMA OnAcceptStep ==
    ASSUME ConstantsOK, IInv, NEW t \in Threads, OnAccept(t)
    PROVE  IInv'
<1> DEFINE c == CloseIdleConnections(sv, t)
           l == IF c.num >= MaxConnections THEN "giveback" ELSE "accept"
           e == Goto(c, t, l)
           d == sv'
<1>1. MidInv(sv) /\ sv.pc[t] \in {"again", "poll"}
  BY DEF IInv, OnAccept, Pc
<1>2. Halfway(sv, c)
  BY <1>1, IdleConnectionsClosed DEF Starting
<1>3. d = [e EXCEPT !.num = @ + 1]
  BY DEF OnAccept
<1> HIDE DEF c, d
<1>4. MidInv(c) /\ c \in State /\ c.pc[t] \in {"again", "poll"}
  BY <1>1, <1>2 DEF Halfway, MidInv
<1>5. l \in Labels
  BY DEF Labels
<1> HIDE DEF l
<1>6. e \in State /\ Frame(c, e) /\ Moves(c, e, t, l) /\ Rest(c, e)
  BY <1>4, <1>5, Going
<1> HIDE DEF e
<1>7. e.num \in Int /\ e.num + 1 \in Int
  BY <1>6 DEF State
<1>8. /\ d \in State /\ Frame(e, d) /\ d.pc = e.pc /\ d.num = e.num + 1 /\ d.quic = e.quic /\ d.conns = e.conns
      /\ d.listening = e.listening /\ d.efd = e.efd
  BY <1>3, <1>6, <1>7 DEF State, Frame
<1>9. /\ Frame(c, d) /\ Moves(c, d, t, l) /\ d.num = c.num + 1 /\ d.quic = c.quic /\ d.conns = c.conns
      /\ d.listening = c.listening /\ d.efd = c.efd
  BY <1>6, <1>8 DEF Frame, Moves, Rest
<1>10. l = IF c.num >= MaxConnections THEN "giveback" ELSE "accept"
  BY DEF l
<1>11. MidInv(d) /\ EndInv(d)
  BY <1>4, <1>8, <1>9, <1>10, PlaceTaken
<1> QED
  BY <1>11 DEF IInv, d

LEMMA OnHttp3AcceptStep ==
    ASSUME ConstantsOK, IInv, NEW t \in Threads, OnHttp3Accept(t)
    PROVE  IInv'
<1> DEFINE c == CloseIdleConnections(sv, t)
           l == IF c.num >= MaxConnections THEN "giveback" ELSE "quic"
           e == Goto(c, t, l)
           d == sv'
<1>1. MidInv(sv) /\ sv.pc[t] \in {"again", "poll"}
  BY DEF IInv, OnHttp3Accept, Pc
<1>2. Halfway(sv, c)
  BY <1>1, IdleConnectionsClosed DEF Starting
<1>3. d = [e EXCEPT !.num = @ + 1, !.arrivals = @ + 1]
  BY DEF OnHttp3Accept
<1> HIDE DEF c, d
<1>4. MidInv(c) /\ c \in State /\ c.pc[t] \in {"again", "poll"}
  BY <1>1, <1>2 DEF Halfway, MidInv
<1>5. l \in Labels
  BY DEF Labels
<1> HIDE DEF l
<1>6. e \in State /\ Frame(c, e) /\ Moves(c, e, t, l) /\ Rest(c, e)
  BY <1>4, <1>5, Going
<1> HIDE DEF e
<1>7. e.num \in Int /\ e.num + 1 \in Int /\ e.arrivals \in Int /\ e.arrivals + 1 \in Int
  BY <1>6 DEF State
<1>8. /\ d \in State /\ Frame(e, d) /\ d.pc = e.pc /\ d.num = e.num + 1 /\ d.quic = e.quic /\ d.conns = e.conns
      /\ d.listening = e.listening /\ d.efd = e.efd
  BY <1>3, <1>6, <1>7 DEF State, Frame
<1>9. /\ Frame(c, d) /\ Moves(c, d, t, l) /\ d.num = c.num + 1 /\ d.quic = c.quic /\ d.conns = c.conns
      /\ d.listening = c.listening /\ d.efd = c.efd
  BY <1>6, <1>8 DEF Frame, Moves, Rest
<1>10. l = IF c.num >= MaxConnections THEN "giveback" ELSE "quic"
  BY DEF l
<1>11. MidInv(d) /\ EndInv(d)
  BY <1>4, <1>8, <1>9, <1>10, PlaceTaken
<1> QED
  BY <1>11 DEF IInv, d

(* The callback has returned: the thread goes round its loop. *)
LEMMA ConnEventStep ==
    ASSUME ConstantsOK, IInv, NEW t \in Threads, ConnEvent(t)
    PROVE  IInv'
<1> DEFINE l == Back(sv, t)
<1>1. MidInv(sv) /\ sv \in State /\ sv.pc[t] \in Polls
  BY DEF IInv, MidInv, ConnEvent, Polling, Pc, Polls
<1>2. sv.pc[t] \notin Starting /\ sv.pc[t] \notin Undecided
  BY <1>1 DEF Polls, Starting, Undecided
<1>3. l \in Labels /\ l \notin Starting /\ l \notin Undecided /\ l \notin Polls /\ l \notin Waiting
  BY DEF Labels, Starting, Undecided, Polls, Waiting, Back
<1>4. PICK i \in DOMAIN sv.conns[t] :
        \/ sv' = Goto(DestroyConnection(sv, t, i), t, l)
        \/ \E st \in {"active", "idle"} : sv' = Goto(SetState(sv, t, i, st), t, l)
  BY DEF ConnEvent
<1>5. PICK d : Halfway(sv, d) /\ sv' = Goto(d, t, l)
  <2>1. CASE sv' = Goto(DestroyConnection(sv, t, i), t, l)
    BY <1>1, <1>2, <2>1, Destroyed
  <2>2. CASE \E st \in {"active", "idle"} : sv' = Goto(SetState(sv, t, i, st), t, l)
    <3>1. PICK st \in {"active", "idle"} : sv' = Goto(SetState(sv, t, i, st), t, l)
      BY <2>2
    <3>2. Halfway(sv, SetState(sv, t, i, st))
      BY <1>1, StateSet
    <3> QED
      BY <3>1, <3>2
  <2> QED
    BY <1>4, <2>1, <2>2
<1> HIDE DEF l
<1>6. MidInv(d) /\ d \in State /\ d.pc[t] = sv.pc[t]
  BY <1>5 DEF Halfway, MidInv
<1>7. MidInv(sv')
  BY <1>2, <1>3, <1>5, <1>6, GoingOn
<1>8. EndInv(sv')
  BY <1>3, <1>5, <1>6, Going, AwakeAtTheEnd
<1> QED
  BY <1>7, <1>8 DEF IInv

(* What happens outside the threads neither wakes nor puts anyone to sleep. *)
LEMMA Elsewhere ==
    ASSUME IInv, Halfway(sv, sv'), sv'.num = sv.num, sv'.efd = sv.efd
    PROVE  IInv'
<1>1. EndInv(sv')
  BY DEF IInv, EndInv, Halfway, Frame
<1> QED
  BY <1>1 DEF IInv, Halfway

LEMMA AgesStep ==
    ASSUME ConstantsOK, IInv, Ages
    PROVE  IInv'
<1>1. MidInv(sv) /\ sv \in State /\ sv.conns \in [Threads -> Seq(Conn)]
  BY DEF IInv, MidInv, State
<1>2. PICK t \in Threads : \E i \in DOMAIN sv.conns[t] :
        \/ sv' = [sv EXCEPT !.conns[t][i].old = TRUE]
        \/ sv' = [sv EXCEPT !.conns[t][i] = [@ EXCEPT !.old = TRUE, !.rested = TRUE]]
  BY DEF Ages
<1>3. PICK i \in DOMAIN sv.conns[t] :
        \/ sv' = [sv EXCEPT !.conns[t][i].old = TRUE]
        \/ sv' = [sv EXCEPT !.conns[t][i] = [@ EXCEPT !.old = TRUE, !.rested = TRUE]]
  BY <1>2
<1>4. sv.conns[t] \in Seq(Conn) /\ sv.conns[t][i] \in Conn
  BY <1>1
<1>5. PICK r \in Conn : r.quic = sv.conns[t][i].quic /\ sv' = [sv EXCEPT !.conns[t][i] = r]
  <2>1. CASE sv' = [sv EXCEPT !.conns[t][i].old = TRUE]
    <3> DEFINE r == [sv.conns[t][i] EXCEPT !.old = TRUE]
    <3>1. r \in Conn /\ r.quic = sv.conns[t][i].quic
      BY <1>4 DEF Conn
    <3>2. sv' = [sv EXCEPT !.conns[t][i] = r]
      BY <2>1
    <3> QED
      BY <3>1, <3>2
  <2>2. CASE sv' = [sv EXCEPT !.conns[t][i] = [@ EXCEPT !.old = TRUE, !.rested = TRUE]]
    <3> DEFINE r == [sv.conns[t][i] EXCEPT !.old = TRUE, !.rested = TRUE]
    <3>1. r \in Conn /\ r.quic = sv.conns[t][i].quic
      BY <1>4 DEF Conn
    <3>2. sv' = [sv EXCEPT !.conns[t][i] = r]
      BY <2>2
    <3> QED
      BY <3>1, <3>2
  <2> QED
    BY <1>3, <2>1, <2>2
<1> DEFINE after == [sv.conns EXCEPT ![t] = [@ EXCEPT ![i] = r]]
<1>6. Replaces(sv.conns, after, t, i, r) /\ sv' = [sv EXCEPT !.conns = after]
  BY <1>1, <1>5 DEF Replaces
<1> HIDE DEF after
<1>7. Halfway(sv, [sv EXCEPT !.conns = after])
  BY <1>1, <1>5, <1>6, Replaced
<1>8. sv'.num = sv.num /\ sv'.efd = sv.efd
  BY <1>1, <1>6 DEF State
<1> QED
  BY <1>6, <1>7, <1>8, Elsewhere

LEMMA ArriveStep ==
    ASSUME ConstantsOK, IInv, Arrive
    PROVE  IInv'
<1>1. MidInv(sv) /\ sv \in State
  BY DEF IInv, MidInv
<1>2. sv' = [sv EXCEPT !.arrivals = @ + 1, !.backlog = @ + 1]
  BY DEF Arrive
<1>3. sv.arrivals \in Int /\ sv.arrivals + 1 \in Int /\ sv.backlog \in Int /\ sv.backlog + 1 \in Int
  BY <1>1 DEF State
<1> DEFINE d == sv'
<1>4. /\ d \in State /\ Frame(sv, d) /\ d.pc = sv.pc /\ d.conns = sv.conns /\ d.num = sv.num /\ d.quic = sv.quic
      /\ d.listening = sv.listening /\ d.efd = sv.efd
  BY <1>1, <1>2, <1>3 DEF State, Frame
<1> HIDE DEF d
<1>5. Halfway(sv, d)
  BY <1>1, <1>4, KindsStay, KindsUnchanged
<1> QED
  BY <1>4, <1>5, Elsewhere DEF d

--------------------------------------------------------------------------------
(* SIGTERM: before the handler notifies, the main thread has not looked at  *)
(* the flag; afterwards every thread is registered and is notified.         *)

LEMMA SigtermStep ==
    ASSUME ConstantsOK, IInv, NEW t \in Threads, Sigterm(t)
    PROVE  IInv'
<1> DEFINE d == sv'
           f == IF sv.pc[t] \in {"queue", "lastqueue"} THEN sv.failed \cup KnownFailures ELSE sv.failed
<1>1. MidInv(sv) /\ sv \in State /\ 1 \in Threads /\ Threads \subseteq Threads
  BY DEF IInv, MidInv, ConstantsOK
<1>2. StartInv(sv.pc, sv.barrier, sv.registered, sv.handler, sv.tickets, sv.scene.quic, sv.failed)
  BY <1>1 DEF MidInv
<1>3. CASE sv.handler = "flag"
  <2>1. d = [sv EXCEPT !.term = TRUE]
    BY <1>3 DEF Sigterm
  <2>2. /\ d \in State /\ Rest(sv, d) /\ d.sem = sv.sem /\ d.ocsp = sv.ocsp /\ d.barrier = sv.barrier /\ d.pc = sv.pc
        /\ d.registered = sv.registered /\ d.handler = sv.handler /\ d.tickets = sv.tickets /\ d.scene = sv.scene
        /\ d.failed = sv.failed
    BY <1>1, <2>1 DEF State, Rest
  <2>3. d.pc[1] \in Starting
    BY <1>2, <1>3, <2>2 DEF StartInv, Starting
  <2> HIDE DEF d
  <2>4. TermInv(d.term, d.exited, d.pc, d.efd)
    BY <2>3 DEF TermInv
  <2>5. MidInv(d)
    BY <1>1, <2>2, <2>4 DEF MidInv, Rest
  <2>6. EndInv(d)
    BY <1>1, <2>3 DEF EndInv, Starting, Polls
  <2> QED
    BY <2>5, <2>6 DEF IInv, d
<1>4. CASE sv.handler = "notify"
  <2>1. sv.registered = Threads /\ sv.failed \subseteq KnownFailures
    BY <1>2, <1>4 DEF StartInv
  <2>2. d = [sv EXCEPT !.failed = f, !.efd = Threads, !.term = TRUE]
    <3>1. d = [NotifyAll(Asserted(sv, sv.pc[t] \notin {"queue", "lastqueue"}, "handler takes a mutex its thread holds")) EXCEPT !.term = TRUE]
      BY <1>4, <2>1 DEF Sigterm, Asserted, Pc
    <3>2. CASE sv.pc[t] \in {"queue", "lastqueue"}
      BY <1>1, <3>1, <3>2 DEF Asserted, NotifyAll, KnownFailures, State
    <3>3. CASE sv.pc[t] \notin {"queue", "lastqueue"}
      BY <1>1, <3>1, <3>3 DEF Asserted, NotifyAll, State
    <3> QED
      BY <3>2, <3>3
  <2>3. f \subseteq KnownFailures /\ f \in SUBSET Failures
    <3>1. KnownFailures \subseteq Failures
      BY DEF Failures
    <3>2. sv.failed \cup KnownFailures \subseteq KnownFailures
      BY <2>1
    <3>3. f \subseteq KnownFailures
      BY <2>1, <3>2
    <3> HIDE DEF f
    <3> QED
      BY <3>1, <3>3
  <2> HIDE DEF f, d
  <2>4. /\ d \in State /\ d.sem = sv.sem /\ d.ocsp = sv.ocsp /\ d.barrier = sv.barrier /\ d.pc = sv.pc
        /\ d.registered = sv.registered /\ d.handler = sv.handler /\ d.tickets = sv.tickets /\ d.scene = sv.scene
        /\ d.failed = f /\ d.efd = Threads /\ d.conns = sv.conns /\ d.num = sv.num /\ d.quic = sv.quic
    BY <1>1, <2>2, <2>3 DEF State
  <2>5. StartInv(d.pc, d.barrier, d.registered, d.handler, d.tickets, d.scene.quic, d.failed)
    BY <1>2, <2>3, <2>4 DEF StartInv
  <2>6. WakeInv(d.pc, d.listening, d.num, d.efd) /\ TermInv(d.term, d.exited, d.pc, d.efd)
    BY <2>4 DEF WakeInv, TermInv
  <2>7. CountInv(d.pc, d.conns, d.num, d.quic) /\ OcspInv(d.sem, d.ocsp)
    BY <1>1, <2>4 DEF MidInv
  <2>8. EndInv(d)
    BY <1>1, <2>4 DEF EndInv
  <2> QED
    BY <2>4, <2>5, <2>6, <2>7, <2>8 DEF IInv, MidInv, d
<1>5. sv.handler \in {"flag", "notify"}
  BY <1>1 DEF State
<1> QED
  BY <1>3, <1>4, <1>5

--------------------------------------------------------------------------------
(* The threads that fetch OCSP responses. *)

LEMMA FetchingIsFinite ==
    ASSUME ConstantsOK, NEW ocsp
    PROVE  IsFiniteSet(Fetching(ocsp)) /\ Cardinality(Fetching(ocsp)) \in Nat
<1>1. Fetching(ocsp) \subseteq Certs /\ IsFiniteSet(Certs)
  BY DEF Fetching, ConstantsOK
<1>2. IsFiniteSet(Fetching(ocsp))
  BY <1>1, FS_Subset
<1> QED
  BY <1>2, FS_CardinalityType

LEMMA OcspOnly ==
    ASSUME IInv, NEW sem \in Int, NEW fetches \in Int, NEW ocsp \in [Certs -> Update], OcspInv(sem, ocsp),
           sv' = [sv EXCEPT !.sem = sem, !.ocsp = ocsp, !.fetches = fetches]
    PROVE  IInv'
<1> DEFINE d == sv'
<1>1. MidInv(sv) /\ EndInv(sv) /\ sv \in State
  BY DEF IInv, MidInv
<1>2. /\ d \in State /\ Rest(sv, d) /\ d.sem = sem /\ d.ocsp = ocsp /\ d.barrier = sv.barrier /\ d.pc = sv.pc
      /\ d.registered = sv.registered /\ d.handler = sv.handler /\ d.tickets = sv.tickets /\ d.scene = sv.scene
      /\ d.failed = sv.failed /\ d.term = sv.term /\ d.exited = sv.exited
  BY <1>1 DEF State, Rest
<1> HIDE DEF d
<1>3. MidInv(d)
  BY <1>1, <1>2 DEF MidInv, Rest
<1>4. EndInv(d)
  BY <1>1, <1>2 DEF EndInv, Rest
<1> QED
  BY <1>3, <1>4 DEF IInv, d

LEMMA RaiseSemaphoreStep ==
    ASSUME ConstantsOK, IInv, RaiseSemaphore
    PROVE  IInv'
<1>1. /\ sv \in State /\ OcspInv(sv.sem, sv.ocsp) /\ sv.sem = -1 /\ OcspCapacity \in Nat
      /\ sv.ocsp \in [Certs -> Update] /\ sv.fetches \in Int
  BY DEF IInv, MidInv, RaiseSemaphore, Raised, ConstantsOK, State
<1>2. Fetching(sv.ocsp) = {}
  BY <1>1 DEF OcspInv
<1>3. Cardinality(Fetching(sv.ocsp)) = 0
  BY <1>2, FS_EmptySet
<1>4. OcspInv(OcspCapacity, sv.ocsp)
  BY <1>1, <1>3 DEF OcspInv
<1>5. sv' = [sv EXCEPT !.sem = OcspCapacity, !.ocsp = sv.ocsp, !.fetches = sv.fetches]
  BY <1>1 DEF RaiseSemaphore, State
<1>6. OcspCapacity \in Int
  BY <1>1
<1> QED
  BY <1>1, <1>4, <1>5, <1>6, OcspOnly

LEMMA OcspWaitStep ==
    ASSUME ConstantsOK, IInv, NEW k \in Certs, OcspWait(k)
    PROVE  IInv'
<1> DEFINE o == sv.ocsp[k]
           o2 == [o EXCEPT !.pc = "fetch"]
           ocsp == [sv.ocsp EXCEPT ![k] = o2]
           X == Fetching(sv.ocsp)
           n == sv.fetches + 1
<1>1. /\ sv \in State /\ OcspInv(sv.sem, sv.ocsp) /\ sv.ocsp \in [Certs -> Update] /\ o \in Update
      /\ sv.fetches \in Int /\ sv.sem \in Int /\ o.pc = "sleep" /\ sv.sem > 0
  BY DEF IInv, MidInv, State, OcspWait
<1>2. o2 \in Update /\ o2.pc = "fetch"
  BY <1>1 DEF Update
<1>3. sv' = [sv EXCEPT !.sem = @ - 1, !.ocsp = ocsp, !.fetches = n]
  BY <1>1 DEF OcspWait, State
<1> HIDE DEF o2
<1>4. ocsp \in [Certs -> Update]
  BY <1>1, <1>2
<1>5. Fetching(ocsp) = X \cup {k} /\ k \notin X
  BY <1>1, <1>2 DEF Fetching
<1>6. IsFiniteSet(X) /\ Cardinality(X) \in Nat
  BY FetchingIsFinite
<1> HIDE DEF X, ocsp
<1>7. Cardinality(Fetching(ocsp)) = Cardinality(X) + 1
  BY <1>5, <1>6, FS_AddElement
<1>8. sv.sem \in Nat /\ sv.sem + Cardinality(X) = OcspCapacity
  BY <1>1 DEF OcspInv, X
<1>9. sv.sem - 1 \in Nat /\ sv.sem - 1 + Cardinality(Fetching(ocsp)) = OcspCapacity
  BY <1>1, <1>6, <1>7, <1>8
<1>10. \A j \in Certs : ocsp[j].pc = "done" => ~ocsp[j].response
  BY <1>1, <1>2 DEF OcspInv, ocsp
<1>11. OcspInv(sv.sem - 1, ocsp)
  BY <1>9, <1>10 DEF OcspInv
<1>12. n \in Int /\ sv.sem - 1 \in Int
  BY <1>1
<1>13. sv' = [sv EXCEPT !.sem = sv.sem - 1, !.ocsp = ocsp, !.fetches = n]
  BY <1>3
<1> HIDE DEF n
<1> QED
  BY <1>4, <1>11, <1>12, <1>13, OcspOnly

(* A certificate for which no more responses are fetched has none. *)
LEMMA OcspUpdates ==
    ASSUME NEW o \in Update, NEW status \in {"ok", "temporary", "permanent"}
    PROVE  /\ OcspUpdated(o, status) \in Update /\ OcspUpdated(o, status).pc # "fetch"
           /\ OcspUpdated(o, status).pc = "done" => ~OcspUpdated(o, status).response
<1>1. o.fails \in Nat /\ o.fails + 1 \in Nat
  BY DEF Update
<1>2. CASE status = "ok"
  <2>1. OcspUpdated(o, status) = [o EXCEPT !.pc = "sleep", !.fails = 0, !.response = TRUE]
    BY <1>2 DEF OcspUpdated
  <2>2. 0 \in Nat /\ TRUE \in BOOLEAN
    OBVIOUS
  <2> QED
    BY <2>1, <2>2 DEF Update
<1>3. CASE status = "temporary" /\ o.fails = MaxFailures
  <2>1. OcspUpdated(o, status) = [o EXCEPT !.pc = "sleep", !.response = FALSE]
    BY <1>3 DEF OcspUpdated
  <2> QED
    BY <2>1 DEF Update
<1>4. CASE status = "temporary" /\ o.fails # MaxFailures
  <2>1. OcspUpdated(o, status) = [o EXCEPT !.pc = "sleep", !.fails = @ + 1]
    BY <1>4 DEF OcspUpdated
  <2> QED
    BY <1>1, <2>1 DEF Update
<1>5. CASE status = "permanent"
  <2>1. OcspUpdated(o, status) = [o EXCEPT !.pc = "done", !.response = FALSE]
    BY <1>5 DEF OcspUpdated
  <2> QED
    BY <2>1 DEF Update
<1> QED
  BY <1>2, <1>3, <1>4, <1>5

LEMMA OcspFetchedStep ==
    ASSUME ConstantsOK, IInv, NEW k \in Certs, OcspFetched(k)
    PROVE  IInv'
<1>1. /\ sv \in State /\ OcspInv(sv.sem, sv.ocsp) /\ sv.ocsp \in [Certs -> Update] /\ sv.ocsp[k] \in Update
      /\ sv.fetches \in Int /\ sv.sem \in Int /\ sv.ocsp[k].pc = "fetch"
  BY DEF IInv, MidInv, State, OcspFetched
<1>2. PICK status \in {"ok", "temporary", "permanent"} :
        sv' = [sv EXCEPT !.sem = @ + 1, !.ocsp[k] = OcspUpdated(@, status)]
  BY DEF OcspFetched
<1> DEFINE o2 == OcspUpdated(sv.ocsp[k], status)
           ocsp == [sv.ocsp EXCEPT ![k] = o2]
           X == Fetching(sv.ocsp)
<1>3. o2 \in Update /\ o2.pc # "fetch" /\ (o2.pc = "done" => ~o2.response)
  BY <1>1, OcspUpdates
<1> HIDE DEF o2
<1>4. sv' = [sv EXCEPT !.sem = sv.sem + 1, !.ocsp = ocsp, !.fetches = sv.fetches]
  BY <1>1, <1>2 DEF o2, State
<1>5. ocsp \in [Certs -> Update]
  BY <1>1, <1>3
<1>6. Fetching(ocsp) = X \ {k} /\ k \in X
  BY <1>1, <1>3 DEF Fetching
<1>7. IsFiniteSet(X) /\ Cardinality(X) \in Nat
  BY FetchingIsFinite
<1>8. \A j \in Certs : ocsp[j].pc = "done" => ~ocsp[j].response
  BY <1>1, <1>3 DEF OcspInv
<1> HIDE DEF X, ocsp
<1>9. Cardinality(Fetching(ocsp)) = Cardinality(X) - 1
  BY <1>6, <1>7, FS_RemoveElement
<1>10. sv.sem # -1
  BY <1>1, <1>6 DEF OcspInv, X
<1>11. sv.sem \in Nat /\ sv.sem + Cardinality(X) = OcspCapacity
  BY <1>1, <1>10 DEF OcspInv, X
<1>12. sv.sem + 1 \in Nat /\ sv.sem + 1 + Cardinality(Fetching(ocsp)) = OcspCapacity
  BY <1>7, <1>9, <1>11
<1>13. OcspInv(sv.sem + 1, ocsp)
  BY <1>8, <1>12 DEF OcspInv
<1>14. sv.sem + 1 \in Int
  BY <1>12
<1> QED
  BY <1>1, <1>4, <1>5, <1>13, <1>14, OcspOnly

--------------------------------------------------------------------------------
(* The specification. *)

LEMMA Initially ==
    ASSUME ConstantsOK, Init
    PROVE  IInv
<1>1. PICK scene \in Scenes :
        sv = [scene |-> scene, failed |-> {}, pc |-> [t \in Threads |-> "setup"], registered |-> {}, listening |-> {}, efd |-> {},
              barrier |-> <<NumThreads, NumThreads + (IF scene.quic THEN 1 ELSE 0)>>, tickets |-> FALSE, handler |-> "flag",
              term |-> FALSE, exited |-> FALSE, num |-> 0, quic |-> 0, conns |-> [t \in Threads |-> <<>>], backlog |-> 0, arrivals |-> 0,
              early |-> FALSE, sem |-> -1, fetches |-> 0, ocsp |-> [k \in Certs |-> [pc |-> "sleep", fails |-> 0, response |-> FALSE]]]
  BY DEF Init
<1> DEFINE pc == [t \in Threads |-> "setup"]
           conns == [t \in Threads |-> <<>>]
           b == <<NumThreads, NumThreads + (IF scene.quic THEN 1 ELSE 0)>>
           ocsp == [k \in Certs |-> [pc |-> "sleep", fails |-> 0, response |-> FALSE]]
<1>2. scene \in [tcp : Nat, quic : BOOLEAN, idle : BOOLEAN, term : BOOLEAN, ocsp : BOOLEAN] /\ 1 \in Threads
      /\ MaxConnections \in Nat /\ MaxQuic \in Nat
  BY DEF ConstantsOK
<1>3. NumThreads \in Nat
  BY FS_CardinalityType DEF NumThreads, ConstantsOK
<1>4. pc \in [Threads -> Labels] /\ conns \in [Threads -> Seq(Conn)]
  BY DEF Labels
<1>5. b \in [1 .. 2 -> Int] /\ b[1] = NumThreads /\ b[2] = NumThreads + (IF scene.quic THEN 1 ELSE 0)
  <2>1. NumThreads \in Int /\ NumThreads + (IF scene.quic THEN 1 ELSE 0) \in Int
    BY <1>3
  <2> QED
    BY <2>1
<1>6. ocsp \in [Certs -> Update]
  BY DEF Update
<1>7. At(pc, {"setup"}) = Threads /\ At(pc, Starting) = Threads
  BY DEF At, Starting
<1>8. /\ At(pc, Undecided) = {} /\ At(pc, QuicHeld) = {} /\ At(pc, Holding) = {} /\ At(pc, {"token"}) = {}
  BY DEF At, Undecided, QuicHeld, Holding
<1>9. Served(conns, BOOLEAN) = {} /\ Served(conns, {TRUE}) = {}
  <2>1. \A K, t, i : ~IsServed(conns, K, t, i)
    BY DEF IsServed
  <2> HIDE DEF conns
  <2>2. \A K : Served(conns, K) = {}
    BY <2>1, ServedMember
  <2> QED
    BY <2>2
<1>10. Cardinality({}) = 0 /\ IsFiniteSet({})
  BY FS_EmptySet
<1>11. Fetching(ocsp) = {} /\ \A k \in Certs : ocsp[k].pc # "done"
  BY DEF Fetching
<1>12. pc[1] = "setup" /\ \A t \in Threads : pc[t] = "setup"
  BY <1>2
<1> HIDE DEF pc, conns, b, ocsp
<1>13. /\ sv.scene = scene /\ sv.failed = {} /\ sv.pc = pc /\ sv.registered = {} /\ sv.listening = {} /\ sv.efd = {}
       /\ sv.barrier = b /\ ~sv.tickets /\ sv.handler = "flag" /\ ~sv.term /\ ~sv.exited /\ sv.num = 0 /\ sv.quic = 0
       /\ sv.conns = conns /\ sv.sem = -1 /\ sv.ocsp = ocsp
  BY <1>1 DEF pc, conns, b, ocsp
<1>14. sv \in State
  <2>1. sv = [scene |-> scene, failed |-> {}, pc |-> pc, registered |-> {}, listening |-> {}, efd |-> {},
              barrier |-> b, tickets |-> FALSE, handler |-> "flag", term |-> FALSE, exited |-> FALSE,
              num |-> 0, quic |-> 0, conns |-> conns, backlog |-> 0, arrivals |-> 0,
              early |-> FALSE, sem |-> -1, fetches |-> 0, ocsp |-> ocsp]
    BY <1>1 DEF pc, conns, b, ocsp
  <2> QED
    BY <1>2, <1>4, <1>5, <1>6, <2>1 DEF State
<1>15. StartInv(pc, b, {}, "flag", FALSE, scene.quic, {})
  BY <1>3, <1>5, <1>7, <1>12 DEF StartInv, NumThreads
<1>16. CountInv(pc, conns, 0, 0)
  BY <1>2, <1>8, <1>9, <1>10 DEF CountInv
<1>17. WakeInv(sv.pc, sv.listening, sv.num, sv.efd)
  BY <1>12, <1>13 DEF WakeInv
<1>18. TermInv(sv.term, sv.exited, sv.pc, sv.efd) /\ EndInv(sv)
  BY <1>13 DEF TermInv, EndInv
<1>19. OcspInv(sv.sem, sv.ocsp)
  BY <1>11, <1>13 DEF OcspInv
<1>20. StartInv(sv.pc, sv.barrier, sv.registered, sv.handler, sv.tickets, sv.scene.quic, sv.failed)
  <2>1. sv.tickets = FALSE
    BY <1>13, <1>14 DEF State
  <2> QED
    BY <1>13, <1>15, <2>1
<1>21. CountInv(sv.pc, sv.conns, sv.num, sv.quic)
  BY <1>13, <1>16
<1> QED
  BY <1>14, <1>17, <1>18, <1>19, <1>20, <1>21 DEF IInv, MidInv

LEMMA Stutters ==
    ASSUME IInv, UNCHANGED sv
    PROVE  IInv'
BY DEF IInv

LEMMA Steps ==
    ASSUME ConstantsOK, IInv, Next
    PROVE  IInv'
<1>1. ThreadSteps => IInv'
  <2> SUFFICES ASSUME ThreadSteps PROVE IInv'
    OBVIOUS
  <2>1. PICK t \in Threads :
          \/ Ready(t) \/ PassFirst(t) \/ PassSecond(t) \/ Loop(t) \/ ReadCount(t) \/ UpdateListener(t) \/ Notified(t) \/ QueueDone(t)
          \/ OnAccept(t) \/ AcceptAny(t) \/ GiveBack(t) \/ CountQuic(t) \/ AcceptQuic(t) \/ QuicBack(t)
          \/ StopListening(t) \/ RequestShutdown(t) \/ LastLoop(t)
    BY DEF ThreadSteps
  <2> QED
    BY <2>1, ReadyStep, PassFirstStep, PassSecondStep, LoopStep, ReadCountStep, UpdateListenerStep, NotifiedStep,
       QueueDoneStep, OnAcceptStep, AcceptAnyStep, GiveBackStep, CountQuicStep, AcceptQuicStep, QuicBackStep,
       StopListeningStep, RequestShutdownStep, LastLoopStep
<1>2. Environment => IInv'
  BY ArriveStep, AgesStep, OnHttp3AcceptStep, ConnEventStep, SigtermStep DEF Environment
<1>3. Ocsp => IInv'
  BY RaiseSemaphoreStep, OcspWaitStep, OcspFetchedStep DEF Ocsp
<1> QED
  BY <1>1, <1>2, <1>3, CheckEarlyTermStep, TicketsReadyStep DEF Next, Step

(* The invariant is inductive. *)
THEOREM ProcessInvariant == ConstantsOK => (Spec => []IInv)
<1> SUFFICES ASSUME ConstantsOK PROVE Spec => []IInv
  OBVIOUS
<1>1. Init => IInv
  BY Initially
<1>2. IInv /\ [Next]_sv => IInv'
  BY Steps, Stutters
<1> QED
  BY <1>1, <1>2, PTL DEF Spec

(* Whatever the order in which the threads start and SIGTERM comes, the     *)
(* handler never notifies a thread that is not registered, and QUIC is not  *)
(* served before its keys are there (the barriers of run_loop).             *)
THEOREM BarriersSuffice == ConstantsOK => (Spec => []NoAssertionFails)
<1> SUFFICES ASSUME ConstantsOK PROVE Spec => []NoAssertionFails
  OBVIOUS
<1>1. IInv => NoAssertionFails
  BY DEF IInv, MidInv, StartInv, NoAssertionFails
<1> QED
  BY <1>1, ProcessInvariant, PTL

(* The counters that threads add to and subtract from without a lock are    *)
(* the numbers of connections and of places that are taken for a moment.    *)
THEOREM CountersAreExact == ConstantsOK => (Spec => []CountsAreExact)
<1> SUFFICES ASSUME ConstantsOK PROVE Spec => []CountsAreExact
  OBVIOUS
<1>1. IInv => CountsAreExact
  BY DEF IInv, MidInv, CountInv, CountsAreExact, QuicHeld
<1> QED
  BY <1>1, ProcessInvariant, PTL

(* For any number of threads that accept at the same time, there are never  *)
(* more connections than max-connections, and than the limit for QUIC.      *)
THEOREM LimitsAreKept == ConstantsOK => (Spec => []LimitsHold)
<1> SUFFICES ASSUME ConstantsOK PROVE Spec => []LimitsHold
  OBVIOUS
<1>1. IInv => LimitsHold
  <2> SUFFICES ASSUME IInv PROVE LimitsHold
    OBVIOUS
  <2>1. CountInv(sv.pc, sv.conns, sv.num, sv.quic)
    BY DEF IInv, MidInv
  <2> DEFINE s == Cardinality(Served(sv.conns, BOOLEAN))
             q == Cardinality(Served(sv.conns, {TRUE}))
             h == Cardinality(At(sv.pc, Holding))
             k == Cardinality(At(sv.pc, {"token"}))
  <2>2. s \in Nat /\ q \in Nat
    BY <2>1, FS_CardinalityType DEF CountInv
  <2>3. h \in Nat /\ k \in Nat
    BY AtIsFinite
  <2>4. s + h <= MaxConnections /\ q + k <= MaxQuic /\ MaxConnections \in Nat /\ MaxQuic \in Nat
    BY <2>1 DEF CountInv, ConstantsOK
  <2> HIDE DEF s, q, h, k
  <2>5. s <= MaxConnections /\ q <= MaxQuic
    BY <2>2, <2>3, <2>4
  <2> QED
    BY <2>5 DEF LimitsHold, s, q
<1> QED
  BY <1>1, ProcessInvariant, PTL

(* A thread that found the server full and sleeps without listening has a   *)
(* notification pending as soon as there is room: between the reading of    *)
(* the counter in update_listener_state and the poll nothing is lost.       *)
THEOREM DeafThreadsAreWoken == ConstantsOK => (Spec => []NobodyStaysDeaf)
<1> SUFFICES ASSUME ConstantsOK PROVE Spec => []NobodyStaysDeaf
  OBVIOUS
<1>1. IInv => NobodyStaysDeaf
  BY DEF IInv, MidInv, WakeInv, NobodyStaysDeaf, Pc
<1> QED
  BY <1>1, ProcessInvariant, PTL

(* A server that was told to end and has no connection left has a thread    *)
(* that will see it: not all of them sleep.                                 *)
THEOREM TheLastOneLeaves == ConstantsOK => (Spec => []LastOneLeaves)
<1> SUFFICES ASSUME ConstantsOK PROVE Spec => []LastOneLeaves
  OBVIOUS
<1>1. IInv => LastOneLeaves
  BY DEF IInv, EndInv, LastOneLeaves, Polling, Pc, Polls
<1> QED
  BY <1>1, ProcessInvariant, PTL

(* The semaphore of ocsp_updater_thread bounds the fetches, and after a     *)
(* permanent error no response is served.                                   *)
THEOREM FetchesAreBounded == ConstantsOK => (Spec => []OcspIsBounded)
<1> SUFFICES ASSUME ConstantsOK PROVE Spec => []OcspIsBounded
  OBVIOUS
<1>1. IInv => OcspIsBounded
  <2> SUFFICES ASSUME IInv PROVE OcspIsBounded
    OBVIOUS
  <2> DEFINE n == Cardinality(Fetching(sv.ocsp))
  <2>1. OcspInv(sv.sem, sv.ocsp) /\ sv.sem \in Int /\ OcspCapacity \in Nat
    BY DEF IInv, MidInv, State, ConstantsOK
  <2>2. n \in Nat
    BY FetchingIsFinite
  <2>3. sv.sem = -1 => n = 0
    BY <2>1, FS_EmptySet DEF OcspInv
  <2>4. sv.sem # -1 => sv.sem \in Nat /\ sv.sem + n = OcspCapacity
    BY <2>1 DEF OcspInv
  <2> HIDE DEF n
  <2>5. n <= OcspCapacity
    BY <2>1, <2>2, <2>3, <2>4
  <2>6. n = Cardinality({k \in Certs : sv.ocsp[k].pc = "fetch"})
    BY DEF n, Fetching
  <2>7. \A k \in Certs : sv.ocsp[k].pc = "done" => ~sv.ocsp[k].response
    BY <2>1 DEF OcspInv
  <2> QED
    BY <2>4, <2>5, <2>6, <2>7 DEF OcspIsBounded, Raised
<1> QED
  BY <1>1, ProcessInvariant, PTL
================================================================================
