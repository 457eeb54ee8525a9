---------------------------- MODULE ThreadsProofs ----------------------------
(***************************************************************************)
(* The threads behind an event loop, for any number of requests, of        *)
(* connections to memcached and of lookup threads: a request is given back *)
(* once and not touched afterwards, whichever of the queues, threads and   *)
(* callbacks it passes through; a message wakes the loop; and no lookup    *)
(* thread sleeps on a name.                                                *)
(*                                                                         *)
(* The argument: every request is in one place at a time.  PlaceInv says   *)
(* so with a function `at` that no variable holds: whoever has a request   *)
(* in a list or in its hands is the place that `at` gives, and a request   *)
(* that is anywhere has not been freed.                                    *)
(***************************************************************************)
EXTENDS Threads, TLAPS, FiniteSetTheorems

Requests == [st : {"idle", "live", "freed"}, cb : BOOLEAN, calls : Nat]
Reports_ == [cur : Nat, timer : {"none", "linked", "fired"}, data : Nat, told : Nat]
ReaderPlaces == {"connect", "count", "recv", "flush", "stop", "broadcast", "join", "discard"}
WriterPlaces == {"none", "start", "wait", "woken", "relock", "insert", "send", "gone"}
LookupPlaces == {"none", "woken", "wait", "lookup", "relock"}

State ==
    [scene : Scenes, failed : SUBSET KnownFailures, breaks : Nat, errors : Nat,
     msgs : [Receivers -> Seq(Ids)], active : Seq(Receivers), unsent : Nat, efd : BOOLEAN, loop : {"poll", "queue"} \cup Receivers,
     batch : Seq(Ids), req : [Ids -> Requests],
     pending : Seq(Gets \cup Sets), connected : Int, rd : [Conns -> ReaderPlaces], wr : [Conns -> WriterPlaces],
     held : [Conns -> Ids \cup {0}], inflight : [Conns -> Seq(Gets)], wire : [Conns -> Seq(Gets)],
     exit : [Conns -> BOOLEAN], broken : [Conns -> BOOLEAN], lost : SUBSET Ids,
     names : Seq(Names), idle : Int, lt : [Lookups -> LookupPlaces], looked : [Lookups -> Ids \cup {0}], rep : Reports_]

Distinct(s) == \A i, j \in DOMAIN s : s[i] = s[j] => i = j
Place(kind, owner) == <<kind, owner>>
Nowhere == Place("nowhere", 0)
Pending == Place("pending", 0)
Named == Place("names", 0)
Batch == Place("batch", 0)

(* s is a list of requests that are at p. *)
Queued(s, at, p) == Distinct(s) /\ \A k \in 1 .. Len(s) : at[s[k]] = p
(* The writer of connection i has a request that nobody else knows of. *)
Holds(c, i) == c.wr[i] = "insert" \/ (c.wr[i] = "send" /\ c.held[i] \in Sets)
Held(c, i, at) == Holds(c, i) => c.held[i] \in Ids /\ at[c.held[i]] = Place("held", i)
Looked(c, t, at) == c.lt[t] = "lookup" => c.looked[t] \in Ids /\ at[c.looked[t]] = Place("looked", t)

PlaceInv(c, at) ==
    /\ Queued(c.pending, at, Pending) /\ Queued(c.names, at, Named) /\ Queued(c.batch, at, Batch)
    /\ \A rcv \in Receivers : Queued(c.msgs[rcv], at, Place("queue", rcv))
    /\ \A i \in Conns : Queued(c.inflight[i], at, Place("inflight", i)) /\ Held(c, i, at)
    /\ \A t \in Lookups : Looked(c, t, at)
    /\ \A r \in Ids : at[r] # Nowhere => Live(c, r)

(* A connection: its reader flushes only what is broken; while it is not    *)
(* broken, every answer on the wire, and the one to the request that is     *)
(* being sent, will find its request.                                       *)
ConnInv1(c, i) ==
    /\ c.rd[i] = "flush" => c.broken[i]
    /\ c.wr[i] = "insert" => c.held[i] \in Gets
    /\ c.wr[i] = "send" => c.held[i] \in Gets \cup Sets
    /\ ~c.broken[i] =>
          /\ Distinct(c.wire[i]) /\ \A k \in 1 .. Len(c.wire[i]) : In(c.wire[i][k], c.inflight[i])
          /\ c.wr[i] = "send" /\ c.held[i] \in Gets => In(c.held[i], c.inflight[i]) /\ ~In(c.held[i], c.wire[i])
ConnInv(c) == \A i \in Conns : ConnInv1(c, i)

(* The receivers with messages are those the loop will go over, and it will *)
(* wake up for them.                                                        *)
QueueInv(c) ==
    /\ Distinct(c.active) /\ \A rcv \in Receivers : In(rcv, c.active) <=> c.msgs[rcv] # <<>>
    /\ c.active # <<>> => c.efd \/ c.unsent > 0 \/ c.loop # "poll"

(* While a lookup thread sleeps, every name has a thread of its own that    *)
(* comes for it; and when none comes, all are busy.                         *)
Idle(lt) == {t \in Lookups : lt[t] \in {"wait", "woken"}}
Coming(lt) == {t \in Lookups : lt[t] \in {"woken", "relock"}}
HalfPool(lt, idle, names) ==
    /\ idle = Cardinality(Idle(lt))
    /\ (\E t \in Lookups : lt[t] = "wait") => names <= Cardinality(Coming(lt))
Pool(lt, idle, names) ==
    /\ HalfPool(lt, idle, names)
    /\ names > 0 /\ Coming(lt) = {} => \A t \in Lookups : lt[t] = "lookup"
PoolInv(c) == Pool(c.lt, c.idle, Len(c.names))

RepInv(c) == c.rep.told + c.rep.cur = c.errors /\ (c.rep.cur > 0 <=> c.rep.timer # "none")
ReqInv(c) == \A r \in Ids : c.req[r].calls <= 1 /\ (c.req[r].cb => c.req[r].calls = 0)

Inv(c) ==
    /\ c \in State /\ ReqInv(c) /\ ConnInv(c) /\ QueueInv(c) /\ PoolInv(c) /\ RepInv(c)
    /\ \E at : PlaceInv(c, at)
IInv == Inv(th)

(* What parts of the state a step leaves alone. *)
SameRest(c, d) == d.scene = c.scene /\ d.failed = c.failed /\ d.breaks = c.breaks
SameRep(c, d) == d.rep = c.rep /\ d.errors = c.errors
SameQueues(c, d) == d.msgs = c.msgs /\ d.active = c.active /\ d.unsent = c.unsent /\ d.efd = c.efd /\ d.loop = c.loop
SameThreads(c, d) ==
    /\ d.rd = c.rd /\ d.wr = c.wr /\ d.held = c.held /\ d.inflight = c.inflight /\ d.wire = c.wire /\ d.broken = c.broken
    /\ d.exit = c.exit /\ d.lost = c.lost
SameConns(c, d) == SameThreads(c, d) /\ d.pending = c.pending /\ d.connected = c.connected
SamePool(c, d) == d.names = c.names /\ d.idle = c.idle /\ d.lt = c.lt /\ d.looked = c.looked

-----------------------------------------------------------------------------
(* Sequences and places.                                                   *)

LEMMA PlaceInjective ==
    ASSUME NEW k, NEW o, NEW l, NEW p, Place(k, o) = Place(l, p)
    PROVE  k = l /\ o = p
BY DEF Place

LEMMA Apart ==
    ASSUME NEW o, NEW p
    PROVE
           /\ Nowhere # Pending /\ Nowhere # Named /\ Nowhere # Batch /\ Nowhere # Place("queue", p) /\ Nowhere # Place("inflight", p) /\ Nowhere # Place("held", p) /\ Nowhere # Place("looked", p)
           /\ Pending # Named /\ Pending # Batch /\ Pending # Place("queue", p) /\ Pending # Place("inflight", p) /\ Pending # Place("held", p) /\ Pending # Place("looked", p)
           /\ Named # Batch /\ Named # Place("queue", p) /\ Named # Place("inflight", p) /\ Named # Place("held", p) /\ Named # Place("looked", p)
           /\ Batch # Place("queue", p) /\ Batch # Place("inflight", p) /\ Batch # Place("held", p) /\ Batch # Place("looked", p)
           /\ Place("queue", o) # Place("inflight", p) /\ Place("queue", o) # Place("held", p) /\ Place("queue", o) # Place("looked", p)
           /\ Place("inflight", o) # Place("held", p) /\ Place("inflight", o) # Place("looked", p)
           /\ Place("held", o) # Place("looked", p)
           /\ Place("queue", o) = Place("queue", p) => o = p
           /\ Place("inflight", o) = Place("inflight", p) => o = p
           /\ Place("held", o) = Place("held", p) => o = p
           /\ Place("looked", o) = Place("looked", p) => o = p
BY PlaceInjective DEF Nowhere, Pending, Named, Batch

LEMMA TailOf ==
    ASSUME NEW S, NEW s \in Seq(S), s # <<>>
    PROVE  /\ Tail(s) \in Seq(S) /\ Len(s) \in Nat /\ Len(s) >= 1 /\ Len(Tail(s)) = Len(s) - 1 /\ Head(s) = s[1] /\ Head(s) \in S
           /\ \A i \in 1 .. Len(s) - 1 : Tail(s)[i] = s[i + 1]
<1>1. Len(s) \in Nat /\ Len(s) # 0
  OBVIOUS
<1> QED
  BY <1>1

LEMMA AppendTo ==
    ASSUME NEW S, NEW s \in Seq(S), NEW x \in S
    PROVE  /\ Append(s, x) \in Seq(S) /\ Len(s) \in Nat /\ Len(Append(s, x)) = Len(s) + 1 /\ Append(s, x)[Len(s) + 1] = x
           /\ \A i \in 1 .. Len(s) : Append(s, x)[i] = s[i]
OBVIOUS

\* What is in a list: the elements with an index up to its length.
LEMMA InOf ==
    ASSUME NEW S, NEW s \in Seq(S), NEW x
    PROVE  /\ In(x, s) <=> \E k \in 1 .. Len(s) : s[k] = x
           /\ Len(s) \in Nat /\ DOMAIN s = 1 .. Len(s) /\ \A k \in 1 .. Len(s) : s[k] \in S
BY DEF In

LEMMA InAppend ==
    ASSUME NEW S, NEW s \in Seq(S), NEW x \in S, NEW y
    PROVE  In(y, Append(s, x)) <=> In(y, s) \/ y = x
<1> DEFINE a == Append(s, x)
<1>1. a \in Seq(S) /\ Len(s) \in Nat /\ Len(a) = Len(s) + 1 /\ a[Len(s) + 1] = x /\ \A i \in 1 .. Len(s) : a[i] = s[i]
  BY AppendTo
<1> HIDE DEF a
<1>2. (In(y, s) <=> \E k \in 1 .. Len(s) : s[k] = y) /\ (In(y, a) <=> \E k \in 1 .. Len(a) : a[k] = y)
  BY <1>1, InOf
<1>3. \A k \in 1 .. Len(a) : k \in 1 .. Len(s) \/ k = Len(s) + 1
  BY <1>1
<1>4. 1 .. Len(s) \subseteq 1 .. Len(a) /\ Len(s) + 1 \in 1 .. Len(a)
  BY <1>1
<1>5. In(y, a) => In(y, s) \/ y = x
  BY <1>1, <1>2, <1>3
<1>6. In(y, s) \/ y = x => In(y, a)
  BY <1>1, <1>2, <1>4
<1> QED
  BY <1>5, <1>6 DEF a

\* Of a list without repetitions the tail has what the head is not.
LEMMA InTail ==
    ASSUME NEW S, NEW s \in Seq(S), s # <<>>, Distinct(s)
    PROVE  Distinct(Tail(s)) /\ \A y : In(y, Tail(s)) <=> In(y, s) /\ y # Head(s)
<1> DEFINE t == Tail(s)
           n == Len(s) - 1
<1>1. t \in Seq(S) /\ n \in Nat /\ Len(s) = n + 1 /\ Len(t) = n /\ Head(s) = s[1] /\ \A i \in 1 .. n : t[i] = s[i + 1]
  BY TailOf
<1>2. \A i, j \in 1 .. n + 1 : s[i] = s[j] => i = j
  BY <1>1 DEF Distinct
<1>3. DOMAIN t = 1 .. n /\ DOMAIN s = 1 .. n + 1
  BY <1>1
<1> HIDE DEF t, n
<1>4. \A i \in 1 .. n : i + 1 \in 1 .. n + 1 /\ i + 1 # 1
  BY <1>1
<1>5. Distinct(t)
  <2> SUFFICES ASSUME NEW i \in 1 .. n, NEW j \in 1 .. n, t[i] = t[j] PROVE i = j
    BY <1>3 DEF Distinct
  <2>0. t[i] = s[i + 1] /\ t[j] = s[j + 1]
    BY <1>1
  <2>1. s[i + 1] = s[j + 1] /\ i + 1 \in 1 .. n + 1 /\ j + 1 \in 1 .. n + 1
    BY <2>0, <1>4
  <2>2. i + 1 = j + 1
    BY <2>1, <1>2
  <2> QED
    BY <2>2, <1>1
<1>6. ASSUME NEW y PROVE In(y, t) <=> In(y, s) /\ y # Head(s)
  <2>1. (In(y, t) <=> \E k \in 1 .. n : t[k] = y) /\ (In(y, s) <=> \E k \in 1 .. n + 1 : s[k] = y)
    BY <1>3 DEF In
  <2>2. ASSUME NEW k \in 1 .. n, t[k] = y PROVE In(y, s) /\ y # Head(s)
    <3>1. s[k + 1] = y /\ k + 1 \in 1 .. n + 1 /\ k + 1 # 1 /\ 1 \in 1 .. n + 1
      BY <2>2, <1>1, <1>4
    <3> QED
      BY <3>1, <2>1, <1>1, <1>2
  <2>3. ASSUME NEW k \in 1 .. n + 1, s[k] = y, y # s[1] PROVE In(y, t)
    <3>1. k # 1
      BY <2>3
    <3>2. k - 1 \in 1 .. n /\ (k - 1) + 1 = k
      BY <3>1, <1>1
    <3>3. t[k - 1] = s[(k - 1) + 1]
      BY <3>2, <1>1
    <3> QED
      BY <2>1, <2>3, <3>2, <3>3
  <2> QED
    BY <2>1, <2>2, <2>3, <1>1
<1> QED
  BY <1>5, <1>6 DEF t

LEMMA InWithout ==
    ASSUME NEW S, NEW s \in Seq(S), NEW x, In(x, s), Distinct(s)
    PROVE  Without(s, x) \in Seq(S) /\ Distinct(Without(s, x)) /\ \A y : In(y, Without(s, x)) <=> In(y, s) /\ y # x
<1> DEFINE w == Without(s, x)
           n == Len(s)
           m == CHOOSE i \in DOMAIN s : s[i] = x
<1>1. n \in Nat /\ DOMAIN s = 1 .. n /\ (\A i \in 1 .. n : s[i] \in S) /\ \A i, j \in 1 .. n : s[i] = s[j] => i = j
  BY DEF Distinct
<1>2. m \in 1 .. n /\ s[m] = x
  BY <1>1 DEF In
<1>3. w = [i \in 1 .. n - 1 |-> IF i < m THEN s[i] ELSE s[i + 1]]
  BY DEF Without
<1> HIDE DEF w, n, m
<1>4. n - 1 \in Nat /\ \A i \in 1 .. n - 1 : i \in 1 .. n /\ i + 1 \in 1 .. n
  BY <1>1, <1>2
<1>5. \A i \in 1 .. n - 1 : w[i] = IF i < m THEN s[i] ELSE s[i + 1]
  BY <1>3
<1>6. \A i \in 1 .. n - 1 : w[i] \in S
  BY <1>1, <1>4, <1>5
<1>7. w \in Seq(S) /\ Len(w) = n - 1 /\ DOMAIN w = 1 .. n - 1
  BY <1>3, <1>4, <1>6
<1>8. Distinct(w)
  <2> SUFFICES ASSUME NEW i \in 1 .. n - 1, NEW j \in 1 .. n - 1, w[i] = w[j] PROVE i = j
    BY <1>7 DEF Distinct
  <2> DEFINE a == IF i < m THEN i ELSE i + 1
             b == IF j < m THEN j ELSE j + 1
  <2>1. a \in 1 .. n /\ b \in 1 .. n /\ w[i] = s[a] /\ w[j] = s[b]
    BY <1>4, <1>5
  <2>2. a = b
    <3> HIDE DEF a, b
    <3> QED
      BY <2>1, <1>1
  <2> QED
    BY <2>2, <1>1, <1>2
<1>9. ASSUME NEW y PROVE In(y, w) <=> In(y, s) /\ y # x
  <2>1. (In(y, w) <=> \E k \in 1 .. n - 1 : w[k] = y) /\ (In(y, s) <=> \E k \in 1 .. n : s[k] = y)
    BY <1>1, <1>7, InOf DEF In
  <2>2. ASSUME NEW k \in 1 .. n - 1, w[k] = y PROVE In(y, s) /\ y # x
    <3> DEFINE a == IF k < m THEN k ELSE k + 1
    <3>1. a \in 1 .. n /\ a # m /\ y = s[a]
      BY <2>2, <1>1, <1>2, <1>4, <1>5
    <3> HIDE DEF a
    <3> QED
      BY <3>1, <2>1, <1>1, <1>2
  <2>3. ASSUME NEW k \in 1 .. n, s[k] = y, y # x PROVE In(y, w)
    <3> DEFINE a == IF k < m THEN k ELSE k - 1
    <3>0. k # m
      BY <2>3, <1>2
    <3>1. a \in 1 .. n - 1 /\ (IF a < m THEN a ELSE a + 1) = k
      BY <3>0, <1>1, <1>2
    <3> HIDE DEF a
    <3>2. w[a] = s[k]
      BY <3>1, <1>5
    <3> QED
      BY <2>1, <2>3, <3>1, <3>2
  <2> QED
    BY <2>1, <2>2, <2>3
<1> QED
  BY <1>7, <1>8, <1>9 DEF w

LEMMA AppendDistinct ==
    ASSUME NEW S, NEW s \in Seq(S), NEW x \in S, Distinct(s), ~In(x, s)
    PROVE  Distinct(Append(s, x))
<1> DEFINE a == Append(s, x)
           n == Len(s)
<1>1. a \in Seq(S) /\ n \in Nat /\ Len(a) = n + 1 /\ a[n + 1] = x /\ \A i \in 1 .. n : a[i] = s[i]
  BY AppendTo
<1>2. DOMAIN a = 1 .. n + 1
  BY <1>1
<1>3. (\A i, j \in 1 .. n : s[i] = s[j] => i = j) /\ \A i \in 1 .. n : s[i] # x
  BY DEF Distinct, In
<1> HIDE DEF a, n
<1>4. \A i \in 1 .. n + 1 : i \in 1 .. n \/ i = n + 1
  BY <1>1
<1>5. ASSUME NEW i \in 1 .. n + 1, NEW j \in 1 .. n + 1, a[i] = a[j] PROVE i = j
  <2>1. CASE i = n + 1 /\ j = n + 1
    BY <2>1
  <2>2. CASE i \in 1 .. n /\ j \in 1 .. n
    BY <2>2, <1>1, <1>3, <1>5
  <2>3. ~(i \in 1 .. n /\ j = n + 1) /\ ~(j \in 1 .. n /\ i = n + 1)
    BY <1>1, <1>3, <1>5
  <2> QED
    BY <2>1, <2>2, <2>3, <1>4
<1>6. Distinct(a)
  BY <1>2, <1>5 DEF Distinct
<1> QED
  BY <1>6 DEF a

-----------------------------------------------------------------------------
(* A request moves.                                                        *)

Moved(at, r, p) == [x \in Ids |-> IF x = r THEN p ELSE at[x]]

\* A list in terms of what is in it.
LEMMA QueuedIn ==
    ASSUME NEW S \in SUBSET Ids, NEW s \in Seq(S), NEW at, NEW p
    PROVE  Queued(s, at, p) <=> Distinct(s) /\ \A y \in Ids : In(y, s) => at[y] = p
<1>1. \A y : In(y, s) <=> \E k \in 1 .. Len(s) : s[k] = y
  BY InOf
<1>2. \A k \in 1 .. Len(s) : s[k] \in Ids
  BY InOf
<1> QED
  BY <1>1, <1>2 DEF Queued

\* The lists it is not in do not notice.
LEMMA QueuedOther ==
    ASSUME NEW S \in SUBSET Ids, NEW s \in Seq(S), NEW at, NEW p, Queued(s, at, p), NEW r, NEW q, at[r] # p
    PROVE  Queued(s, Moved(at, r, q), p) /\ ~In(r, s)
<1>1. Distinct(s) /\ \A y \in Ids : In(y, s) => at[y] = p
  BY QueuedIn
<1>2. In(r, s) => r \in Ids
  BY InOf
<1>3. ~In(r, s)
  BY <1>1, <1>2
<1>4. \A y \in Ids : In(y, s) => Moved(at, r, q)[y] = p
  BY <1>1, <1>3 DEF Moved
<1> QED
  BY <1>1, <1>3, <1>4, QueuedIn

LEMMA QueuedAppend ==
    ASSUME NEW S \in SUBSET Ids, NEW s \in Seq(S), NEW at, NEW p, Queued(s, at, p), NEW r \in S, at[r] # p
    PROVE  Queued(Append(s, r), Moved(at, r, p), p) /\ Append(s, r) \in Seq(S) /\ Append(s, r) # <<>>
<1> DEFINE a == Append(s, r)
<1>0. Distinct(s)
  BY DEF Queued
<1>1. Queued(s, Moved(at, r, p), p) /\ ~In(r, s) /\ Distinct(s)
  BY <1>0, QueuedOther
<1>2. a \in Seq(S) /\ a # <<>> /\ Distinct(a) /\ \A y : In(y, a) <=> In(y, s) \/ y = r
  BY <1>1, AppendTo, InAppend, AppendDistinct
<1>3. \A y \in Ids : In(y, a) => Moved(at, r, p)[y] = p
  <2>1. \A y \in Ids : In(y, s) => Moved(at, r, p)[y] = p
    BY <1>1, QueuedIn
  <2>2. Moved(at, r, p)[r] = p
    BY DEF Moved
  <2> HIDE DEF a
  <2> QED
    BY <1>2, <2>1, <2>2
<1> HIDE DEF a
<1>4. Queued(a, Moved(at, r, p), p)
  BY <1>2, <1>3, QueuedIn
<1> QED
  BY <1>2, <1>4 DEF a

LEMMA QueuedTail ==
    ASSUME NEW S \in SUBSET Ids, NEW s \in Seq(S), s # <<>>, NEW at, NEW p, Queued(s, at, p), NEW q
    PROVE  /\ Queued(Tail(s), Moved(at, Head(s), q), p) /\ Tail(s) \in Seq(S) /\ ~In(Head(s), Tail(s)) /\ Head(s) \in S /\ at[Head(s)] = p
           /\ \A y : In(y, Tail(s)) <=> In(y, s) /\ y # Head(s)
<1>1. Distinct(s) /\ \A y \in Ids : In(y, s) => at[y] = p
  BY QueuedIn
<1>2. Tail(s) \in Seq(S) /\ Head(s) \in S /\ Head(s) = s[1] /\ 1 \in 1 .. Len(s)
  BY TailOf
<1>3. In(Head(s), s)
  BY <1>2, InOf
<1>4. Distinct(Tail(s)) /\ \A y : In(y, Tail(s)) <=> In(y, s) /\ y # Head(s)
  BY <1>1, InTail
<1>5. \A y \in Ids : In(y, Tail(s)) => Moved(at, Head(s), q)[y] = p
  BY <1>1, <1>4 DEF Moved
<1> QED
  BY <1>1, <1>2, <1>3, <1>4, <1>5, QueuedIn

LEMMA QueuedWithout ==
    ASSUME NEW S \in SUBSET Ids, NEW s \in Seq(S), NEW at, NEW p, Queued(s, at, p), NEW r, In(r, s), NEW q
    PROVE  /\ Queued(Without(s, r), Moved(at, r, q), p) /\ Without(s, r) \in Seq(S) /\ ~In(r, Without(s, r)) /\ at[r] = p /\ r \in S
           /\ \A y : In(y, Without(s, r)) <=> In(y, s) /\ y # r
<1>1. Distinct(s) /\ \A y \in Ids : In(y, s) => at[y] = p
  BY QueuedIn
<1>2. r \in S
  BY InOf
<1>3. Without(s, r) \in Seq(S) /\ Distinct(Without(s, r)) /\ \A y : In(y, Without(s, r)) <=> In(y, s) /\ y # r
  BY <1>1, InWithout
<1>4. \A y \in Ids : In(y, Without(s, r)) => Moved(at, r, q)[y] = p
  BY <1>1, <1>3 DEF Moved
<1> QED
  BY <1>1, <1>2, <1>3, <1>4, QueuedIn

\* One request is moved: whoever has it gives it away, whoever gets it has it, and the others do not notice.
Hands(c, d, at, M, r) ==
    /\ Queued(d.pending, M, Pending) \/ (d.pending = c.pending /\ at[r] # Pending)
    /\ Queued(d.names, M, Named) \/ (d.names = c.names /\ at[r] # Named)
    /\ Queued(d.batch, M, Batch) \/ (d.batch = c.batch /\ at[r] # Batch)
    /\ \A rcv \in Receivers : Queued(d.msgs[rcv], M, Place("queue", rcv)) \/ (d.msgs[rcv] = c.msgs[rcv] /\ at[r] # Place("queue", rcv))
    /\ \A i \in Conns : Queued(d.inflight[i], M, Place("inflight", i)) \/ (d.inflight[i] = c.inflight[i] /\ at[r] # Place("inflight", i))
    /\ \A i \in Conns : Held(d, i, M) \/ (d.wr[i] = c.wr[i] /\ d.held[i] = c.held[i] /\ at[r] # Place("held", i))
    /\ \A t \in Lookups : Looked(d, t, M) \/ (d.lt[t] = c.lt[t] /\ d.looked[t] = c.looked[t] /\ at[r] # Place("looked", t))

LEMMA MoveKeeps ==
    ASSUME NEW c \in State, NEW d \in State, NEW at, PlaceInv(c, at), NEW r \in Ids, NEW q, NEW M, M = Moved(at, r, q), Hands(c, d, at, M, r),
           \A x \in Ids : x # r => d.req[x] = c.req[x], q # Nowhere => Live(d, r)
    PROVE  PlaceInv(d, M)
<1>0. /\ Queued(d.pending, M, Pending) \/ (d.pending = c.pending /\ at[r] # Pending)
      /\ Queued(d.names, M, Named) \/ (d.names = c.names /\ at[r] # Named)
      /\ Queued(d.batch, M, Batch) \/ (d.batch = c.batch /\ at[r] # Batch)
      /\ \A rcv \in Receivers : Queued(d.msgs[rcv], M, Place("queue", rcv)) \/ (d.msgs[rcv] = c.msgs[rcv] /\ at[r] # Place("queue", rcv))
      /\ \A i \in Conns : Queued(d.inflight[i], M, Place("inflight", i)) \/ (d.inflight[i] = c.inflight[i] /\ at[r] # Place("inflight", i))
      /\ \A i \in Conns : Held(d, i, M) \/ (d.wr[i] = c.wr[i] /\ d.held[i] = c.held[i] /\ at[r] # Place("held", i))
      /\ \A t \in Lookups : Looked(d, t, M) \/ (d.lt[t] = c.lt[t] /\ d.looked[t] = c.looked[t] /\ at[r] # Place("looked", t))
  BY DEF Hands
<1>1. /\ c.pending \in Seq(Gets \cup Sets) /\ c.names \in Seq(Names) /\ c.batch \in Seq(Ids) /\ (\A rcv \in Receivers : c.msgs[rcv] \in Seq(Ids))
      /\ \A i \in Conns : c.inflight[i] \in Seq(Gets)
  BY DEF State
<1>2. Gets \cup Sets \in SUBSET Ids /\ Names \in SUBSET Ids /\ Gets \in SUBSET Ids /\ Ids \in SUBSET Ids
  BY DEF Ids
<1>3. /\ Queued(c.pending, at, Pending) /\ Queued(c.names, at, Named) /\ Queued(c.batch, at, Batch)
      /\ \A rcv \in Receivers : Queued(c.msgs[rcv], at, Place("queue", rcv))
      /\ \A i \in Conns : Queued(c.inflight[i], at, Place("inflight", i)) /\ Held(c, i, at)
      /\ \A t \in Lookups : Looked(c, t, at)
      /\ \A x \in Ids : at[x] # Nowhere => Live(c, x)
  BY DEF PlaceInv
<1>4. Queued(d.pending, M, Pending)
  BY <1>0, <1>1, <1>2, <1>3, QueuedOther
<1>5. Queued(d.names, M, Named)
  BY <1>0, <1>1, <1>2, <1>3, QueuedOther
<1>6. Queued(d.batch, M, Batch)
  BY <1>0, <1>1, <1>2, <1>3, QueuedOther
<1>7. ASSUME NEW rcv \in Receivers PROVE Queued(d.msgs[rcv], M, Place("queue", rcv))
  <2>1. c.msgs[rcv] \in Seq(Ids) /\ Queued(c.msgs[rcv], at, Place("queue", rcv))
    BY <1>1, <1>3
  <2>2. CASE d.msgs[rcv] = c.msgs[rcv] /\ at[r] # Place("queue", rcv)
    BY <2>1, <2>2, <1>2, QueuedOther
  <2> QED
    BY <2>2, <1>0
<1>8. ASSUME NEW i \in Conns PROVE Queued(d.inflight[i], M, Place("inflight", i))
  <2>1. c.inflight[i] \in Seq(Gets) /\ Queued(c.inflight[i], at, Place("inflight", i))
    BY <1>1, <1>3
  <2>2. CASE d.inflight[i] = c.inflight[i] /\ at[r] # Place("inflight", i)
    BY <2>1, <2>2, <1>2, QueuedOther
  <2> QED
    BY <2>2, <1>0
<1>9. \A i \in Conns : Held(d, i, M)
  BY <1>0, <1>3 DEF Held, Holds, Moved
<1>10. \A t \in Lookups : Looked(d, t, M)
  BY <1>0, <1>3 DEF Looked, Moved
<1>11. \A x \in Ids : M[x] # Nowhere => Live(d, x)
  BY <1>3 DEF Moved, Live
<1> QED
  BY <1>4, <1>5, <1>6, <1>7, <1>8, <1>9, <1>10, <1>11 DEF PlaceInv

-----------------------------------------------------------------------------
(* The message queue.                                                      *)

\* h2o_multithread_send_message
LEMMA Sends ==
    ASSUME NEW c \in State, QueueInv(c), NEW rcv \in Receivers, NEW r \in Ids, ~In(r, c.msgs[rcv])
    PROVE  LET d == SendMessage(c, rcv, r) IN
           /\ d \in State /\ QueueInv(d) /\ d.msgs[rcv] = Append(c.msgs[rcv], r) /\ \A o \in Receivers : o # rcv => d.msgs[o] = c.msgs[o]
           /\ SameRest(c, d) /\ SameRep(c, d) /\ SameConns(c, d) /\ SamePool(c, d) /\ d.batch = c.batch /\ d.req = c.req
           /\ d.efd = c.efd /\ d.loop = c.loop
<1> DEFINE m == c.msgs
           new == m[rcv] = <<>>
           M == [m EXCEPT ![rcv] = Append(@, r)]
           A == IF new THEN Append(c.active, rcv) ELSE c.active
           u == IF new THEN c.unsent + 1 ELSE c.unsent
           d == SendMessage(c, rcv, r)
<1>1. m \in [Receivers -> Seq(Ids)] /\ c.active \in Seq(Receivers) /\ c.unsent \in Nat
  BY DEF State
<1>2. m[rcv] \in Seq(Ids) /\ Append(m[rcv], r) \in Seq(Ids) /\ Append(m[rcv], r) # <<>>
  <2>1. m[rcv] \in Seq(Ids)
    BY <1>1
  <2> HIDE DEF m
  <2> QED
    BY <2>1
<1>3. M \in [Receivers -> Seq(Ids)] /\ M[rcv] = Append(m[rcv], r) /\ \A o \in Receivers : o # rcv => M[o] = m[o]
  BY <1>1, <1>2
<1>4. new <=> ~In(rcv, c.active)
  BY DEF QueueInv
<1>5. A \in Seq(Receivers) /\ u \in Nat
  BY <1>1, AppendTo
<1>6. d = [c EXCEPT !.msgs = M, !.active = A, !.unsent = u]
  <2>1. CASE new
    <3>1. Append(m[rcv], r) = <<r>>
      BY <2>1
    <3>2. d = [c EXCEPT !.msgs[rcv] = <<r>>, !.active = Append(@, rcv), !.unsent = @ + 1]
      BY <2>1, <1>4 DEF SendMessage, Asserted
    <3> QED
      BY <2>1, <3>1, <3>2 DEF State
  <2>2. CASE ~new
    <3>1. d = [c EXCEPT !.msgs[rcv] = Append(@, r)]
      BY <2>2 DEF SendMessage, Asserted
    <3> QED
      BY <2>2, <3>1 DEF State
  <2> QED
    BY <2>1, <2>2
<1> HIDE DEF d, M, A, u
<1>7. /\ d \in State /\ d.msgs = M /\ d.active = A /\ d.unsent = u
      /\ d.batch = c.batch /\ d.req = c.req /\ d.efd = c.efd /\ d.loop = c.loop
  BY <1>3, <1>5, <1>6 DEF State
<1>8. SameRest(c, d) /\ SameRep(c, d) /\ SameConns(c, d) /\ SamePool(c, d)
  BY <1>6 DEF State, SameRest, SameRep, SameConns, SameThreads, SamePool
<1>9. QueueInv(d)
  <2>1. CASE new
    <3>1. A = Append(c.active, rcv) /\ u > 0 /\ ~In(rcv, c.active)
      BY <2>1, <1>1, <1>4 DEF A, u
    <3>2. Distinct(A)
      BY <3>1, <1>1, AppendDistinct DEF QueueInv
    <3>3. \A o \in Receivers : In(o, A) <=> In(o, c.active) \/ o = rcv
      BY <3>1, <1>1, InAppend
    <3>4. \A o \in Receivers : In(o, A) <=> M[o] # <<>>
      BY <3>3, <1>2, <1>3 DEF QueueInv
    <3> QED
      BY <3>1, <3>2, <3>4, <1>7 DEF QueueInv
  <2>2. CASE ~new
    <3>1. A = c.active /\ u = c.unsent
      BY <2>2 DEF A, u
    <3>2. \A o \in Receivers : In(o, A) <=> M[o] # <<>>
      BY <2>2, <3>1, <1>2, <1>3, <1>4 DEF QueueInv
    <3> QED
      BY <3>1, <3>2, <1>7 DEF QueueInv
  <2> QED
    BY <2>1, <2>2
<1> QED
  BY <1>3, <1>7, <1>8, <1>9 DEF d

-----------------------------------------------------------------------------
(* What a part of the invariant depends on.                                *)

LEMMA Kept ==
    ASSUME NEW c, NEW d
    PROVE  /\ RepInv(c) /\ SameRep(c, d) => RepInv(d)
           /\ QueueInv(c) /\ SameQueues(c, d) => QueueInv(d)
           /\ ConnInv(c) /\ SameThreads(c, d) => ConnInv(d)
           /\ PoolInv(c) /\ SamePool(c, d) => PoolInv(d)
           /\ ReqInv(c) /\ d.req = c.req => ReqInv(d)
<1>1. RepInv(c) /\ SameRep(c, d) => RepInv(d)
  BY DEF RepInv, SameRep
<1>2. QueueInv(c) /\ SameQueues(c, d) => QueueInv(d)
  BY DEF QueueInv, SameQueues
<1>3. ConnInv(c) /\ SameThreads(c, d) => ConnInv(d)
  BY DEF ConnInv, ConnInv1, SameThreads
<1>4. PoolInv(c) /\ SamePool(c, d) => PoolInv(d)
  BY DEF PoolInv, SamePool
<1>5. ReqInv(c) /\ d.req = c.req => ReqInv(d)
  BY DEF ReqInv
<1> QED
  BY <1>1, <1>2, <1>3, <1>4, <1>5

LEMMA KeptPlaces ==
    ASSUME NEW c, NEW d, NEW at, PlaceInv(c, at),
           d.pending = c.pending, d.batch = c.batch, d.msgs = c.msgs, d.inflight = c.inflight, d.wr = c.wr, d.held = c.held,
           d.names = c.names, d.lt = c.lt, d.looked = c.looked, d.req = c.req
    PROVE  PlaceInv(d, at)
BY DEF PlaceInv, Held, Holds, Looked, Live

LEMMA Parts ==
    ASSUME NEW c, Inv(c)
    PROVE  c \in State /\ ReqInv(c) /\ ConnInv(c) /\ QueueInv(c) /\ PoolInv(c) /\ RepInv(c) /\ \E at : PlaceInv(c, at)
BY DEF Inv

-----------------------------------------------------------------------------
(* The event loop.                                                         *)

LEMMA WriteEventfdStep ==
    ASSUME Inv(th), WriteEventfd
    PROVE  Inv(th')
<1> DEFINE c == th
           d == th'
<1>1. c.unsent > 0 /\ d = [c EXCEPT !.unsent = @ - 1, !.efd = TRUE]
  BY DEF WriteEventfd
<1>2. c \in State /\ ReqInv(c) /\ ConnInv(c) /\ QueueInv(c) /\ PoolInv(c) /\ RepInv(c)
  BY Parts
<1>3. PICK at : PlaceInv(c, at)
  BY Parts
<1> HIDE DEF c, d
<1>4. c.unsent \in Nat /\ c.unsent - 1 \in Nat
  BY <1>1, <1>2 DEF State
<1>5. /\ d \in State /\ d.msgs = c.msgs /\ d.active = c.active /\ d.efd = TRUE /\ d.loop = c.loop /\ d.batch = c.batch /\ d.req = c.req
      /\ d.pending = c.pending
  BY <1>1, <1>2, <1>4 DEF State
<1>6. SameRep(c, d) /\ SameThreads(c, d) /\ SamePool(c, d)
  BY <1>1, <1>2 DEF State, SameRep, SameThreads, SamePool
<1>7. ReqInv(d) /\ ConnInv(d) /\ PoolInv(d) /\ RepInv(d)
  BY <1>2, <1>5, <1>6, Kept
<1>8. QueueInv(d)
  BY <1>2, <1>5 DEF QueueInv
<1>9. PlaceInv(d, at)
  BY <1>3, <1>5, <1>6, KeptPlaces DEF SameThreads, SamePool
<1> QED
  BY <1>5, <1>7, <1>8, <1>9 DEF Inv, d

LEMMA OnReadStep ==
    ASSUME Inv(th), OnRead
    PROVE  Inv(th')
<1> DEFINE c == th
           d == th'
<1>1. d = [c EXCEPT !.efd = FALSE, !.loop = "queue"]
  BY DEF OnRead
<1>2. c \in State /\ ReqInv(c) /\ ConnInv(c) /\ QueueInv(c) /\ PoolInv(c) /\ RepInv(c)
  BY Parts
<1>3. PICK at : PlaceInv(c, at)
  BY Parts
<1> HIDE DEF c, d
<1>5. /\ d \in State /\ d.msgs = c.msgs /\ d.active = c.active /\ d.loop = "queue" /\ d.batch = c.batch /\ d.req = c.req
      /\ d.pending = c.pending
  BY <1>1, <1>2 DEF State
<1>6. SameRep(c, d) /\ SameThreads(c, d) /\ SamePool(c, d)
  BY <1>1, <1>2 DEF State, SameRep, SameThreads, SamePool
<1>7. ReqInv(d) /\ ConnInv(d) /\ PoolInv(d) /\ RepInv(d)
  BY <1>2, <1>5, <1>6, Kept
<1>8. QueueInv(d)
  BY <1>2, <1>5 DEF QueueInv
<1>9. PlaceInv(d, at)
  BY <1>3, <1>5, <1>6, KeptPlaces DEF SameThreads, SamePool
<1> QED
  BY <1>5, <1>7, <1>8, <1>9 DEF Inv, d

\* The messages of a receiver are now the batch.
LEMMA QueueCbStep ==
    ASSUME Inv(th), QueueCb
    PROVE  Inv(th')
<1> DEFINE c == th
           d == th'
           rcv == Head(c.active)
           M == [c.msgs EXCEPT ![rcv] = <<>>]
<1>2. c \in State /\ ReqInv(c) /\ ConnInv(c) /\ QueueInv(c) /\ PoolInv(c) /\ RepInv(c)
  BY Parts
<1>3. PICK at : PlaceInv(c, at)
  BY Parts
<1>4. CASE c.active = <<>>
  <2>1. d = [c EXCEPT !.loop = "poll"]
    BY <1>4 DEF QueueCb
  <2> HIDE DEF c, d
  <2>2. /\ d \in State /\ d.msgs = c.msgs /\ d.active = c.active /\ d.batch = c.batch /\ d.req = c.req /\ d.pending = c.pending
    BY <1>2, <2>1 DEF State
  <2>3. SameRep(c, d) /\ SameThreads(c, d) /\ SamePool(c, d)
    BY <1>2, <2>1 DEF State, SameRep, SameThreads, SamePool
  <2>4. ReqInv(d) /\ ConnInv(d) /\ PoolInv(d) /\ RepInv(d)
    BY <1>2, <2>2, <2>3, Kept
  <2>5. QueueInv(d)
    BY <1>2, <1>4, <2>2 DEF QueueInv
  <2>6. PlaceInv(d, at)
    BY <1>3, <2>2, <2>3, KeptPlaces DEF SameThreads, SamePool
  <2> QED
    BY <2>2, <2>4, <2>5, <2>6 DEF Inv, d
<1>5. CASE c.active # <<>>
  <2>1. d = [c EXCEPT !.loop = rcv, !.batch = c.msgs[rcv], !.msgs[rcv] = <<>>, !.active = Tail(@)]
    BY <1>5 DEF QueueCb
  <2>2. c.active \in Seq(Receivers) /\ c.msgs \in [Receivers -> Seq(Ids)]
    BY <1>2 DEF State
  <2>3. Tail(c.active) \in Seq(Receivers) /\ rcv \in Receivers
    BY <1>5, <2>2, TailOf
  <2>4. Distinct(Tail(c.active)) /\ \A o : In(o, Tail(c.active)) <=> In(o, c.active) /\ o # rcv
    BY <1>2, <1>5, <2>2, InTail DEF QueueInv
  <2> HIDE DEF rcv
  <2>5. M \in [Receivers -> Seq(Ids)] /\ M[rcv] = <<>> /\ (\A o \in Receivers : o # rcv => M[o] = c.msgs[o]) /\ c.msgs[rcv] \in Seq(Ids)
    BY <2>2, <2>3
  <2>6. d = [c EXCEPT !.loop = rcv, !.batch = c.msgs[rcv], !.msgs = M, !.active = Tail(c.active)]
    BY <1>2, <2>1 DEF State
  <2> HIDE DEF c, d, M
  <2>7. /\ d \in State /\ d.msgs = M /\ d.active = Tail(c.active) /\ d.loop = rcv /\ d.batch = c.msgs[rcv] /\ d.req = c.req
        /\ d.pending = c.pending
    BY <1>2, <2>3, <2>5, <2>6 DEF State
  <2>8. SameRep(c, d) /\ SameThreads(c, d) /\ SamePool(c, d)
    BY <1>2, <2>6 DEF State, SameRep, SameThreads, SamePool
  <2>9. ReqInv(d) /\ ConnInv(d) /\ PoolInv(d) /\ RepInv(d)
    BY <1>2, <2>7, <2>8, Kept
  <2>10. QueueInv(d)
    <3>1. \A o \in Receivers : In(o, d.active) <=> d.msgs[o] # <<>>
      BY <1>2, <2>4, <2>5, <2>7 DEF QueueInv
    <3>2. d.loop # "poll"
      BY <2>3, <2>7 DEF Receivers
    <3> QED
      BY <3>1, <3>2, <2>4, <2>7 DEF QueueInv
  <2> DEFINE A == [x \in Ids |-> IF at[x] = Place("queue", rcv) THEN Batch ELSE IF at[x] = Batch THEN Nowhere ELSE at[x]]
  <2>11. /\ Queued(c.pending, at, Pending) /\ Queued(c.names, at, Named)
         /\ \A o \in Receivers : Queued(c.msgs[o], at, Place("queue", o))
         /\ \A i \in Conns : Queued(c.inflight[i], at, Place("inflight", i)) /\ Held(c, i, at)
         /\ \A t \in Lookups : Looked(c, t, at)
         /\ \A x \in Ids : at[x] # Nowhere => Live(c, x)
    BY <1>3 DEF PlaceInv
  <2>12. ASSUME NEW S \in SUBSET Ids, NEW s \in Seq(S), NEW p, Queued(s, at, p), p # Place("queue", rcv), p # Batch
         PROVE  Queued(s, A, p)
    <3>1. \A k \in 1 .. Len(s) : s[k] \in Ids
      BY <2>12, InOf
    <3> QED
      BY <2>12, <3>1 DEF Queued
  <2>13. /\ c.pending \in Seq(Gets \cup Sets) /\ c.names \in Seq(Names) /\ \A i \in Conns : c.inflight[i] \in Seq(Gets)
    BY <1>2 DEF State
  <2>14. Gets \cup Sets \in SUBSET Ids /\ Names \in SUBSET Ids /\ Gets \in SUBSET Ids
    BY DEF Ids
  <2> HIDE DEF A
  <2>15. Queued(d.pending, A, Pending) /\ Queued(d.names, A, Named)
    BY <2>7, <2>8, <2>11, <2>12, <2>13, <2>14, Apart DEF SamePool
  <2>16. Queued(d.batch, A, Batch)
    <3>1. Queued(c.msgs[rcv], at, Place("queue", rcv)) /\ \A k \in 1 .. Len(c.msgs[rcv]) : c.msgs[rcv][k] \in Ids
      BY <2>3, <2>5, <2>11, InOf
    <3> QED
      BY <3>1, <2>7 DEF Queued, A
  <2>17. \A o \in Receivers : Queued(d.msgs[o], A, Place("queue", o))
    <3> TAKE o \in Receivers
    <3>1. CASE o = rcv
      <4>1. d.msgs[o] = <<>> /\ Len(<<>>) = 0 /\ DOMAIN <<>> = {}
        BY <3>1, <2>5, <2>7
      <4> QED
        BY <4>1 DEF Queued, Distinct
    <3>2. CASE o # rcv
      <4>1. d.msgs[o] = c.msgs[o] /\ c.msgs[o] \in Seq(Ids) /\ Queued(c.msgs[o], at, Place("queue", o))
        BY <3>2, <2>2, <2>5, <2>7, <2>11
      <4>2. Place("queue", o) # Place("queue", rcv) /\ Place("queue", o) # Batch
        BY <3>2, Apart
      <4> QED
        BY <4>1, <4>2, <2>12
    <3> QED
      BY <3>1, <3>2
  <2>18. \A i \in Conns : Queued(d.inflight[i], A, Place("inflight", i)) /\ Held(d, i, A)
    <3> TAKE i \in Conns
    <3>1. Queued(d.inflight[i], A, Place("inflight", i))
      <4>1. d.inflight[i] = c.inflight[i] /\ c.inflight[i] \in Seq(Gets) /\ Queued(c.inflight[i], at, Place("inflight", i))
        BY <2>8, <2>11, <2>13 DEF SameThreads
      <4>2. Place("inflight", i) # Place("queue", rcv) /\ Place("inflight", i) # Batch
        BY Apart
      <4> QED
        BY <4>1, <4>2, <2>12, <2>14
    <3>2. Held(d, i, A)
      <4>1. Place("held", i) # Place("queue", rcv) /\ Place("held", i) # Batch
        BY Apart
      <4> QED
        BY <4>1, <2>8, <2>11 DEF Held, Holds, SameThreads, A
    <3> QED
      BY <3>1, <3>2
  <2>19. \A t \in Lookups : Looked(d, t, A)
    <3> TAKE t \in Lookups
    <3>1. Place("looked", t) # Place("queue", rcv) /\ Place("looked", t) # Batch
      BY Apart
    <3> QED
      BY <3>1, <2>8, <2>11 DEF Looked, SamePool, A
  <2>20. \A x \in Ids : A[x] # Nowhere => Live(d, x)
    <3>1. \A x \in Ids : A[x] # Nowhere => at[x] # Nowhere
      BY Apart DEF A
    <3> QED
      BY <3>1, <2>7, <2>11 DEF Live
  <2>21. PlaceInv(d, A)
    BY <2>15, <2>16, <2>17, <2>18, <2>19, <2>20 DEF PlaceInv
  <2> QED
    BY <2>7, <2>9, <2>10, <2>21 DEF Inv, d
<1> QED
  BY <1>4, <1>5

\* The first request of the batch is answered and freed.
LEMMA ReceiveStep ==
    ASSUME Inv(th), Receive
    PROVE  Inv(th')
<1> DEFINE c == th
           d == th'
           r == Head(c.batch)
           n == IF c.req[r].cb THEN c.req[r].calls + 1 ELSE c.req[r].calls
           R == [c.req EXCEPT ![r] = [st |-> "freed", cb |-> FALSE, calls |-> n]]
<1>2. c \in State /\ ReqInv(c) /\ ConnInv(c) /\ QueueInv(c) /\ PoolInv(c) /\ RepInv(c)
  BY Parts
<1>3. PICK at : PlaceInv(c, at)
  BY Parts
<1>4. CASE c.batch = <<>>
  <2>1. d = [c EXCEPT !.loop = "queue"]
    BY <1>4 DEF Receive
  <2> HIDE DEF c, d
  <2>2. /\ d \in State /\ d.msgs = c.msgs /\ d.active = c.active /\ d.batch = c.batch /\ d.req = c.req /\ d.pending = c.pending
        /\ d.loop = "queue"
    BY <1>2, <2>1 DEF State
  <2>3. SameRep(c, d) /\ SameThreads(c, d) /\ SamePool(c, d)
    BY <1>2, <2>1 DEF State, SameRep, SameThreads, SamePool
  <2>4. ReqInv(d) /\ ConnInv(d) /\ PoolInv(d) /\ RepInv(d)
    BY <1>2, <2>2, <2>3, Kept
  <2>5. QueueInv(d)
    BY <1>2, <1>4, <2>2 DEF QueueInv
  <2>6. PlaceInv(d, at)
    BY <1>3, <2>2, <2>3, KeptPlaces DEF SameThreads, SamePool
  <2> QED
    BY <2>2, <2>4, <2>5, <2>6 DEF Inv, d
<1>5. CASE c.batch # <<>>
  <2>1. c.batch \in Seq(Ids) /\ Ids \in SUBSET Ids /\ Queued(c.batch, at, Batch) /\ c.req \in [Ids -> Requests]
    BY <1>2, <1>3 DEF State, PlaceInv
  <2>2. /\ Queued(Tail(c.batch), Moved(at, r, Nowhere), Batch) /\ Tail(c.batch) \in Seq(Ids) /\ r \in Ids /\ at[r] = Batch
    BY <1>5, <2>1, QueuedTail
  <2>3. Live(c, r)
    BY <1>3, <2>2, Apart DEF PlaceInv
  <2>4. d = [Answer(c, r) EXCEPT !.batch = Tail(@)]
    BY <1>5 DEF Receive
  <2> HIDE DEF r
  <2>5. c.req[r] \in Requests /\ n \in Nat /\ n <= 1
    BY <1>2, <2>1, <2>2 DEF Requests, ReqInv
  <2>6. Answer(c, r) = [c EXCEPT !.req = R]
    <3>1. Answer(c, r) = [c EXCEPT !.req[r] = [st |-> "freed", cb |-> FALSE, calls |-> IF @.cb THEN @.calls + 1 ELSE @.calls]]
      BY <2>3 DEF Answer, Asserted
    <3> QED
      BY <3>1, <1>2 DEF State
  <2>7. R \in [Ids -> Requests] /\ (\A x \in Ids : x # r => R[x] = c.req[x]) /\ R[r] = [st |-> "freed", cb |-> FALSE, calls |-> n]
    <3> DEFINE v == [st |-> "freed", cb |-> FALSE, calls |-> n]
    <3>1. v \in Requests
      BY <2>5 DEF Requests
    <3> HIDE DEF v, n
    <3> QED
      BY <3>1, <2>1, <2>2 DEF v
  <2> HIDE DEF c, d, R, n
  <2>8. d = [c EXCEPT !.req = R, !.batch = Tail(c.batch)]
    BY <1>2, <2>4, <2>6 DEF State
  <2>9. /\ d \in State /\ d.batch = Tail(c.batch) /\ d.req = R /\ d.pending = c.pending
    BY <1>2, <2>2, <2>7, <2>8 DEF State
  <2>10. SameRep(c, d) /\ SameThreads(c, d) /\ SamePool(c, d) /\ SameQueues(c, d)
    BY <1>2, <2>8 DEF State, SameRep, SameThreads, SamePool, SameQueues
  <2>11. ConnInv(d) /\ PoolInv(d) /\ RepInv(d) /\ QueueInv(d)
    BY <1>2, <2>10, Kept
  <2>12. ReqInv(d)
    BY <1>2, <2>5, <2>7, <2>9 DEF ReqInv
  <2>13. PlaceInv(d, Moved(at, r, Nowhere))
    <3>1. \A o : at[r] # Pending /\ at[r] # Named /\ at[r] # Place("queue", o) /\ at[r] # Place("inflight", o) /\ at[r] # Place("held", o)
                 /\ at[r] # Place("looked", o)
      BY <2>2, Apart
    <3> DEFINE M == Moved(at, r, Nowhere)
    <3>2. M = Moved(at, r, Nowhere) /\ Queued(d.batch, M, Batch)
      BY <2>2, <2>9
    <3>3. /\ d.names = c.names /\ d.msgs = c.msgs /\ d.inflight = c.inflight /\ d.wr = c.wr /\ d.held = c.held /\ d.lt = c.lt
          /\ d.looked = c.looked
      BY <2>10 DEF SameThreads, SamePool, SameQueues
    <3>4. \A x \in Ids : x # r => d.req[x] = c.req[x]
      BY <2>7, <2>9
    <3> HIDE DEF M
    <3>5. PlaceInv(d, M)
      <4>1. Hands(c, d, at, M, r)
        BY <2>9, <3>1, <3>2, <3>3 DEF Hands
      <4> QED
        BY <1>2, <1>3, <2>2, <2>9, <3>2, <3>4, <4>1, MoveKeeps
    <3> QED
      BY <3>5 DEF M
  <2> QED
    BY <2>9, <2>11, <2>12, <2>13 DEF Inv, d
<1> QED
  BY <1>4, <1>5

-----------------------------------------------------------------------------
(* The readers and writers of memcached: steps that move no request.       *)

\* Every other connection is as it was.
Alone(c, d, i) ==
    \A j \in Conns : j # i => /\ d.rd[j] = c.rd[j] /\ d.wr[j] = c.wr[j] /\ d.held[j] = c.held[j] /\ d.inflight[j] = c.inflight[j]
                              /\ d.wire[j] = c.wire[j] /\ d.broken[j] = c.broken[j]

LEMMA OneConn ==
    ASSUME NEW c, NEW d, ConnInv(c), NEW i \in Conns, ConnInv1(d, i), Alone(c, d, i)
    PROVE  ConnInv(d)
<1> SUFFICES ASSUME NEW j \in Conns, j # i PROVE ConnInv1(d, j)
  BY DEF ConnInv
<1> QED
  BY DEF ConnInv, ConnInv1, Alone

LEMMA Quietly ==
    ASSUME NEW c, Inv(c), NEW d \in State, SameQueues(c, d), SamePool(c, d), SameRep(c, d), d.req = c.req, d.pending = c.pending,
           d.batch = c.batch, ConnInv(d),
           \A i \in Conns : /\ d.inflight[i] = c.inflight[i] \/ d.inflight[i] = <<>>
                            /\ Holds(d, i) => Holds(c, i) /\ d.held[i] = c.held[i]
    PROVE  Inv(d)
<1>1. c \in State /\ ReqInv(c) /\ QueueInv(c) /\ PoolInv(c) /\ RepInv(c)
  BY Parts
<1>2. PICK at : PlaceInv(c, at)
  BY Parts
<1>3. ReqInv(d) /\ QueueInv(d) /\ PoolInv(d) /\ RepInv(d)
  BY <1>1, Kept
<1>4. \A i \in Conns : Queued(d.inflight[i], at, Place("inflight", i)) /\ Held(d, i, at)
  <2> TAKE i \in Conns
  <2>1. Queued(c.inflight[i], at, Place("inflight", i)) /\ Held(c, i, at)
    BY <1>2 DEF PlaceInv
  <2>2. Queued(<<>>, at, Place("inflight", i))
    BY DEF Queued, Distinct
  <2> QED
    BY <2>1, <2>2 DEF Held
<1>5. PlaceInv(d, at)
  BY <1>2, <1>4 DEF PlaceInv, SameQueues, SamePool, Looked, Live
<1> QED
  BY <1>3, <1>5 DEF Inv

LEMMA ConnectStep ==
    ASSUME Inv(th), NEW i \in Conns, Connect(i)
    PROVE  Inv(th')
<1> DEFINE c == th
           d == th'
           RD == [c.rd EXCEPT ![i] = "count"]
           WR == [c.wr EXCEPT ![i] = "start"]
           IN_ == [c.inflight EXCEPT ![i] = <<>>]
           EX == [c.exit EXCEPT ![i] = FALSE]
           BR == [c.broken EXCEPT ![i] = FALSE]
           WI == [c.wire EXCEPT ![i] = <<>>]
<1>1. c \in State /\ ConnInv(c)
  BY Parts
<1>2. /\ c.rd \in [Conns -> ReaderPlaces] /\ c.wr \in [Conns -> WriterPlaces] /\ c.inflight \in [Conns -> Seq(Gets)]
      /\ c.exit \in [Conns -> BOOLEAN] /\ c.broken \in [Conns -> BOOLEAN] /\ c.wire \in [Conns -> Seq(Gets)]
  BY <1>1 DEF State
<1>3. d = [c EXCEPT !.rd = RD, !.wr = WR, !.inflight = IN_, !.exit = EX, !.broken = BR, !.wire = WI]
  BY <1>1 DEF Connect, State
<1>4. RD \in [Conns -> ReaderPlaces] /\ WR \in [Conns -> WriterPlaces]
  BY <1>2 DEF ReaderPlaces, WriterPlaces
<1>5. IN_ \in [Conns -> Seq(Gets)] /\ WI \in [Conns -> Seq(Gets)] /\ EX \in [Conns -> BOOLEAN] /\ BR \in [Conns -> BOOLEAN]
  <2>1. <<>> \in Seq(Gets)
    OBVIOUS
  <2> QED
    BY <1>2, <2>1
<1>6. /\ RD[i] = "count" /\ WR[i] = "start" /\ IN_[i] = <<>> /\ WI[i] = <<>> /\ BR[i] = FALSE
      /\ \A j \in Conns : j # i => RD[j] = c.rd[j] /\ WR[j] = c.wr[j] /\ IN_[j] = c.inflight[j] /\ WI[j] = c.wire[j] /\ BR[j] = c.broken[j]
  BY <1>2
<1> HIDE DEF c, d, RD, WR, IN_, EX, BR, WI
<1>7. /\ d \in State /\ d.rd = RD /\ d.wr = WR /\ d.inflight = IN_ /\ d.broken = BR /\ d.wire = WI /\ d.held = c.held
      /\ d.req = c.req /\ d.pending = c.pending /\ d.batch = c.batch
  BY <1>1, <1>3, <1>4, <1>5, ZenonT(60) DEF State
<1>8. SameQueues(c, d) /\ SamePool(c, d) /\ SameRep(c, d)
  BY <1>1, <1>3 DEF State, SameQueues, SamePool, SameRep
<1>9. ConnInv(d)
  <2>1. ConnInv1(d, i)
    <3>1. Len(<<>>) = 0 /\ DOMAIN <<>> = {} /\ 1 .. 0 = {}
      OBVIOUS
    <3> QED
      BY <3>1, <1>6, <1>7 DEF ConnInv1, Distinct
  <2>2. Alone(c, d, i)
    BY <1>6, <1>7 DEF Alone
  <2> QED
    BY <2>1, <2>2, <1>1, OneConn
<1>10. \A j \in Conns : /\ d.inflight[j] = c.inflight[j] \/ d.inflight[j] = <<>>
                        /\ Holds(d, j) => Holds(c, j) /\ d.held[j] = c.held[j]
  BY <1>6, <1>7 DEF Holds
<1>11. Inv(d)
  <2>1. Inv(c)
    BY DEF c
  <2> QED
    BY <2>1, <1>7, <1>8, <1>9, <1>10, Quietly
<1> QED
  BY <1>11 DEF d

\* c, but for the readers, their count, what the writers are told and what of the connections is broken or lost
WithReaders(c, rd, connected, exit, broken, wr, lost, breaks) ==
    [c EXCEPT !.rd = rd, !.connected = connected, !.exit = exit, !.broken = broken, !.wr = wr, !.lost = lost, !.breaks = breaks]

\* Steps of a reader that move no request: a connection that was broken stays so, and no writer starts to insert or send.
LEMMA ReaderGoes ==
    ASSUME NEW c, Inv(c), NEW R \in [Conns -> ReaderPlaces], NEW n \in Int, NEW X \in [Conns -> BOOLEAN], NEW B \in [Conns -> BOOLEAN],
           NEW W \in [Conns -> WriterPlaces], NEW L \in SUBSET Ids, NEW k \in Nat,
           NEW d, d = WithReaders(c, R, n, X, B, W, L, k),
           \A j \in Conns : (c.broken[j] => B[j]) /\ (R[j] = "flush" => B[j]) /\ (W[j] \in {"insert", "send"} => W[j] = c.wr[j])
    PROVE  Inv(d)
<1>1. c \in State /\ ConnInv(c)
  BY Parts
<1>5. /\ d \in State /\ d.rd = R /\ d.wr = W /\ d.broken = B /\ d.inflight = c.inflight /\ d.wire = c.wire /\ d.held = c.held
      /\ d.req = c.req /\ d.pending = c.pending /\ d.batch = c.batch
  BY <1>1 DEF State, WithReaders
<1>6. SameQueues(c, d) /\ SamePool(c, d) /\ SameRep(c, d)
  BY <1>1 DEF State, WithReaders, SameQueues, SamePool, SameRep
<1>7. ConnInv(d)
  <2> SUFFICES ASSUME NEW j \in Conns PROVE ConnInv1(d, j)
    BY DEF ConnInv
  <2>1. ConnInv1(c, j)
    BY <1>1 DEF ConnInv
  <2>2. /\ d.wr[j] \in {"insert", "send"} => d.wr[j] = c.wr[j]
        /\ d.held[j] = c.held[j] /\ d.inflight[j] = c.inflight[j] /\ d.wire[j] = c.wire[j] /\ (~d.broken[j] => ~c.broken[j])
        /\ d.rd[j] = "flush" => d.broken[j]
    BY <1>5
  <2> QED
    BY <2>1, <2>2 DEF ConnInv1
<1>8. \A j \in Conns : d.inflight[j] = c.inflight[j] /\ (Holds(d, j) => Holds(c, j) /\ d.held[j] = c.held[j])
  BY <1>5 DEF Holds
<1> QED
  BY <1>5, <1>6, <1>7, <1>8, Quietly

\* What the steps below need of the state they start in.
LEMMA ConnTypes ==
    ASSUME NEW c, Inv(c)
    PROVE  /\ c \in State /\ c.rd \in [Conns -> ReaderPlaces] /\ c.wr \in [Conns -> WriterPlaces] /\ c.held \in [Conns -> Ids \cup {0}]
           /\ c.inflight \in [Conns -> Seq(Gets)] /\ c.wire \in [Conns -> Seq(Gets)]
           /\ c.exit \in [Conns -> BOOLEAN] /\ c.broken \in [Conns -> BOOLEAN] /\ c.lost \in SUBSET Ids
           /\ c.connected \in Int /\ c.breaks \in Nat /\ c.pending \in Seq(Gets \cup Sets)
           /\ \A i \in Conns : c.rd[i] = "flush" => c.broken[i]
<1>1. c \in State /\ ConnInv(c)
  BY Parts
<1>2. \A i \in Conns : c.rd[i] = "flush" => c.broken[i]
  BY <1>1 DEF ConnInv, ConnInv1
<1> QED
  BY <1>1, <1>2 DEF State

LEMMA CountStep ==
    ASSUME Inv(th), NEW i \in Conns, Count(i)
    PROVE  Inv(th')
<1> DEFINE c == th
           d == th'
           R == [c.rd EXCEPT ![i] = "recv"]
<1>1. /\ c \in State /\ c.rd \in [Conns -> ReaderPlaces] /\ c.wr \in [Conns -> WriterPlaces] /\ c.exit \in [Conns -> BOOLEAN]
      /\ c.broken \in [Conns -> BOOLEAN] /\ c.lost \in SUBSET Ids /\ c.connected \in Int /\ c.breaks \in Nat
      /\ \A j \in Conns : c.rd[j] = "flush" => c.broken[j]
  BY ConnTypes
<1>0. Inv(c)
  OBVIOUS
<1>2. d = WithReaders(c, R, c.connected + 1, c.exit, c.broken, c.wr, c.lost, c.breaks)
  BY <1>1 DEF Count, State, WithReaders
<1>3. R \in [Conns -> ReaderPlaces] /\ c.connected + 1 \in Int /\ \A j \in Conns : R[j] = "flush" => c.broken[j]
  BY <1>1 DEF ReaderPlaces
<1> HIDE DEF c, d, R
<1>10. Inv(d)
  BY <1>0, <1>1, <1>2, <1>3, ReaderGoes
<1> QED
  BY <1>10 DEF d

LEMMA ConnectionBreaksStep ==
    ASSUME Inv(th), NEW i \in Conns, ConnectionBreaks(i)
    PROVE  Inv(th')
<1> DEFINE c == th
           d == th'
           B == [c.broken EXCEPT ![i] = TRUE]
<1>1. /\ c \in State /\ c.rd \in [Conns -> ReaderPlaces] /\ c.wr \in [Conns -> WriterPlaces] /\ c.exit \in [Conns -> BOOLEAN]
      /\ c.broken \in [Conns -> BOOLEAN] /\ c.lost \in SUBSET Ids /\ c.connected \in Int /\ c.breaks \in Nat
      /\ \A j \in Conns : c.rd[j] = "flush" => c.broken[j]
  BY ConnTypes
<1>0. Inv(c)
  OBVIOUS
<1>2. d = WithReaders(c, c.rd, c.connected, c.exit, B, c.wr, c.lost, c.breaks + 1)
  BY <1>1 DEF ConnectionBreaks, State, WithReaders
<1>3. B \in [Conns -> BOOLEAN] /\ c.breaks + 1 \in Nat /\ \A j \in Conns : (c.broken[j] => B[j]) /\ (c.rd[j] = "flush" => B[j])
  BY <1>1
<1> HIDE DEF c, d, B
<1>10. Inv(d)
  BY <1>0, <1>1, <1>2, <1>3, ReaderGoes
<1> QED
  BY <1>10 DEF d

LEMMA ReaderFailsStep ==
    ASSUME Inv(th), NEW i \in Conns, ReaderFails(i)
    PROVE  Inv(th')
<1> DEFINE c == th
           d == th'
           R == [c.rd EXCEPT ![i] = "flush"]
<1>1. /\ c \in State /\ c.rd \in [Conns -> ReaderPlaces] /\ c.wr \in [Conns -> WriterPlaces] /\ c.exit \in [Conns -> BOOLEAN]
      /\ c.broken \in [Conns -> BOOLEAN] /\ c.lost \in SUBSET Ids /\ c.connected \in Int /\ c.breaks \in Nat
      /\ \A j \in Conns : c.rd[j] = "flush" => c.broken[j]
  BY ConnTypes
<1>0. Inv(c)
  OBVIOUS
<1>2. d = WithReaders(c, R, c.connected, c.exit, c.broken, c.wr, c.lost, c.breaks)
  BY <1>1 DEF ReaderFails, State, WithReaders
<1>3. R \in [Conns -> ReaderPlaces] /\ \A j \in Conns : R[j] = "flush" => c.broken[j]
  BY <1>1 DEF ReaderPlaces, ReaderFails
<1> HIDE DEF c, d, R
<1>10. Inv(d)
  BY <1>0, <1>1, <1>2, <1>3, ReaderGoes
<1> QED
  BY <1>10 DEF d

LEMMA ReaderStopsWriterStep ==
    ASSUME Inv(th), NEW i \in Conns, ReaderStopsWriter(i)
    PROVE  Inv(th')
<1> DEFINE c == th
           d == th'
           R == [c.rd EXCEPT ![i] = "broadcast"]
           X == [c.exit EXCEPT ![i] = TRUE]
<1>1. /\ c \in State /\ c.rd \in [Conns -> ReaderPlaces] /\ c.wr \in [Conns -> WriterPlaces] /\ c.exit \in [Conns -> BOOLEAN]
      /\ c.broken \in [Conns -> BOOLEAN] /\ c.lost \in SUBSET Ids /\ c.connected \in Int /\ c.breaks \in Nat
      /\ \A j \in Conns : c.rd[j] = "flush" => c.broken[j]
  BY ConnTypes
<1>0. Inv(c)
  OBVIOUS
<1>2. d = WithReaders(c, R, c.connected, X, c.broken, c.wr, c.lost, c.breaks)
  BY <1>1 DEF ReaderStopsWriter, State, WithReaders
<1>3. X \in [Conns -> BOOLEAN] /\ R \in [Conns -> ReaderPlaces] /\ \A j \in Conns : R[j] = "flush" => c.broken[j]
  BY <1>1 DEF ReaderPlaces
<1> HIDE DEF c, d, R, X
<1>10. Inv(d)
  BY <1>0, <1>1, <1>2, <1>3, ReaderGoes
<1> QED
  BY <1>10 DEF d

LEMMA ReaderBroadcastsStep ==
    ASSUME Inv(th), NEW i \in Conns, ReaderBroadcasts(i)
    PROVE  Inv(th')
<1> DEFINE c == th
           d == th'
           R == [c.rd EXCEPT ![i] = "join"]
           W == [j \in Conns |-> IF c.wr[j] = "wait" THEN "woken" ELSE c.wr[j]]
<1>1. /\ c \in State /\ c.rd \in [Conns -> ReaderPlaces] /\ c.wr \in [Conns -> WriterPlaces] /\ c.exit \in [Conns -> BOOLEAN]
      /\ c.broken \in [Conns -> BOOLEAN] /\ c.lost \in SUBSET Ids /\ c.connected \in Int /\ c.breaks \in Nat
      /\ \A j \in Conns : c.rd[j] = "flush" => c.broken[j]
  BY ConnTypes
<1>0. Inv(c)
  OBVIOUS
<1>2. d = WithReaders(c, R, c.connected, c.exit, c.broken, W, c.lost, c.breaks)
  BY <1>1 DEF ReaderBroadcasts, State, WithReaders
<1>3. W \in [Conns -> WriterPlaces] /\ \A j \in Conns : W[j] \in {"insert", "send"} => W[j] = c.wr[j]
  BY <1>1 DEF WriterPlaces
<1>4. R \in [Conns -> ReaderPlaces] /\ \A j \in Conns : R[j] = "flush" => c.broken[j]
  BY <1>1 DEF ReaderPlaces
<1> HIDE DEF c, d, R, W
<1>10. Inv(d)
  BY <1>0, <1>1, <1>2, <1>3, <1>4, ReaderGoes
<1> QED
  BY <1>10 DEF d

LEMMA ReaderJoinsStep ==
    ASSUME Inv(th), NEW i \in Conns, ReaderJoins(i)
    PROVE  Inv(th')
<1> DEFINE c == th
           d == th'
           R == [c.rd EXCEPT ![i] = IF c.connected = 1 THEN "discard" ELSE "connect"]
           W == [c.wr EXCEPT ![i] = "none"]
           L == c.lost \cup Range(c.inflight[i])
<1>1. /\ c \in State /\ c.rd \in [Conns -> ReaderPlaces] /\ c.wr \in [Conns -> WriterPlaces] /\ c.exit \in [Conns -> BOOLEAN]
      /\ c.broken \in [Conns -> BOOLEAN] /\ c.lost \in SUBSET Ids /\ c.connected \in Int /\ c.breaks \in Nat
      /\ (\A j \in Conns : c.rd[j] = "flush" => c.broken[j]) /\ c.inflight \in [Conns -> Seq(Gets)]
  BY ConnTypes
<1>0. Inv(c)
  OBVIOUS
<1>2. d = WithReaders(c, R, c.connected - 1, c.exit, c.broken, W, L, c.breaks)
  BY <1>1 DEF ReaderJoins, State, WithReaders
<1>3. W \in [Conns -> WriterPlaces] /\ \A j \in Conns : W[j] \in {"insert", "send"} => W[j] = c.wr[j]
  BY <1>1 DEF WriterPlaces
<1>4. R \in [Conns -> ReaderPlaces] /\ (\A j \in Conns : R[j] = "flush" => c.broken[j]) /\ c.connected - 1 \in Int
  BY <1>1 DEF ReaderPlaces
<1>5. L \in SUBSET Ids
  <2>1. c.inflight[i] \in Seq(Gets)
    BY <1>1
  <2>2. \A k \in DOMAIN c.inflight[i] : c.inflight[i][k] \in Gets
    BY <2>1
  <2> QED
    BY <2>2, <1>1 DEF Range, Ids
<1> HIDE DEF c, d, R, W, L
<1>6. /\ c.exit \in [Conns -> BOOLEAN] /\ c.broken \in [Conns -> BOOLEAN] /\ c.breaks \in Nat
      /\ \A j \in Conns : (c.broken[j] => c.broken[j]) /\ (R[j] = "flush" => c.broken[j]) /\ (W[j] \in {"insert", "send"} => W[j] = c.wr[j])
  BY <1>1, <1>3, <1>4
<1>10. Inv(d)
  BY <1>0, <1>2, <1>3, <1>4, <1>5, <1>6, ReaderGoes
<1> QED
  BY <1>10 DEF d

-----------------------------------------------------------------------------
(* A request that nobody has in a list or in its hands is sent to the      *)
(* event loop or freed.                                                    *)

Loose(c, r) == r \in Ids /\ Live(c, r) /\ \E at : PlaceInv(c, at) /\ at[r] = Nowhere

LEMMA SendKeeps ==
    ASSUME NEW c, Inv(c), NEW rcv \in Receivers, NEW r, Loose(c, r)
    PROVE  Inv(SendMessage(c, rcv, r))
<1> DEFINE d == SendMessage(c, rcv, r)
           p == Place("queue", rcv)
<1>1. c \in State /\ ReqInv(c) /\ ConnInv(c) /\ QueueInv(c) /\ PoolInv(c) /\ RepInv(c)
  BY Parts
<1>2. PICK at : PlaceInv(c, at) /\ at[r] = Nowhere
  BY DEF Loose
<1>3. r \in Ids /\ Live(c, r)
  BY DEF Loose
<1>4. c.msgs[rcv] \in Seq(Ids) /\ Queued(c.msgs[rcv], at, p) /\ at[r] # p /\ Ids \in SUBSET Ids
  BY <1>1, <1>2, Apart DEF State, PlaceInv
<1>5. ~In(r, c.msgs[rcv]) /\ Queued(Append(c.msgs[rcv], r), Moved(at, r, p), p)
  BY <1>3, <1>4, QueuedOther, QueuedAppend
<1>6. /\ d \in State /\ QueueInv(d) /\ d.msgs[rcv] = Append(c.msgs[rcv], r) /\ \A o \in Receivers : o # rcv => d.msgs[o] = c.msgs[o]
      /\ SameRep(c, d) /\ SameConns(c, d) /\ SamePool(c, d) /\ d.batch = c.batch /\ d.req = c.req
  BY <1>1, <1>3, <1>5, Sends
<1> HIDE DEF d, p
<1>7. ReqInv(d) /\ ConnInv(d) /\ PoolInv(d) /\ RepInv(d)
  BY <1>1, <1>6, Kept DEF SameConns
<1> DEFINE M == Moved(at, r, p)
<1>8. M = Moved(at, r, p)
  OBVIOUS
<1> HIDE DEF M
<1>9. PlaceInv(d, M)
  <2>1. /\ d.pending = c.pending /\ d.names = c.names /\ d.inflight = c.inflight /\ d.wr = c.wr /\ d.held = c.held
        /\ d.lt = c.lt /\ d.looked = c.looked
    BY <1>6 DEF SameConns, SameThreads, SamePool
  <2>2. \A o : /\ at[r] # Pending /\ at[r] # Named /\ at[r] # Batch /\ at[r] # Place("queue", o) /\ at[r] # Place("inflight", o)
               /\ at[r] # Place("held", o) /\ at[r] # Place("looked", o)
    BY <1>2, Apart
  <2>3. \A o \in Receivers : Queued(d.msgs[o], M, Place("queue", o)) \/ (d.msgs[o] = c.msgs[o] /\ at[r] # Place("queue", o))
    BY <1>5, <1>6, <1>8, <2>2 DEF p
  <2>4. Live(d, r)
    BY <1>3, <1>6 DEF Live
  <2> QED
    <3>1. Hands(c, d, at, M, r)
      BY <1>6, <2>1, <2>2, <2>3 DEF Hands
    <3> QED
      BY <1>1, <1>2, <1>3, <1>6, <1>8, <2>4, <3>1, MoveKeeps
<1> QED
  BY <1>6, <1>7, <1>9 DEF Inv, d

\* free_req: the request is in no list, and was not freed before.
LEMMA Frees ==
    ASSUME NEW c \in State, NEW r \in Ids, Live(c, r), ~In(r, c.pending), ~In(r, c.msgs["memcached"])
    PROVE  LET R == [c.req EXCEPT ![r].st = "freed"] IN
           /\ FreeReq(c, r) = [c EXCEPT !.req = R] /\ R \in [Ids -> Requests] /\ \A x \in Ids : x # r => R[x] = c.req[x]
           /\ R[r].cb = c.req[r].cb /\ R[r].calls = c.req[r].calls
<1> DEFINE R == [c.req EXCEPT ![r].st = "freed"]
<1>1. c.req \in [Ids -> Requests]
  BY DEF State
<1>2. FreeReq(c, r) = [c EXCEPT !.req[r].st = "freed"]
  BY DEF FreeReq, Asserted
<1>3. FreeReq(c, r) = [c EXCEPT !.req = R]
  BY <1>2 DEF State
<1>4. R \in [Ids -> Requests] /\ \A x \in Ids : x # r => R[x] = c.req[x]
  BY <1>1 DEF Requests
<1>5. R[r].cb = c.req[r].cb /\ R[r].calls = c.req[r].calls
  BY <1>1 DEF Requests
<1> QED
  BY <1>3, <1>4, <1>5

\* It is not in the lists that free_req looks at.
LEMMA Unlisted ==
    ASSUME NEW c \in State, NEW at, PlaceInv(c, at), NEW r, at[r] # Pending, at[r] # Place("queue", "memcached")
    PROVE  ~In(r, c.pending) /\ ~In(r, c.msgs["memcached"])
<1>1. /\ c.pending \in Seq(Gets \cup Sets) /\ c.msgs["memcached"] \in Seq(Ids) /\ Gets \cup Sets \in SUBSET Ids /\ Ids \in SUBSET Ids
      /\ Queued(c.pending, at, Pending) /\ Queued(c.msgs["memcached"], at, Place("queue", "memcached"))
  BY DEF State, PlaceInv, Receivers, Ids
<1> QED
  BY <1>1, QueuedOther

LEMMA FreeKeeps ==
    ASSUME NEW c, Inv(c), NEW r, Loose(c, r)
    PROVE  Inv(FreeReq(c, r))
<1> DEFINE d == FreeReq(c, r)
           R == [c.req EXCEPT ![r].st = "freed"]
<1>1. c \in State /\ ReqInv(c) /\ ConnInv(c) /\ QueueInv(c) /\ PoolInv(c) /\ RepInv(c)
  BY Parts
<1>2. PICK at : PlaceInv(c, at) /\ at[r] = Nowhere
  BY DEF Loose
<1>3. r \in Ids /\ Live(c, r)
  BY DEF Loose
<1>4. ~In(r, c.pending) /\ ~In(r, c.msgs["memcached"])
  BY <1>1, <1>2, Unlisted, Apart
<1>5. /\ d = [c EXCEPT !.req = R] /\ R \in [Ids -> Requests] /\ (\A x \in Ids : x # r => R[x] = c.req[x])
      /\ R[r].cb = c.req[r].cb /\ R[r].calls = c.req[r].calls
  BY <1>1, <1>3, <1>4, Frees
<1> HIDE DEF d, R
<1>6. d \in State /\ d.req = R /\ d.batch = c.batch
  BY <1>1, <1>5 DEF State
<1>7. SameRep(c, d) /\ SameQueues(c, d) /\ SameConns(c, d) /\ SamePool(c, d)
  BY <1>1, <1>5 DEF State, SameRep, SameQueues, SameConns, SameThreads, SamePool
<1>8. ConnInv(d) /\ PoolInv(d) /\ RepInv(d) /\ QueueInv(d)
  BY <1>1, <1>7, Kept DEF SameConns
<1>9. ReqInv(d)
  BY <1>1, <1>3, <1>5, <1>6 DEF ReqInv
<1>10. PlaceInv(d, at)
  <2>1. \A x \in Ids : at[x] # Nowhere => Live(d, x)
    BY <1>2, <1>5, <1>6 DEF PlaceInv, Live
  <2> QED
    BY <1>2, <1>6, <1>7, <2>1 DEF PlaceInv, SameQueues, SameConns, SameThreads, SamePool, Held, Holds, Looked
<1> QED
  BY <1>6, <1>8, <1>9, <1>10 DEF Inv, d

LEMMA DiscardKeeps ==
    ASSUME NEW c, Inv(c), NEW r, Loose(c, r)
    PROVE  Inv(DiscardReq(c, r))
<1>1. Inv(SendMessage(c, "memcached", r)) /\ Inv(FreeReq(c, r))
  BY SendKeeps, FreeKeeps DEF Receivers
<1> QED
  BY <1>1 DEF DiscardReq

-----------------------------------------------------------------------------
(* The readers and writers of memcached: steps that move a request.        *)

\* A writer that finds nothing sleeps; otherwise it has the first request that was pending.
LEMMA TakeKeeps ==
    ASSUME NEW c, Inv(c), NEW i \in Conns, NEW d, d = TakeOrWait(c, i)
    PROVE  Inv(d)
<1>1. /\ c \in State /\ c.rd \in [Conns -> ReaderPlaces] /\ c.wr \in [Conns -> WriterPlaces] /\ c.exit \in [Conns -> BOOLEAN]
      /\ c.broken \in [Conns -> BOOLEAN] /\ c.lost \in SUBSET Ids /\ c.connected \in Int /\ c.breaks \in Nat
      /\ c.held \in [Conns -> Ids \cup {0}] /\ c.pending \in Seq(Gets \cup Sets)
      /\ \A j \in Conns : c.rd[j] = "flush" => c.broken[j]
  BY ConnTypes
<1>2. CASE c.pending = <<>>
  <2> DEFINE W == [c.wr EXCEPT ![i] = "wait"]
  <2>1. d = [c EXCEPT !.wr[i] = "wait"]
    BY <1>2 DEF TakeOrWait
  <2>2. d = WithReaders(c, c.rd, c.connected, c.exit, c.broken, W, c.lost, c.breaks)
    BY <1>1, <2>1 DEF State, WithReaders
  <2>3. W \in [Conns -> WriterPlaces] /\ \A j \in Conns : W[j] \in {"insert", "send"} => W[j] = c.wr[j]
    BY <1>1 DEF WriterPlaces
  <2> HIDE DEF W
  <2> QED
    BY <1>1, <2>2, <2>3, ReaderGoes
<1>3. CASE c.pending # <<>>
  <2> DEFINE r == Head(c.pending)
             to == IF r \in Gets THEN "insert" ELSE "send"
             W == [c.wr EXCEPT ![i] = to]
             H == [c.held EXCEPT ![i] = r]
             T == Tail(c.pending)
  <2>1. d = [c EXCEPT !.wr[i] = to, !.held[i] = r, !.pending = Tail(@)]
    BY <1>3 DEF TakeOrWait
  <2>2. PICK at : PlaceInv(c, at)
    BY Parts
  <2>3. Queued(c.pending, at, Pending) /\ Gets \cup Sets \in SUBSET Ids
    BY <2>2 DEF PlaceInv, Ids
  <2> DEFINE q == Place("held", i)
             M == Moved(at, r, q)
  <2>4. Queued(T, M, Pending) /\ T \in Seq(Gets \cup Sets) /\ r \in Gets \cup Sets /\ at[r] = Pending
    BY <1>1, <1>3, <2>3, QueuedTail, ZenonT(60)
  <2>5. M = Moved(at, r, q) /\ r \in Ids /\ M[r] = q
    BY <2>3, <2>4 DEF Moved
  <2> HIDE DEF r, M, q, T
  <2>6. /\ W \in [Conns -> WriterPlaces] /\ H \in [Conns -> Ids \cup {0}] /\ W[i] = to /\ H[i] = r
        /\ \A j \in Conns : j # i => W[j] = c.wr[j] /\ H[j] = c.held[j]
    BY <1>1, <2>5 DEF WriterPlaces
  <2> HIDE DEF W, H
  <2>7. d = [c EXCEPT !.wr = W, !.held = H, !.pending = T]
    BY <1>1, <2>1 DEF State, W, H, T
  <2> HIDE DEF to
  <2>8. /\ d \in State /\ d.wr = W /\ d.held = H /\ d.pending = T /\ d.rd = c.rd /\ d.inflight = c.inflight
        /\ d.wire = c.wire /\ d.broken = c.broken /\ d.batch = c.batch /\ d.req = c.req
    <3>1. c \in State /\ T \in Seq(Gets \cup Sets) /\ W \in [Conns -> WriterPlaces] /\ H \in [Conns -> Ids \cup {0}]
      BY <1>1, <2>4, <2>6
    <3>2. d \in State
      BY <2>7, <3>1, ZenonT(60) DEF State
    <3> QED
      BY <2>7, <3>1, ZenonT(60) DEF State
  <2>9. SameQueues(c, d) /\ SamePool(c, d) /\ SameRep(c, d)
    BY <1>1, <2>7 DEF State, SameQueues, SamePool, SameRep
  <2>10. ReqInv(d) /\ QueueInv(d) /\ PoolInv(d) /\ RepInv(d)
    BY <2>8, <2>9, Parts, Kept
  <2>11. ConnInv(d)
    <3>0. ConnInv(c)
      BY Parts
    <3>1. ConnInv1(c, i)
      BY <3>0 DEF ConnInv
    <3>2. /\ d.rd[i] = c.rd[i] /\ d.inflight[i] = c.inflight[i] /\ d.wire[i] = c.wire[i] /\ d.broken[i] = c.broken[i]
          /\ d.held[i] = r /\ d.wr[i] = to
      BY <2>6, <2>8
    <3>3. ConnInv1(d, i)
      BY <3>1, <3>2, <2>4 DEF ConnInv1, to
    <3>4. Alone(c, d, i)
      BY <2>6, <2>8 DEF Alone
    <3> QED
      BY <3>0, <3>3, <3>4, OneConn
  <2>12. PlaceInv(d, M)
    <3>1. /\ d.names = c.names /\ d.msgs = c.msgs /\ d.lt = c.lt /\ d.looked = c.looked
      BY <2>9 DEF SamePool, SameQueues
    <3>2. \A o : /\ at[r] # Named /\ at[r] # Batch /\ at[r] # Place("queue", o) /\ at[r] # Place("inflight", o)
                 /\ at[r] # Place("held", o) /\ at[r] # Place("looked", o) /\ at[r] # Nowhere
      BY <2>4, Apart
    <3>3. \A j \in Conns : Held(d, j, M) \/ (d.wr[j] = c.wr[j] /\ d.held[j] = c.held[j] /\ at[r] # Place("held", j))
      <4> TAKE j \in Conns
      <4>1. CASE j = i
        BY <4>1, <2>5, <2>6, <2>8 DEF Held, q
      <4>2. CASE j # i
        BY <4>2, <2>6, <2>8, <3>2
      <4> QED
        BY <4>1, <4>2
    <3>4. Live(d, r)
      BY <2>2, <2>5, <2>8, <3>2 DEF PlaceInv, Live
    <3>5. Queued(d.pending, M, Pending)
      BY <2>4, <2>8
    <3> QED
      <4>1. Hands(c, d, at, M, r)
        BY <2>8, <3>1, <3>2, <3>3, <3>5 DEF Hands
      <4> QED
        BY <1>1, <2>2, <2>5, <2>8, <3>4, <4>1, MoveKeeps
  <2> QED
    BY <2>8, <2>10, <2>11, <2>12 DEF Inv
<1> QED
  BY <1>2, <1>3

LEMMA WriterChecksStep ==
    ASSUME Inv(th), NEW i \in Conns, WriterChecks(i) \/ WriterTakes(i)
    PROVE  Inv(th')
<1> DEFINE c == th
           d == th'
           W == [c.wr EXCEPT ![i] = "gone"]
<1>0. Inv(c) /\ (d = TakeOrWait(c, i) \/ d = [c EXCEPT !.wr[i] = "gone"])
  BY DEF WriterChecks, WriterTakes
<1>1. /\ c \in State /\ c.rd \in [Conns -> ReaderPlaces] /\ c.wr \in [Conns -> WriterPlaces] /\ c.exit \in [Conns -> BOOLEAN]
      /\ c.broken \in [Conns -> BOOLEAN] /\ c.lost \in SUBSET Ids /\ c.connected \in Int /\ c.breaks \in Nat
      /\ \A j \in Conns : c.rd[j] = "flush" => c.broken[j]
  BY ConnTypes
<1> HIDE DEF c, d
<1>2. ASSUME d = [c EXCEPT !.wr[i] = "gone"] PROVE Inv(d)
  <2>1. d = WithReaders(c, c.rd, c.connected, c.exit, c.broken, W, c.lost, c.breaks)
    BY <1>1, <1>2 DEF State, WithReaders
  <2>2. W \in [Conns -> WriterPlaces] /\ \A j \in Conns : W[j] \in {"insert", "send"} => W[j] = c.wr[j]
    BY <1>1 DEF WriterPlaces
  <2> HIDE DEF W
  <2> QED
    BY <1>0, <1>1, <2>1, <2>2, ReaderGoes
<1>3. ASSUME d = TakeOrWait(c, i) PROVE Inv(d)
  BY <1>0, <1>3, TakeKeeps
<1>4. Inv(d)
  BY <1>0, <1>2, <1>3
<1> QED
  BY <1>4 DEF d

LEMMA WriterInsertsStep ==
    ASSUME Gets \cap Sets = {}, Inv(th), NEW i \in Conns, WriterInserts(i)
    PROVE  Inv(th')
<1> DEFINE c == th
           d == th'
           r == c.held[i]
           N == Append(c.inflight[i], r)
           W == [c.wr EXCEPT ![i] = "send"]
           F == [c.inflight EXCEPT ![i] = N]
<1>0. c.wr[i] = "insert" /\ d = [c EXCEPT !.wr[i] = "send", !.inflight[i] = Append(@, r)]
  BY DEF WriterInserts
<1>1. c \in State /\ ReqInv(c) /\ ConnInv(c) /\ QueueInv(c) /\ PoolInv(c) /\ RepInv(c)
  BY Parts
<1>2. PICK at : PlaceInv(c, at)
  BY Parts
<1> HIDE DEF c, d
<1>3. c.wr \in [Conns -> WriterPlaces] /\ c.inflight \in [Conns -> Seq(Gets)] /\ c.inflight[i] \in Seq(Gets) /\ c.wire[i] \in Seq(Gets)
  BY <1>1 DEF State
<1>4. ConnInv1(c, i) /\ r \in Gets /\ r \in Ids
  BY <1>0, <1>1 DEF ConnInv, ConnInv1, Ids
<1>5. /\ Queued(c.inflight[i], at, Place("inflight", i)) /\ Held(c, i, at)
      /\ (\A x \in Ids : at[x] # Nowhere => Live(c, x)) /\ Gets \in SUBSET Ids
  BY <1>2 DEF PlaceInv, Ids
<1>6. at[r] = Place("held", i)
  BY <1>0, <1>5 DEF Held, Holds
<1> DEFINE p == Place("inflight", i)
           M == Moved(at, r, p)
<1>7. M = Moved(at, r, p)
  OBVIOUS
<1>8. at[r] # p /\ ~In(r, c.inflight[i]) /\ Queued(N, M, p) /\ N \in Seq(Gets) /\ \A y : In(y, N) <=> In(y, c.inflight[i]) \/ y = r
  <2>1. at[r] # p
    BY <1>6, Apart
  <2>2. ~In(r, c.inflight[i])
    BY <2>1, <1>3, <1>5, QueuedOther
  <2>3. Queued(N, M, p) /\ N \in Seq(Gets)
    BY <2>1, <1>3, <1>4, <1>5, QueuedAppend
  <2>4. \A y : In(y, N) <=> In(y, c.inflight[i]) \/ y = r
    BY <1>3, <1>4, InAppend
  <2> HIDE DEF N, M
  <2> QED
    BY <2>1, <2>2, <2>3, <2>4
<1> HIDE DEF r, M, p, N
<1>9. /\ W \in [Conns -> WriterPlaces] /\ F \in [Conns -> Seq(Gets)] /\ W[i] = "send" /\ F[i] = N
      /\ \A j \in Conns : j # i => W[j] = c.wr[j] /\ F[j] = c.inflight[j]
  BY <1>3, <1>8 DEF WriterPlaces
<1>10. d = [c EXCEPT !.wr = W, !.inflight = F]
  BY <1>0, <1>1 DEF State, N
<1> HIDE DEF W, F
<1>11. /\ d \in State /\ d.wr = W /\ d.held = c.held /\ d.pending = c.pending /\ d.rd = c.rd /\ d.inflight = F
       /\ d.wire = c.wire /\ d.broken = c.broken /\ d.batch = c.batch /\ d.req = c.req
  BY <1>1, <1>9, <1>10 DEF State
<1>12. SameQueues(c, d) /\ SamePool(c, d) /\ SameRep(c, d)
  BY <1>1, <1>10 DEF State, SameQueues, SamePool, SameRep
<1>13. ReqInv(d) /\ QueueInv(d) /\ PoolInv(d) /\ RepInv(d)
  BY <1>1, <1>11, <1>12, Kept
<1>14. ConnInv(d)
  <2>1. /\ d.rd[i] = c.rd[i] /\ d.inflight[i] = N /\ d.wire[i] = c.wire[i] /\ d.broken[i] = c.broken[i] /\ d.held[i] = r /\ d.wr[i] = "send"
    BY <1>9, <1>11 DEF r
  <2>2. ~c.broken[i] => /\ Distinct(c.wire[i]) /\ \A k \in 1 .. Len(c.wire[i]) : In(c.wire[i][k], c.inflight[i])
    BY <1>4 DEF ConnInv1
  <2>3. ~c.broken[i] => ~In(r, c.wire[i])
    <3>1. In(r, c.wire[i]) <=> \E k \in 1 .. Len(c.wire[i]) : c.wire[i][k] = r
      BY <1>3, InOf
    <3> QED
      BY <3>1, <2>2, <1>8
  <2>4. ConnInv1(d, i)
    BY <1>4, <1>8, <2>1, <2>2, <2>3 DEF ConnInv1
  <2>5. Alone(c, d, i)
    BY <1>9, <1>11 DEF Alone
  <2> QED
    BY <1>1, <2>4, <2>5, OneConn
<1>15. PlaceInv(d, M)
  <2>1. /\ d.names = c.names /\ d.msgs = c.msgs /\ d.lt = c.lt /\ d.looked = c.looked
    BY <1>12 DEF SamePool, SameQueues
  <2>2. /\ at[r] # Pending /\ at[r] # Nowhere /\ at[r] # Named /\ at[r] # Batch
        /\ \A o : at[r] # Place("queue", o) /\ at[r] # Place("inflight", o) /\ at[r] # Place("looked", o)
        /\ \A o : o # i => at[r] # Place("held", o)
    BY <1>6, Apart
  <2>3. \A j \in Conns : Held(d, j, M) \/ (d.wr[j] = c.wr[j] /\ d.held[j] = c.held[j] /\ at[r] # Place("held", j))
    <3> TAKE j \in Conns
    <3>1. CASE j = i
      <4>1. d.wr[j] = "send" /\ d.held[j] \notin Sets
        BY <3>1, <1>4, <1>9, <1>11 DEF r
      <4> QED
        BY <4>1 DEF Held, Holds
    <3>2. CASE j # i
      BY <3>2, <1>9, <1>11, <2>2
    <3> QED
      BY <3>1, <3>2
  <2>4. Live(d, r)
    BY <1>4, <1>5, <1>11, <2>2 DEF Live
  <2>5. \A j \in Conns : \/ Queued(d.inflight[j], M, Place("inflight", j))
                         \/ d.inflight[j] = c.inflight[j] /\ at[r] # Place("inflight", j)
    BY <1>8, <1>9, <1>11, <2>2 DEF p
  <2> QED
    <3>1. Hands(c, d, at, M, r)
      BY <1>11, <2>1, <2>2, <2>3, <2>5 DEF Hands
    <3> QED
      BY <1>1, <1>2, <1>4, <1>7, <1>11, <2>4, <3>1, MoveKeeps
<1> QED
  BY <1>11, <1>13, <1>14, <1>15 DEF Inv, d

\* q is s without r, which was in it
Left(s, r, q) == In(r, s) /\ Distinct(q) /\ \A y : In(y, q) <=> In(y, s) /\ y # r
WithFlight(c, inflight, wire) == [c EXCEPT !.inflight = inflight, !.wire = wire]

\* A request leaves the list of those in flight.
LEMMA OutOfFlight ==
    ASSUME NEW c, Inv(c), NEW i \in Conns, NEW r, NEW IF_ \in [Conns -> Seq(Gets)], Left(c.inflight[i], r, IF_[i]),
           NEW WI \in [Conns -> Seq(Gets)], c.broken[i] \/ Left(c.wire[i], r, WI[i]),
           \A j \in Conns : j # i => IF_[j] = c.inflight[j] /\ WI[j] = c.wire[j], NEW d, d = WithFlight(c, IF_, WI)
    PROVE  Inv(d) /\ Loose(d, r)
<1> DEFINE F == IF_[i]
           V == WI[i]
           s == c.inflight[i]
           w == c.wire[i]
<1>1. c \in State /\ ReqInv(c) /\ ConnInv(c) /\ QueueInv(c) /\ PoolInv(c) /\ RepInv(c)
  BY Parts
<1>2. PICK at : PlaceInv(c, at)
  BY Parts
<1>3. c.inflight \in [Conns -> Seq(Gets)] /\ c.wire \in [Conns -> Seq(Gets)] /\ c.inflight[i] \in Seq(Gets) /\ c.wire[i] \in Seq(Gets)
  BY <1>1 DEF State
<1>4. /\ F \in Seq(Gets) /\ V \in Seq(Gets) /\ F = IF_[i] /\ V = WI[i] /\ s \in Seq(Gets) /\ w \in Seq(Gets) /\ s = c.inflight[i]
      /\ w = c.wire[i] /\ Left(s, r, F) /\ (c.broken[i] \/ Left(w, r, V))
  BY <1>3
<1>41. s \in Seq(Gets) /\ w \in Seq(Gets)
  BY <1>4
<1> HIDE DEF F, V, s, w
<1>5. /\ d \in State /\ d.wr = c.wr /\ d.held = c.held /\ d.pending = c.pending /\ d.rd = c.rd /\ d.inflight = IF_
      /\ d.wire = WI /\ d.broken = c.broken /\ d.batch = c.batch /\ d.req = c.req
  BY <1>1 DEF State, WithFlight
<1>6. SameQueues(c, d) /\ SamePool(c, d) /\ SameRep(c, d)
  BY <1>1 DEF State, WithFlight, SameQueues, SamePool, SameRep
<1>7. ReqInv(d) /\ QueueInv(d) /\ PoolInv(d) /\ RepInv(d)
  BY <1>1, <1>5, <1>6, Kept
<1>8. ConnInv(d)
  <2>1. /\ d.rd[i] = c.rd[i] /\ d.inflight[i] = F /\ d.wire[i] = V /\ d.broken[i] = c.broken[i] /\ d.held[i] = c.held[i] /\ d.wr[i] = c.wr[i]
    BY <1>4, <1>5
  <2>2. ConnInv1(c, i)
    BY <1>1 DEF ConnInv
  <2>6. ConnInv1(d, i)
    <3>1. CASE c.broken[i]
      BY <2>1, <2>2, <3>1 DEF ConnInv1
    <3>2. CASE ~c.broken[i]
      <4>1. /\ In(r, w) /\ Distinct(V) /\ \A y : In(y, V) <=> In(y, w) /\ y # r
        BY <3>2, <1>4 DEF Left
      <4>2. /\ \A k \in 1 .. Len(w) : In(w[k], s)
            /\ c.wr[i] = "send" /\ c.held[i] \in Gets => In(c.held[i], s) /\ ~In(c.held[i], w)
            /\ c.rd[i] # "flush" /\ (c.wr[i] = "insert" => c.held[i] \in Gets) /\ (c.wr[i] = "send" => c.held[i] \in Gets \cup Sets)
        BY <2>2, <3>2, <1>4 DEF ConnInv1
      <4>3. \A y : In(y, w) => In(y, s)
        <5>1. \A y : In(y, w) <=> \E k \in 1 .. Len(w) : w[k] = y
          BY <1>41, InOf
        <5> QED
          BY <5>1, <4>2
      <4>4. \A k \in 1 .. Len(V) : In(V[k], V)
        BY <1>4, InOf
      <4>0. \A y : In(y, F) <=> In(y, s) /\ y # r
        BY <1>4 DEF Left
      <4>5. \A k \in 1 .. Len(V) : In(V[k], F)
        BY <4>0, <4>1, <4>3, <4>4
      <4>6. c.wr[i] = "send" /\ c.held[i] \in Gets => In(c.held[i], F) /\ ~In(c.held[i], V)
        BY <4>0, <4>1, <4>2
      <4> QED
        BY <2>1, <4>1, <4>2, <4>5, <4>6 DEF ConnInv1
    <3> QED
      BY <3>1, <3>2
  <2>5. Alone(c, d, i)
    BY <1>4, <1>5 DEF Alone
  <2> QED
    BY <1>1, <2>5, <2>6, OneConn
<1> DEFINE p == Place("inflight", i)
           M == Moved(at, r, Nowhere)
<1>9. Queued(s, at, p) /\ Gets \in SUBSET Ids /\ \A x \in Ids : at[x] # Nowhere => Live(c, x)
  BY <1>2 DEF PlaceInv, Ids, s
<1>10. r \in Gets /\ at[r] = p /\ r \in Ids
  <2>0. In(r, s)
    BY <1>4 DEF Left
  <2>1. r \in Gets
    BY <2>0, <1>41, InOf
  <2> QED
    BY <2>0, <2>1, <1>41, <1>9, QueuedIn, SMTT(30)
<1>11. M = Moved(at, r, Nowhere) /\ M[r] = Nowhere
  BY <1>10 DEF Moved
<1>12. Queued(F, M, p)
  <2>1. \A y \in Ids : In(y, s) => at[y] = p
    BY <1>41, <1>9, QueuedIn, ZenonT(60)
  <2>2. Distinct(F) /\ \A y : In(y, F) <=> In(y, s) /\ y # r
    BY <1>4 DEF Left
  <2>3. \A y \in Ids : In(y, F) => M[y] = p
    BY <2>1, <2>2 DEF Moved
  <2> HIDE DEF M
  <2> QED
    BY <2>2, <2>3, <1>4, <1>9, QueuedIn
<1>13. Live(d, r)
  <2>1. Live(c, r)
    BY <1>9, <1>10, Apart
  <2> QED
    BY <2>1, <1>5 DEF Live
<1> HIDE DEF M, p
<1>14. PlaceInv(d, M)
  <2>1. /\ d.names = c.names /\ d.msgs = c.msgs /\ d.lt = c.lt /\ d.looked = c.looked
    BY <1>6 DEF SamePool, SameQueues
  <2>2. /\ at[r] # Pending /\ at[r] # Named /\ at[r] # Batch
        /\ \A o : at[r] # Place("queue", o) /\ at[r] # Place("held", o) /\ at[r] # Place("looked", o)
        /\ \A o : o # i => at[r] # Place("inflight", o)
    BY <1>10, Apart DEF p
  <2>3. \A j \in Conns : \/ Queued(d.inflight[j], M, Place("inflight", j))
                         \/ d.inflight[j] = c.inflight[j] /\ at[r] # Place("inflight", j)
    BY <1>4, <1>5, <1>12, <2>2 DEF p
  <2> QED
    <3>1. d \in State /\ d.pending = c.pending /\ d.batch = c.batch /\ \A x \in Ids : x # r => d.req[x] = c.req[x]
      BY <1>5
    <3>2. \A j \in Conns : d.wr[j] = c.wr[j] /\ d.held[j] = c.held[j]
      BY <1>5
    <3>10. M = Moved(at, r, Nowhere)
      BY <1>11
    <3> QED
      <4>1. Hands(c, d, at, M, r)
        BY <2>1, <2>2, <2>3, <3>1, <3>2 DEF Hands
      <4> QED
        BY <1>1, <1>2, <1>10, <3>1, <3>10, <4>1, MoveKeeps
<1> QED
  BY <1>5, <1>7, <1>8, <1>10, <1>11, <1>13, <1>14 DEF Inv, Loose

\* A request leaves the list of those that are pending.
LEMMA OutOfPending ==
    ASSUME NEW c, Inv(c), NEW r, NEW T \in Seq(Gets \cup Sets), Left(c.pending, r, T), NEW d, d = [c EXCEPT !.pending = T]
    PROVE  Inv(d) /\ Loose(d, r)
<1>1. c \in State /\ ReqInv(c) /\ ConnInv(c) /\ QueueInv(c) /\ PoolInv(c) /\ RepInv(c)
  BY Parts
<1>2. PICK at : PlaceInv(c, at)
  BY Parts
<1>3. c.pending \in Seq(Gets \cup Sets)
  BY <1>1 DEF State
<1>5. d \in State /\ d.pending = T /\ d.batch = c.batch /\ d.req = c.req
  BY <1>1 DEF State
<1>6. SameQueues(c, d) /\ SamePool(c, d) /\ SameRep(c, d) /\ SameThreads(c, d)
  BY <1>1 DEF State, SameQueues, SamePool, SameRep, SameThreads
<1>7. ReqInv(d) /\ QueueInv(d) /\ PoolInv(d) /\ RepInv(d) /\ ConnInv(d)
  BY <1>1, <1>5, <1>6, Kept
<1> DEFINE M == Moved(at, r, Nowhere)
<1>9. Queued(c.pending, at, Pending) /\ Gets \cup Sets \in SUBSET Ids /\ \A x \in Ids : at[x] # Nowhere => Live(c, x)
  BY <1>2 DEF PlaceInv, Ids
<1>10. at[r] = Pending /\ r \in Ids
  <2>0. In(r, c.pending)
    BY DEF Left
  <2>1. r \in Gets \cup Sets
    BY <2>0, <1>3, InOf
  <2> QED
    BY <2>0, <2>1, <1>3, <1>9, QueuedIn
<1>11. M = Moved(at, r, Nowhere) /\ M[r] = Nowhere
  BY <1>10 DEF Moved
<1>12. Queued(T, M, Pending)
  <2>1. \A y \in Ids : In(y, c.pending) => at[y] = Pending
    BY <1>3, <1>9, QueuedIn
  <2>2. Distinct(T) /\ \A y : In(y, T) <=> In(y, c.pending) /\ y # r
    BY DEF Left
  <2>3. \A y \in Ids : In(y, T) => M[y] = Pending
    BY <2>1, <2>2 DEF Moved
  <2> HIDE DEF M
  <2> QED
    BY <2>2, <2>3, <1>9, QueuedIn
<1>13. Live(d, r)
  <2>1. Live(c, r)
    BY <1>9, <1>10, Apart
  <2> QED
    BY <2>1, <1>5 DEF Live
<1> HIDE DEF M
<1>14. PlaceInv(d, M)
  <2>1. /\ d.names = c.names /\ d.msgs = c.msgs /\ d.lt = c.lt /\ d.looked = c.looked /\ d.inflight = c.inflight /\ d.wr = c.wr
        /\ d.held = c.held
    BY <1>6 DEF SamePool, SameQueues, SameThreads
  <2>2. /\ at[r] # Named /\ at[r] # Batch
        /\ \A o : at[r] # Place("queue", o) /\ at[r] # Place("held", o) /\ at[r] # Place("looked", o) /\ at[r] # Place("inflight", o)
    BY <1>10, Apart
  <2> QED
    <3>1. d \in State /\ Queued(d.pending, M, Pending) /\ d.batch = c.batch /\ \A x \in Ids : x # r => d.req[x] = c.req[x]
      BY <1>5, <1>12
    <3>10. M = Moved(at, r, Nowhere)
      BY <1>11
    <3>11. \A j \in Conns : d.inflight[j] = c.inflight[j] /\ at[r] # Place("inflight", j)
      BY <2>1, <2>2
    <3> QED
      <4>1. Hands(c, d, at, M, r)
        BY <2>1, <2>2, <3>1, <3>11 DEF Hands
      <4> QED
        BY <1>1, <1>2, <1>10, <3>1, <3>10, <4>1, MoveKeeps
<1> QED
  BY <1>5, <1>7, <1>10, <1>11, <1>13, <1>14 DEF Inv, Loose

LEMMA ReaderFlushesStep ==
    ASSUME Inv(th), NEW i \in Conns, ReaderFlushes(i)
    PROVE  Inv(th')
<1> DEFINE c == th
           d == th'
           s == c.inflight[i]
           r == Head(s)
           IF_ == [c.inflight EXCEPT ![i] = Tail(s)]
           c1 == WithFlight(c, IF_, c.wire)
           R == [c.rd EXCEPT ![i] = "stop"]
<1>0. Inv(c) /\ c.rd[i] = "flush"
  BY DEF ReaderFlushes
<1>1. /\ c \in State /\ c.rd \in [Conns -> ReaderPlaces] /\ c.wr \in [Conns -> WriterPlaces] /\ c.exit \in [Conns -> BOOLEAN]
      /\ c.broken \in [Conns -> BOOLEAN] /\ c.lost \in SUBSET Ids /\ c.connected \in Int /\ c.breaks \in Nat
      /\ c.inflight \in [Conns -> Seq(Gets)] /\ c.wire \in [Conns -> Seq(Gets)]
      /\ \A j \in Conns : c.rd[j] = "flush" => c.broken[j]
  BY ConnTypes
<1>2. s = <<>> => d = [c EXCEPT !.rd[i] = "stop"]
  BY DEF ReaderFlushes
<1>3. s # <<>> => d = SendMessage([c EXCEPT !.inflight[i] = Tail(@)], "memcached", r)
  BY DEF ReaderFlushes
<1> HIDE DEF c, d
<1>4. ASSUME s = <<>> PROVE Inv(d)
  <2>1. d = WithReaders(c, R, c.connected, c.exit, c.broken, c.wr, c.lost, c.breaks)
    BY <1>1, <1>2, <1>4 DEF State, WithReaders
  <2>2. R \in [Conns -> ReaderPlaces] /\ \A j \in Conns : R[j] = "flush" => c.broken[j]
    BY <1>1 DEF ReaderPlaces
  <2> HIDE DEF R
  <2>3. /\ c.wr \in [Conns -> WriterPlaces] /\ c.exit \in [Conns -> BOOLEAN] /\ c.broken \in [Conns -> BOOLEAN] /\ c.lost \in SUBSET Ids
        /\ c.connected \in Int /\ c.breaks \in Nat
        /\ \A j \in Conns : (c.broken[j] => c.broken[j]) /\ (R[j] = "flush" => c.broken[j]) /\ (c.wr[j] \in {"insert", "send"} => c.wr[j] = c.wr[j])
    BY <1>1, <2>2
  <2> QED
    BY <1>0, <2>1, <2>2, <2>3, ReaderGoes
<1>5. ASSUME s # <<>> PROVE Inv(d)
  <2>1. s \in Seq(Gets) /\ Distinct(s)
    <3>1. PICK at : PlaceInv(c, at)
      BY <1>0, Parts
    <3> QED
      BY <1>1, <3>1 DEF PlaceInv, Queued
  <2>2. Tail(s) \in Seq(Gets) /\ Left(s, r, Tail(s))
    <3> HIDE DEF s
    <3>1. Tail(s) \in Seq(Gets) /\ Distinct(Tail(s)) /\ \A y : In(y, Tail(s)) <=> In(y, s) /\ y # r
      BY <1>5, <2>1, TailOf, InTail
    <3>2. r = s[1] /\ 1 \in 1 .. Len(s)
      BY <1>5, <2>1, TailOf
    <3>3. In(r, s)
      BY <2>1, <3>2, InOf
    <3> HIDE DEF r
    <3> QED
      BY <3>1, <3>3 DEF Left
  <2>3. IF_ \in [Conns -> Seq(Gets)] /\ IF_[i] = Tail(s) /\ \A j \in Conns : j # i => IF_[j] = c.inflight[j]
    BY <1>1, <2>2
  <2>4. Left(c.inflight[i], r, IF_[i])
    BY <2>2, <2>3
  <2>5. [c EXCEPT !.inflight[i] = Tail(@)] = c1
    BY <1>1 DEF State, WithFlight
  <2>6. c1 = WithFlight(c, IF_, c.wire)
    OBVIOUS
  <2> HIDE DEF IF_, c1, r, s
  <2>7. Inv(c1) /\ Loose(c1, r)
    BY <1>0, <1>1, <2>3, <2>4, <2>6, OutOfFlight
  <2> QED
    BY <1>3, <1>5, <2>5, <2>7, SendKeeps DEF Receivers
<1>6. Inv(d)
  BY <1>4, <1>5
<1> QED
  BY <1>6 DEF d

LEMMA ReaderReceivesStep ==
    ASSUME Inv(th), NEW i \in Conns, ReaderReceives(i)
    PROVE  Inv(th')
<1> DEFINE c == th
           d == th'
           s == c.inflight[i]
           w == c.wire[i]
<1>0. Inv(c) /\ ~c.broken[i]
  BY DEF ReaderReceives
<1>1. /\ c \in State /\ c.inflight \in [Conns -> Seq(Gets)] /\ c.wire \in [Conns -> Seq(Gets)]
  BY ConnTypes
<1>2. PICK r \in Range(w) : d = SendMessage([Asserted(c, In(r, s), "unexpected serial")
                                   EXCEPT !.inflight[i] = Without(@, r), !.wire[i] = Without(@, r)], "memcached", r)
  BY DEF ReaderReceives
<1> HIDE DEF c, d
<1>3. s \in Seq(Gets) /\ w \in Seq(Gets)
  BY <1>1
<1>4. Distinct(s)
  <2>1. PICK at : PlaceInv(c, at)
    BY <1>0, Parts
  <2> QED
    BY <2>1 DEF PlaceInv, Queued
<1>5. Distinct(w) /\ \A k \in 1 .. Len(w) : In(w[k], s)
  BY <1>0, Parts DEF ConnInv, ConnInv1
<1> HIDE DEF s, w
<1>6. In(r, w) /\ In(r, s)
  <2>1. PICK k \in DOMAIN w : w[k] = r
    BY <1>2 DEF Range
  <2>2. k \in 1 .. Len(w)
    BY <1>3
  <2> QED
    BY <2>1, <2>2, <1>5 DEF In
<1> DEFINE S == Without(s, r)
           V == Without(w, r)
           IF_ == [c.inflight EXCEPT ![i] = S]
           WI == [c.wire EXCEPT ![i] = V]
           c1 == WithFlight(c, IF_, WI)
<1>7. S \in Seq(Gets) /\ V \in Seq(Gets) /\ Left(s, r, S) /\ Left(w, r, V)
  <2>1. S \in Seq(Gets) /\ Distinct(S) /\ \A y : In(y, S) <=> In(y, s) /\ y # r
    BY <1>3, <1>4, <1>6, InWithout
  <2>2. V \in Seq(Gets) /\ Distinct(V) /\ \A y : In(y, V) <=> In(y, w) /\ y # r
    BY <1>3, <1>5, <1>6, InWithout
  <2> HIDE DEF S, V
  <2> QED
    BY <1>6, <2>1, <2>2 DEF Left
<1>8. [c EXCEPT !.inflight[i] = Without(@, r), !.wire[i] = Without(@, r)] = c1
  BY <1>1 DEF State, WithFlight, s, w
<1> HIDE DEF S, V
<1>9. /\ IF_ \in [Conns -> Seq(Gets)] /\ WI \in [Conns -> Seq(Gets)] /\ IF_[i] = S /\ WI[i] = V
      /\ \A j \in Conns : j # i => IF_[j] = c.inflight[j] /\ WI[j] = c.wire[j]
  BY <1>1, <1>7
<1>10. Left(c.inflight[i], r, IF_[i]) /\ Left(c.wire[i], r, WI[i])
  BY <1>7, <1>9 DEF s, w
<1>11. d = SendMessage(c1, "memcached", r)
  BY <1>2, <1>6, <1>8 DEF Asserted
<1>12. c1 = WithFlight(c, IF_, WI)
  OBVIOUS
<1> HIDE DEF c1, IF_, WI
<1>13. Inv(c1) /\ Loose(c1, r)
  BY <1>0, <1>9, <1>10, <1>12, OutOfFlight
<1>14. Inv(d)
  BY <1>11, <1>13, SendKeeps DEF Receivers
<1> QED
  BY <1>14 DEF d

LEMMA ReaderDiscardsStep ==
    ASSUME Inv(th), NEW i \in Conns, ReaderDiscards(i)
    PROVE  Inv(th')
<1> DEFINE c == th
           d == th'
           s == c.pending
           r == Head(s)
           T == Tail(s)
           c1 == [c EXCEPT !.pending = T]
           R == [c.rd EXCEPT ![i] = "connect"]
<1>0. Inv(c)
  OBVIOUS
<1>1. /\ c \in State /\ c.rd \in [Conns -> ReaderPlaces] /\ c.wr \in [Conns -> WriterPlaces] /\ c.exit \in [Conns -> BOOLEAN]
      /\ c.broken \in [Conns -> BOOLEAN] /\ c.lost \in SUBSET Ids /\ c.connected \in Int /\ c.breaks \in Nat
      /\ c.pending \in Seq(Gets \cup Sets)
      /\ \A j \in Conns : c.rd[j] = "flush" => c.broken[j]
  BY ConnTypes
<1>2. s = <<>> => d = [c EXCEPT !.rd[i] = "connect"]
  BY DEF ReaderDiscards
<1>3. s # <<>> => d = DiscardReq(c1, r)
  BY DEF ReaderDiscards
<1> HIDE DEF c, d
<1>4. ASSUME s = <<>> PROVE Inv(d)
  <2>1. d = WithReaders(c, R, c.connected, c.exit, c.broken, c.wr, c.lost, c.breaks)
    BY <1>1, <1>2, <1>4 DEF State, WithReaders
  <2>2. R \in [Conns -> ReaderPlaces] /\ \A j \in Conns : R[j] = "flush" => c.broken[j]
    BY <1>1 DEF ReaderPlaces
  <2> HIDE DEF R
  <2>3. /\ c.wr \in [Conns -> WriterPlaces] /\ c.exit \in [Conns -> BOOLEAN] /\ c.broken \in [Conns -> BOOLEAN] /\ c.lost \in SUBSET Ids
        /\ c.connected \in Int /\ c.breaks \in Nat
        /\ \A j \in Conns : (c.broken[j] => c.broken[j]) /\ (R[j] = "flush" => c.broken[j]) /\ (c.wr[j] \in {"insert", "send"} => c.wr[j] = c.wr[j])
    BY <1>1, <2>2
  <2> QED
    BY <1>0, <2>1, <2>2, <2>3, ReaderGoes
<1>5. ASSUME s # <<>> PROVE Inv(d)
  <2>1. s \in Seq(Gets \cup Sets) /\ Distinct(s)
    <3>1. PICK at : PlaceInv(c, at)
      BY <1>0, Parts
    <3> QED
      BY <1>1, <3>1 DEF PlaceInv, Queued
  <2>2. T \in Seq(Gets \cup Sets) /\ Left(s, r, T)
    <3> HIDE DEF s
    <3>1. T \in Seq(Gets \cup Sets) /\ Distinct(T) /\ \A y : In(y, T) <=> In(y, s) /\ y # r
      BY <1>5, <2>1, TailOf, InTail
    <3>2. r = s[1] /\ 1 \in 1 .. Len(s)
      BY <1>5, <2>1, TailOf
    <3>3. In(r, s)
      BY <2>1, <3>2, InOf
    <3> HIDE DEF r, T
    <3> QED
      BY <3>1, <3>3 DEF Left
  <2>3. c1 = [c EXCEPT !.pending = T] /\ Left(c.pending, r, T)
    BY <2>2
  <2> HIDE DEF c1, r, s, T
  <2>4. Inv(c1) /\ Loose(c1, r)
    BY <1>0, <2>2, <2>3, OutOfPending
  <2> QED
    BY <1>3, <1>5, <2>4, DiscardKeeps
<1>6. Inv(d)
  BY <1>4, <1>5
<1> QED
  BY <1>6 DEF d

\* The request that was sent is freed, or in flight; one that was in flight when the connection broke may be gone already.
LEMMA WriterSendsStep ==
    ASSUME Gets \cap Sets = {}, Inv(th), th.failed = {}, NEW i \in Conns, WriterSends(i)
    PROVE  Inv(th')
<1> DEFINE c == th
           d == th'
           r == c.held[i]
           to == IF c.broken[i] THEN "gone" ELSE "relock"
           W == [c.wr EXCEPT ![i] = to]
           H == [c.held EXCEPT ![i] = 0]
<1>0. Inv(c) /\ c.wr[i] = "send" /\ c.failed = {} /\ d = SendNow(Asserted(c, Live(c, r), "request used after free"), i, r)
  BY DEF WriterSends
<1>1. c \in State /\ ReqInv(c) /\ ConnInv(c) /\ QueueInv(c) /\ PoolInv(c) /\ RepInv(c)
  BY Parts
<1>2. PICK at : PlaceInv(c, at)
  BY Parts
<1> HIDE DEF c, d
<1>3. /\ c.wr \in [Conns -> WriterPlaces] /\ c.held \in [Conns -> Ids \cup {0}] /\ c.wire \in [Conns -> Seq(Gets)]
      /\ c.inflight \in [Conns -> Seq(Gets)] /\ c.req \in [Ids -> Requests] /\ c.broken \in [Conns -> BOOLEAN]
  BY <1>1 DEF State
<1>4. ConnInv1(c, i) /\ r \in Gets \cup Sets /\ r \in Ids
  BY <1>0, <1>1 DEF ConnInv, ConnInv1, Ids
<1>5. /\ to \in WriterPlaces /\ to \notin {"insert", "send"} /\ W \in [Conns -> WriterPlaces] /\ H \in [Conns -> Ids \cup {0}]
      /\ W[i] = to /\ H[i] = 0 /\ \A j \in Conns : j # i => W[j] = c.wr[j] /\ H[j] = c.held[j]
  BY <1>3 DEF WriterPlaces
<1>6. ASSUME r \in Sets PROVE Inv(d)
  <2> DEFINE c1 == [c EXCEPT !.wr = W, !.held = H]
             R == [c.req EXCEPT ![r].st = "freed"]
             M == Moved(at, r, Nowhere)
  <2>1. r \notin Gets
    BY <1>6
  <2>2. at[r] = Place("held", i) /\ Live(c, r)
    <3>1. Held(c, i, at) /\ \A x \in Ids : at[x] # Nowhere => Live(c, x)
      BY <1>2 DEF PlaceInv
    <3>2. at[r] = Place("held", i)
      BY <3>1, <1>0, <1>6 DEF Held, Holds
    <3> QED
      BY <3>1, <3>2, <1>4, Apart
  <2>3. ~In(r, c.pending) /\ ~In(r, c.msgs["memcached"])
    BY <1>1, <1>2, <2>2, Unlisted, Apart
  <2>4. FreeReq(c, r) = [c EXCEPT !.req = R] /\ R \in [Ids -> Requests]
    BY <1>1, <1>4, <2>2, <2>3, Frees, ZenonT(60)
  <2>5. d = Sent(FreeReq(c, r), i, r)
    BY <1>0, <1>6, <2>1, <2>2 DEF SendNow, DiscardReq, Asserted
  <2>6. d = [c EXCEPT !.req = R, !.wr = W, !.held = H]
    <3> DEFINE f == [c EXCEPT !.req = R]
    <3>1. f.wr = c.wr /\ f.held = c.held /\ f.broken = c.broken /\ f.wire = c.wire /\ f \in State
      <4> HIDE DEF R
      <4> QED
        BY <1>1, <2>4 DEF State
    <3>2. d = Sent(f, i, r)
      BY <2>4, <2>5
    <3> HIDE DEF f
    <3>3. d = [f EXCEPT !.wr = W, !.held = H]
      <4>1. CASE c.broken[i]
        <5>1. d = [f EXCEPT !.wr[i] = "gone", !.held[i] = 0]
          BY <3>1, <3>2, <4>1 DEF Sent
        <5> QED
          BY <5>1, <3>1, <4>1 DEF State
      <4>2. CASE ~c.broken[i]
        <5>1. d = [f EXCEPT !.wr[i] = "relock", !.held[i] = 0, !.wire[i] = @]
          BY <3>1, <3>2, <4>2, <2>1 DEF Sent
        <5>2. [c.wire EXCEPT ![i] = c.wire[i]] = c.wire
          BY <1>3
        <5>3. d = [f EXCEPT !.wr[i] = "relock", !.held[i] = 0]
          BY <5>1, <5>2, <3>1 DEF State
        <5> QED
          BY <5>3, <3>1, <4>2 DEF State
      <4> QED
        BY <4>1, <4>2
    <3> QED
      BY <3>3 DEF f
  <2>7. c1 = [c EXCEPT !.wr = W, !.held = H]
    OBVIOUS
  <2> HIDE DEF c1, W, H, r, to
  <2>8. /\ c1 \in State /\ c1.wr = W /\ c1.held = H /\ c1.pending = c.pending /\ c1.rd = c.rd /\ c1.inflight = c.inflight
        /\ c1.wire = c.wire /\ c1.broken = c.broken /\ c1.batch = c.batch /\ c1.req = c.req
    BY <1>1, <1>5, <2>7, ZenonT(60) DEF State
  <2>9. SameQueues(c, c1) /\ SamePool(c, c1) /\ SameRep(c, c1)
    BY <1>1, <2>7 DEF State, SameQueues, SamePool, SameRep
  <2>10. ReqInv(c1) /\ QueueInv(c1) /\ PoolInv(c1) /\ RepInv(c1)
    BY <1>1, <2>8, <2>9, Kept
  <2>11. ConnInv(c1)
    <3>1. /\ c1.rd[i] = c.rd[i] /\ c1.inflight[i] = c.inflight[i] /\ c1.wire[i] = c.wire[i] /\ c1.broken[i] = c.broken[i]
          /\ c1.wr[i] \notin {"insert", "send"}
      BY <1>5, <2>8
    <3>2. ConnInv1(c1, i)
      BY <1>4, <3>1 DEF ConnInv1
    <3>3. Alone(c, c1, i)
      BY <1>5, <2>8 DEF Alone
    <3> QED
      BY <1>1, <3>2, <3>3, OneConn
  <2>12. M = Moved(at, r, Nowhere) /\ M[r] = Nowhere
    BY <1>4 DEF Moved
  <2> HIDE DEF M
  <2>13. PlaceInv(c1, M)
    <3>1. /\ c1.names = c.names /\ c1.msgs = c.msgs /\ c1.lt = c.lt /\ c1.looked = c.looked
      BY <2>9 DEF SamePool, SameQueues
    <3>2. /\ at[r] # Pending /\ at[r] # Named /\ at[r] # Batch
          /\ \A o : at[r] # Place("queue", o) /\ at[r] # Place("inflight", o) /\ at[r] # Place("looked", o)
          /\ \A o : o # i => at[r] # Place("held", o)
      BY <2>2, Apart
    <3>3. \A j \in Conns : Held(c1, j, M) \/ (c1.wr[j] = c.wr[j] /\ c1.held[j] = c.held[j] /\ at[r] # Place("held", j))
      <4> TAKE j \in Conns
      <4>1. CASE j = i
        BY <4>1, <1>5, <2>8 DEF Held, Holds
      <4>2. CASE j # i
        BY <4>2, <1>5, <2>8, <3>2
      <4> QED
        BY <4>1, <4>2
    <3>4. Hands(c, c1, at, M, r)
      BY <2>8, <3>1, <3>2, <3>3 DEF Hands
    <3>5. c1 \in State /\ \A x \in Ids : x # r => c1.req[x] = c.req[x]
      BY <2>8
    <3> QED
      BY <1>1, <1>2, <1>4, <2>12, <3>4, <3>5, MoveKeeps
  <2>14. Inv(c1) /\ Loose(c1, r)
    <3>1. Live(c1, r)
      BY <2>2, <2>8 DEF Live
    <3> QED
      BY <1>4, <2>8, <2>10, <2>11, <2>12, <2>13, <3>1 DEF Inv, Loose
  <2>15. d = FreeReq(c1, r)
    <3>1. Live(c1, r) /\ ~In(r, c1.pending) /\ ~In(r, c1.msgs["memcached"])
      BY <2>3, <2>8, <2>9, <2>14 DEF Loose, SameQueues
    <3>2. FreeReq(c1, r) = [c1 EXCEPT !.req = [c1.req EXCEPT ![r].st = "freed"]]
      BY <1>4, <2>8, <3>1, Frees, ZenonT(60)
    <3>3. FreeReq(c1, r) = [c1 EXCEPT !.req = R]
      BY <3>2, <2>8
    <3> HIDE DEF R
    <3> QED
      BY <3>3, <2>6, <2>7, <1>1 DEF State
  <2> QED
    BY <2>14, <2>15, FreeKeeps
<1>7. ASSUME r \notin Sets PROVE Inv(d)
  <2> DEFINE F == IF Live(c, r) THEN {} ELSE {"request used after free"}
             f == Asserted(c, Live(c, r), "request used after free")
             WI == IF c.broken[i] THEN c.wire ELSE [c.wire EXCEPT ![i] = Append(@, r)]
  <2>1. r \in Gets
    BY <1>4, <1>7
  <2>2. f = [c EXCEPT !.failed = F] /\ F \in SUBSET KnownFailures
    BY <1>0, <1>1, ZenonT(60) DEF Asserted, KnownFailures, State
  <2>3. d = Sent(f, i, r)
    BY <1>0, <1>7 DEF SendNow
  <2> HIDE DEF F, f
  <2>4. f \in State /\ f.wr = c.wr /\ f.held = c.held /\ f.broken = c.broken /\ f.wire = c.wire
    BY <1>1, <2>2 DEF State
  <2>5. d = [f EXCEPT !.wr = W, !.held = H, !.wire = WI]
    <3>1. CASE c.broken[i]
      <4>1. d = [f EXCEPT !.wr[i] = "gone", !.held[i] = 0]
        BY <2>3, <2>4, <3>1 DEF Sent
      <4> QED
        BY <4>1, <2>4, <3>1 DEF State
    <3>2. CASE ~c.broken[i]
      <4>1. d = [f EXCEPT !.wr[i] = "relock", !.held[i] = 0, !.wire[i] = Append(@, r)]
        BY <2>1, <2>3, <2>4, <3>2 DEF Sent
      <4> QED
        BY <4>1, <2>4, <3>2 DEF State
    <3> QED
      BY <3>1, <3>2
  <2>6. WI \in [Conns -> Seq(Gets)] /\ (\A j \in Conns : j # i => WI[j] = c.wire[j]) /\ (~c.broken[i] => WI[i] = Append(c.wire[i], r))
    <3>1. Append(c.wire[i], r) \in Seq(Gets)
      BY <1>3, <2>1, AppendTo
    <3> HIDE DEF r
    <3> QED
      BY <1>3, <3>1
  <2> HIDE DEF WI, W, H, to, r
  <2>7. d = [c EXCEPT !.failed = F, !.wr = W, !.held = H, !.wire = WI]
    BY <1>1, <2>2, <2>5 DEF State
  <2>8. /\ d \in State /\ d.wr = W /\ d.held = H /\ d.pending = c.pending /\ d.rd = c.rd /\ d.inflight = c.inflight
        /\ d.wire = WI /\ d.broken = c.broken /\ d.batch = c.batch /\ d.req = c.req
    <3>1. c \in State /\ F \in SUBSET KnownFailures /\ W \in [Conns -> WriterPlaces] /\ H \in [Conns -> Ids \cup {0}] /\ WI \in [Conns -> Seq(Gets)]
      BY <1>1, <1>5, <2>2, <2>6
    <3>2. d \in State
      BY <2>7, <3>1 DEF State
    <3> QED
      BY <2>7, <3>1, <3>2, ZenonT(60) DEF State
  <2>9. SameQueues(c, d) /\ SamePool(c, d) /\ SameRep(c, d)
    BY <1>1, <2>7 DEF State, SameQueues, SamePool, SameRep
  <2>10. ConnInv(d)
    <3>1. /\ d.rd[i] = c.rd[i] /\ d.inflight[i] = c.inflight[i] /\ d.wire[i] = WI[i] /\ d.broken[i] = c.broken[i]
          /\ d.wr[i] \notin {"insert", "send"} /\ c.inflight[i] \in Seq(Gets) /\ c.wire[i] \in Seq(Gets)
      BY <1>3, <1>5, <2>8
    <3>2. ASSUME ~c.broken[i] PROVE Distinct(WI[i]) /\ \A k \in 1 .. Len(WI[i]) : In(WI[i][k], c.inflight[i])
      <4> DEFINE w == c.wire[i]
                 s == c.inflight[i]
                 A == Append(w, r)
      <4>1. Distinct(w) /\ (\A k \in 1 .. Len(w) : In(w[k], s)) /\ In(r, s) /\ ~In(r, w) /\ WI[i] = A /\ w \in Seq(Gets)
        BY <1>0, <1>4, <2>1, <2>6, <3>1, <3>2 DEF ConnInv1, r
      <4> HIDE DEF w, s
      <4>2. Distinct(A)
        BY <2>1, <4>1, AppendDistinct
      <4>3. Len(w) \in Nat /\ Len(A) = Len(w) + 1 /\ A[Len(w) + 1] = r /\ \A k \in 1 .. Len(w) : A[k] = w[k]
        BY <2>1, <4>1, AppendTo
      <4> HIDE DEF A
      <4>4. \A k \in 1 .. Len(A) : k \in 1 .. Len(w) \/ k = Len(w) + 1
        BY <4>3
      <4>5. \A k \in 1 .. Len(A) : In(A[k], s)
        BY <4>1, <4>3, <4>4
      <4> QED
        BY <4>1, <4>2, <4>5 DEF s
    <3>3. ConnInv1(d, i)
      BY <1>4, <3>1, <3>2 DEF ConnInv1
    <3>4. Alone(c, d, i)
      BY <1>5, <2>6, <2>8 DEF Alone
    <3> QED
      BY <1>1, <3>3, <3>4, OneConn
  <2>11. \A j \in Conns : d.inflight[j] = c.inflight[j] /\ (Holds(d, j) => Holds(c, j) /\ d.held[j] = c.held[j])
    BY <1>5, <2>8 DEF Holds
  <2> QED
    BY <1>0, <2>8, <2>9, <2>10, <2>11, Quietly
<1>8. Inv(d)
  BY <1>6, <1>7
<1> QED
  BY <1>8 DEF d

-----------------------------------------------------------------------------
(* Requests are made and given up.                                         *)

\* No request that lives is taken back, and none is called back twice.
LEMMA ReqKeeps ==
    ASSUME NEW c, Inv(c), NEW R \in [Ids -> Requests], \A x \in Ids : c.req[x].st = "live" => R[x].st = "live",
           \A x \in Ids : R[x].calls <= 1 /\ (R[x].cb => R[x].calls = 0), NEW d, d = [c EXCEPT !.req = R]
    PROVE  /\ Inv(d) /\ d.req = R /\ d.pending = c.pending /\ d.names = c.names /\ d.connected = c.connected
           /\ \A at : PlaceInv(c, at) => PlaceInv(d, at)
<1>1. c \in State /\ ConnInv(c) /\ QueueInv(c) /\ PoolInv(c) /\ RepInv(c)
  BY Parts
<1>2. PICK at0 : PlaceInv(c, at0)
  BY Parts
<1>3. d \in State /\ d.req = R /\ d.batch = c.batch
  BY <1>1 DEF State
<1>4. SameRep(c, d) /\ SameQueues(c, d) /\ SameConns(c, d) /\ SamePool(c, d)
  BY <1>1 DEF State, SameRep, SameQueues, SameConns, SameThreads, SamePool
<1>5. ConnInv(d) /\ PoolInv(d) /\ RepInv(d) /\ QueueInv(d)
  BY <1>1, <1>4, Kept DEF SameConns
<1>6. ReqInv(d)
  BY <1>3 DEF ReqInv
<1>7. ASSUME NEW at, PlaceInv(c, at) PROVE PlaceInv(d, at)
  <2>1. \A x \in Ids : at[x] # Nowhere => Live(d, x)
    BY <1>3, <1>7 DEF PlaceInv, Live
  <2> QED
    BY <1>3, <1>4, <1>7, <2>1 DEF PlaceInv, SameQueues, SameConns, SameThreads, SamePool, Held, Holds, Looked
<1>8. Inv(d)
  BY <1>2, <1>3, <1>5, <1>6, <1>7 DEF Inv
<1> QED
  BY <1>3, <1>4, <1>7, <1>8 DEF SameConns, SamePool

\* A request that is made was nowhere before.
LEMMA Fresh ==
    ASSUME NEW c, Inv(c), NEW r \in Ids, c.req[r].st = "idle", NEW b \in BOOLEAN,
           NEW d, d = [c EXCEPT !.req[r] = [st |-> "live", cb |-> b, calls |-> 0]]
    PROVE  Inv(d) /\ Loose(d, r) /\ d.pending = c.pending /\ d.names = c.names /\ d.connected = c.connected
<1> DEFINE v == [st |-> "live", cb |-> b, calls |-> 0]
           R == [c.req EXCEPT ![r] = v]
<1>1. c \in State /\ ReqInv(c) /\ c.req \in [Ids -> Requests]
  BY Parts DEF State
<1>2. v \in Requests /\ v.st = "live" /\ v.calls = 0
  BY DEF Requests
<1>3. d = [c EXCEPT !.req = R]
  BY <1>1 DEF State
<1> HIDE DEF v
<1>4. R \in [Ids -> Requests] /\ R[r] = v /\ \A x \in Ids : x # r => R[x] = c.req[x]
  BY <1>1, <1>2
<1> HIDE DEF R
<1>5. /\ \A x \in Ids : c.req[x].st = "live" => R[x].st = "live"
      /\ \A x \in Ids : R[x].calls <= 1 /\ (R[x].cb => R[x].calls = 0)
  BY <1>1, <1>2, <1>4 DEF ReqInv
<1>6. /\ Inv(d) /\ d.req = R /\ d.pending = c.pending /\ d.names = c.names /\ d.connected = c.connected
      /\ \A at : PlaceInv(c, at) => PlaceInv(d, at)
  BY <1>3, <1>4, <1>5, ReqKeeps
<1>7. PICK at : PlaceInv(c, at)
  BY Parts
<1>8. at[r] = Nowhere
  BY <1>7 DEF PlaceInv, Live
<1>9. Live(d, r)
  BY <1>2, <1>4, <1>6 DEF Live
<1> QED
  BY <1>6, <1>7, <1>8, <1>9 DEF Loose

\* pthread_cond_signal wakes one of the writers that sleep, if any does.
LEMMA SignalKeeps ==
    ASSUME NEW c, Inv(c), NEW d \in SignalWriter(c)
    PROVE  Inv(d)
<1>1. /\ c \in State /\ c.rd \in [Conns -> ReaderPlaces] /\ c.wr \in [Conns -> WriterPlaces] /\ c.exit \in [Conns -> BOOLEAN]
      /\ c.broken \in [Conns -> BOOLEAN] /\ c.lost \in SUBSET Ids /\ c.connected \in Int /\ c.breaks \in Nat
      /\ \A j \in Conns : c.rd[j] = "flush" => c.broken[j]
  BY ConnTypes
<1>2. CASE d = c
  BY <1>2
<1>3. ASSUME NEW i \in Conns, d = [c EXCEPT !.wr[i] = "woken"] PROVE Inv(d)
  <2> DEFINE W == [c.wr EXCEPT ![i] = "woken"]
  <2>1. d = WithReaders(c, c.rd, c.connected, c.exit, c.broken, W, c.lost, c.breaks)
    BY <1>1, <1>3 DEF State, WithReaders
  <2>2. W \in [Conns -> WriterPlaces] /\ \A j \in Conns : W[j] \in {"insert", "send"} => W[j] = c.wr[j]
    BY <1>1 DEF WriterPlaces
  <2> HIDE DEF W
  <2>3. \A j \in Conns : (c.broken[j] => c.broken[j]) /\ (c.rd[j] = "flush" => c.broken[j]) /\ (W[j] \in {"insert", "send"} => W[j] = c.wr[j])
    BY <1>1, <2>2
  <2> QED
    BY <1>1, <2>1, <2>2, <2>3, ReaderGoes
<1>4. d = c \/ \E i \in Conns : d = [c EXCEPT !.wr[i] = "woken"]
  BY DEF SignalWriter, Sleepers
<1> QED
  BY <1>2, <1>3, <1>4

LEMMA PendingKeeps ==
    ASSUME NEW c, Inv(c), NEW r \in Gets \cup Sets, Loose(c, r), NEW d, d = [c EXCEPT !.pending = Append(@, r)]
    PROVE  Inv(d)
<1> DEFINE A == Append(c.pending, r)
<1>1. c \in State /\ ReqInv(c) /\ ConnInv(c) /\ QueueInv(c) /\ PoolInv(c) /\ RepInv(c)
  BY Parts
<1>2. PICK at : PlaceInv(c, at) /\ at[r] = Nowhere
  BY DEF Loose
<1>3. r \in Ids /\ Live(c, r) /\ c.pending \in Seq(Gets \cup Sets) /\ Gets \cup Sets \in SUBSET Ids /\ Queued(c.pending, at, Pending)
  BY <1>1, <1>2 DEF Loose, State, Ids, PlaceInv
<1> DEFINE M == Moved(at, r, Pending)
<1>4. at[r] # Pending
  BY <1>2, Apart
<1>5. Queued(A, M, Pending) /\ A \in Seq(Gets \cup Sets)
  BY <1>3, <1>4, QueuedAppend
<1>6. M = Moved(at, r, Pending) /\ d = [c EXCEPT !.pending = A]
  BY <1>1 DEF State
<1> HIDE DEF A, M
<1>7. d \in State /\ d.pending = A /\ d.batch = c.batch /\ d.req = c.req
  BY <1>1, <1>5, <1>6, ZenonT(60) DEF State
<1>8. SameQueues(c, d) /\ SamePool(c, d) /\ SameRep(c, d) /\ SameThreads(c, d)
  BY <1>1, <1>6 DEF State, SameQueues, SamePool, SameRep, SameThreads
<1>9. ReqInv(d) /\ QueueInv(d) /\ PoolInv(d) /\ RepInv(d) /\ ConnInv(d)
  BY <1>1, <1>7, <1>8, Kept
<1>10. PlaceInv(d, M)
  <2>1. /\ d.names = c.names /\ d.msgs = c.msgs /\ d.lt = c.lt /\ d.looked = c.looked /\ d.inflight = c.inflight /\ d.wr = c.wr
        /\ d.held = c.held
    BY <1>8 DEF SamePool, SameQueues, SameThreads
  <2>2. /\ at[r] # Named /\ at[r] # Batch
        /\ \A o : at[r] # Place("queue", o) /\ at[r] # Place("held", o) /\ at[r] # Place("looked", o) /\ at[r] # Place("inflight", o)
    BY <1>2, Apart
  <2>3. d \in State /\ Queued(d.pending, M, Pending) /\ d.batch = c.batch /\ \A x \in Ids : x # r => d.req[x] = c.req[x]
    BY <1>5, <1>7
  <2>4. Hands(c, d, at, M, r)
    BY <2>1, <2>2, <2>3 DEF Hands
  <2>5. Live(d, r)
    BY <1>3, <1>7 DEF Live
  <2> QED
    BY <1>1, <1>2, <1>3, <1>6, <2>3, <2>4, <2>5, MoveKeeps, ZenonT(60)
<1> QED
  BY <1>7, <1>9, <1>10 DEF Inv

LEMMA DispatchStep ==
    ASSUME Inv(th), NEW r, Dispatch(r)
    PROVE  Inv(th')
<1> DEFINE c == th
           d == th'
           b == r \in Gets
           c0 == [c EXCEPT !.req[r] = [st |-> "live", cb |-> b, calls |-> 0]]
           c1 == [c0 EXCEPT !.pending = Append(@, r)]
<1>0. Inv(c) /\ r \in Gets \cup Sets /\ c.req[r].st = "idle" /\ d \in DispatchSet(c0, r)
  BY DEF Dispatch
<1>1. r \in Ids /\ b \in BOOLEAN /\ c0 = [c EXCEPT !.req[r] = [st |-> "live", cb |-> b, calls |-> 0]]
  BY <1>0 DEF Ids
<1> HIDE DEF c, d, b, c0
<1>2. Inv(c0) /\ Loose(c0, r)
  BY <1>0, <1>1, Fresh
<1>3. Inv(c1)
  BY <1>0, <1>2, PendingKeeps
<1>4. Inv(DiscardReq(c0, r))
  BY <1>2, DiscardKeeps
<1>5. d \in SignalWriter(c1) \/ d = DiscardReq(c0, r)
  BY <1>0 DEF DispatchSet
<1> HIDE DEF c1
<1>6. Inv(d)
  BY <1>3, <1>4, <1>5, SignalKeeps
<1> QED
  BY <1>6 DEF d

LEMMA CancelGetStep ==
    ASSUME Inv(th), NEW r, CancelGet(r)
    PROVE  Inv(th')
<1> DEFINE c == th
           d == th'
           R == [c.req EXCEPT ![r].cb = FALSE]
           c0 == [c EXCEPT !.req = R]
           s == c0.pending
           T == Without(s, r)
           c1 == [c0 EXCEPT !.pending = T]
<1>1. Inv(c) /\ r \in Ids
  BY DEF CancelGet, Ids
<1>2. c \in State /\ ReqInv(c) /\ c.req \in [Ids -> Requests]
  BY <1>1, Parts DEF State
<1>3. [c EXCEPT !.req[r].cb = FALSE] = c0
  BY <1>2 DEF State
<1>4. d = IF In(r, s) THEN FreeReq(c1, r) ELSE c0
  BY <1>3 DEF CancelGet
<1> HIDE DEF c, d
<1>5. /\ R \in [Ids -> Requests] /\ (\A x \in Ids : x # r => R[x] = c.req[x])
      /\ R[r].st = c.req[r].st /\ R[r].cb = FALSE /\ R[r].calls = c.req[r].calls
  BY <1>1, <1>2 DEF Requests
<1>6. c0 = [c EXCEPT !.req = R]
  OBVIOUS
<1> HIDE DEF R, c0
<1>7. /\ \A x \in Ids : c.req[x].st = "live" => R[x].st = "live"
      /\ \A x \in Ids : R[x].calls <= 1 /\ (R[x].cb => R[x].calls = 0)
  BY <1>1, <1>2, <1>5 DEF ReqInv
<1>8. Inv(c0)
  BY <1>1, <1>5, <1>6, <1>7, ReqKeeps
<1>9. ASSUME In(r, s) PROVE Inv(FreeReq(c1, r))
  <2>1. s \in Seq(Gets \cup Sets) /\ Distinct(s)
    <3>1. PICK at : PlaceInv(c0, at)
      BY <1>8, Parts
    <3>2. c0 \in State
      BY <1>8, Parts
    <3> QED
      BY <3>1, <3>2 DEF PlaceInv, Queued, State
  <2> HIDE DEF s
  <2>2. T \in Seq(Gets \cup Sets) /\ Distinct(T) /\ \A y : In(y, T) <=> In(y, s) /\ y # r
    BY <1>9, <2>1, InWithout
  <2> HIDE DEF T
  <2>3. Left(s, r, T)
    BY <1>9, <2>2 DEF Left
  <2>4. c1 = [c0 EXCEPT !.pending = T] /\ Left(c0.pending, r, T)
    BY <2>3 DEF s
  <2> HIDE DEF c1
  <2>5. Inv(c1) /\ Loose(c1, r)
    BY <1>8, <2>2, <2>4, OutOfPending
  <2> QED
    BY <2>5, FreeKeeps
<1>10. Inv(d)
  BY <1>4, <1>8, <1>9
<1> QED
  BY <1>10 DEF d

-----------------------------------------------------------------------------
(* The error reporter.                                                     *)

LEMMA RepKeeps ==
    ASSUME NEW c, Inv(c), NEW P \in Reports_, NEW e \in Nat, NEW d, d = [c EXCEPT !.errors = e, !.rep = P],
           P.told + P.cur = e, P.cur > 0 <=> P.timer # "none"
    PROVE  Inv(d)
<1>1. c \in State /\ ReqInv(c) /\ ConnInv(c) /\ QueueInv(c) /\ PoolInv(c)
  BY Parts
<1>2. PICK at : PlaceInv(c, at)
  BY Parts
<1>3. /\ d \in State /\ d.rep = P /\ d.errors = e /\ d.batch = c.batch /\ d.req = c.req /\ d.pending = c.pending
  BY <1>1 DEF State
<1>4. SameQueues(c, d) /\ SameThreads(c, d) /\ SamePool(c, d)
  BY <1>1 DEF State, SameQueues, SameThreads, SamePool
<1>5. ReqInv(d) /\ ConnInv(d) /\ QueueInv(d) /\ PoolInv(d)
  BY <1>1, <1>3, <1>4, Kept
<1>6. RepInv(d)
  BY <1>3 DEF RepInv
<1>7. PlaceInv(d, at)
  BY <1>2, <1>3, <1>4, KeptPlaces, ZenonT(60) DEF SameThreads, SamePool, SameQueues
<1> QED
  BY <1>3, <1>5, <1>6, <1>7 DEF Inv

LEMMA ReportsStep ==
    ASSUME Inv(th), Reports
    PROVE  Inv(th')
<1> DEFINE c == th
           d == th'
           p == c.rep
<1>1. Inv(c) /\ c \in State /\ c.errors \in Nat /\ RepInv(c)
  BY Parts DEF State
<1>2. /\ p \in Reports_ /\ p.cur \in Nat /\ p.told \in Nat /\ p.data \in Nat /\ p.told + p.cur = c.errors /\ (p.cur > 0 <=> p.timer # "none")
      /\ p.timer \in {"none", "linked", "fired"}
  BY <1>1 DEF State, Reports_, RepInv
<1>3. RecordError \/ ReporterExpires \/ ReporterOnTimeout
  BY DEF Reports
<1>4. PICK P, e : /\ P \in Reports_ /\ e \in Nat /\ d = [c EXCEPT !.errors = e, !.rep = P]
                  /\ P.told + P.cur = e /\ (P.cur > 0 <=> P.timer # "none")
  <2>1. CASE RecordError /\ p.cur = 0
    <3> DEFINE P == [cur |-> 1, timer |-> "linked", data |-> c.errors + 1, told |-> p.told]
    <3>1. Asserted(c, p.timer # "linked", "reporter->_timer") = c
      BY <2>1, <1>2 DEF Asserted
    <3>2. d = [c EXCEPT !.errors = @ + 1, !.rep = [cur |-> 1, timer |-> "linked", data |-> c.errors + 1, told |-> @.told]]
      BY <3>1, <2>1 DEF RecordError
    <3>3. d = [c EXCEPT !.errors = c.errors + 1, !.rep = P]
      BY <3>2, <1>1 DEF State
    <3>4. P \in Reports_ /\ c.errors + 1 \in Nat /\ P.told + P.cur = c.errors + 1 /\ (P.cur > 0 <=> P.timer # "none")
      BY <1>1, <1>2, <2>1 DEF Reports_
    <3> QED
      BY <3>3, <3>4
  <2>2. CASE RecordError /\ p.cur # 0
    <3> DEFINE P == [cur |-> p.cur + 1, timer |-> p.timer, data |-> c.errors + 1, told |-> p.told]
    <3>1. d = [c EXCEPT !.errors = @ + 1, !.rep = [cur |-> @.cur + 1, timer |-> @.timer, data |-> c.errors + 1, told |-> @.told]]
      BY <2>2 DEF RecordError
    <3>3. d = [c EXCEPT !.errors = c.errors + 1, !.rep = P]
      BY <3>1, <1>1 DEF State
    <3>4. P \in Reports_ /\ c.errors + 1 \in Nat /\ P.told + P.cur = c.errors + 1 /\ (P.cur > 0 <=> P.timer # "none")
      BY <1>1, <1>2, <2>2 DEF Reports_
    <3> QED
      BY <3>3, <3>4
  <2>3. CASE ReporterExpires
    <3> DEFINE P == [cur |-> p.cur, timer |-> "fired", data |-> p.data, told |-> p.told]
    <3>1. d = [c EXCEPT !.rep.timer = "fired"] /\ p.timer = "linked"
      BY <2>3 DEF ReporterExpires
    <3>2. [p EXCEPT !.timer = "fired"] = P
      BY <1>2 DEF Reports_
    <3>3. d = [c EXCEPT !.errors = c.errors, !.rep = P]
      <4> HIDE DEF P
      <4> QED
        BY <3>1, <3>2, <1>1 DEF State
    <3>4. P \in Reports_ /\ P.told + P.cur = c.errors /\ (P.cur > 0 <=> P.timer # "none")
      BY <1>1, <1>2, <3>1 DEF Reports_
    <3> QED
      BY <1>1, <3>3, <3>4
  <2>4. CASE ReporterOnTimeout
    <3> DEFINE P == [cur |-> 0, timer |-> "none", data |-> p.data, told |-> p.told + p.cur]
    <3>1. d = [c EXCEPT !.rep = [cur |-> 0, timer |-> "none", data |-> @.data, told |-> @.told + @.cur]]
      BY <2>4 DEF ReporterOnTimeout
    <3>2. d = [c EXCEPT !.errors = c.errors, !.rep = P]
      BY <3>1, <1>1 DEF State
    <3>3. P \in Reports_ /\ P.told + P.cur = c.errors /\ (P.cur > 0 <=> P.timer # "none")
      BY <1>1, <1>2 DEF Reports_
    <3> QED
      BY <1>1, <3>2, <3>3
  <2> QED
    BY <1>3, <2>1, <2>2, <2>3, <2>4
<1> HIDE DEF c, d
<1>5. Inv(d)
  BY <1>1, <1>4, RepKeeps
<1> QED
  BY <1>5 DEF d

-----------------------------------------------------------------------------
(* The pool of lookup threads, as numbers.                                 *)

Turns(lt, t, to) == [lt EXCEPT ![t] = to]

\* How the number of idle and of coming threads changes with what one of them does.
LEMMA Change ==
    ASSUME IsFiniteSet(Lookups), NEW lt \in [Lookups -> LookupPlaces], NEW t \in Lookups, NEW to \in LookupPlaces,
           NEW new, new = Turns(lt, t, to)
    PROVE  /\ new \in [Lookups -> LookupPlaces] /\ new[t] = to /\ \A u \in Lookups : u # t => new[u] = lt[u]
           /\ Cardinality(Idle(lt)) \in Nat /\ Cardinality(Coming(lt)) \in Nat
           /\ to \in {"wait", "woken"} /\ t \in Idle(lt) => Cardinality(Idle(new)) = Cardinality(Idle(lt))
           /\ to \in {"wait", "woken"} /\ t \notin Idle(lt) => Cardinality(Idle(new)) = Cardinality(Idle(lt)) + 1
           /\ to \notin {"wait", "woken"} /\ t \in Idle(lt) => Cardinality(Idle(new)) = Cardinality(Idle(lt)) - 1
           /\ to \notin {"wait", "woken"} /\ t \notin Idle(lt) => Cardinality(Idle(new)) = Cardinality(Idle(lt))
           /\ to \in {"woken", "relock"} /\ t \in Coming(lt) => Cardinality(Coming(new)) = Cardinality(Coming(lt))
           /\ to \in {"woken", "relock"} /\ t \notin Coming(lt) => Cardinality(Coming(new)) = Cardinality(Coming(lt)) + 1
           /\ to \notin {"woken", "relock"} /\ t \in Coming(lt) => Cardinality(Coming(new)) = Cardinality(Coming(lt)) - 1
           /\ to \notin {"woken", "relock"} /\ t \notin Coming(lt) => Cardinality(Coming(new)) = Cardinality(Coming(lt))
<1>1. new \in [Lookups -> LookupPlaces] /\ new[t] = to /\ \A u \in Lookups : u # t => new[u] = lt[u]
  BY DEF Turns
<1>2. IsFiniteSet(Idle(lt)) /\ IsFiniteSet(Coming(lt))
  <2>1. Idle(lt) \subseteq Lookups /\ Coming(lt) \subseteq Lookups
    BY DEF Idle, Coming
  <2> QED
    BY <2>1, FS_Subset
<1>3. Idle(new) = IF to \in {"wait", "woken"} THEN Idle(lt) \cup {t} ELSE Idle(lt) \ {t}
  BY <1>1 DEF Idle
<1>4. Coming(new) = IF to \in {"woken", "relock"} THEN Coming(lt) \cup {t} ELSE Coming(lt) \ {t}
  BY <1>1 DEF Coming
<1>5. /\ Cardinality(Idle(lt)) \in Nat /\ Cardinality(Coming(lt)) \in Nat
  BY <1>2, FS_CardinalityType
<1>6. \A S : IsFiniteSet(S) => /\ Cardinality(S \cup {t}) = IF t \in S THEN Cardinality(S) ELSE Cardinality(S) + 1
                               /\ Cardinality(S \ {t}) = IF t \in S THEN Cardinality(S) - 1 ELSE Cardinality(S)
  BY FS_AddElement, FS_RemoveElement
<1> QED
  BY <1>1, <1>2, <1>3, <1>4, <1>5, <1>6

\* Nobody idle means nobody waits or was woken; nobody coming likewise.
LEMMA NobodyIdle ==
    ASSUME IsFiniteSet(Lookups), NEW lt \in [Lookups -> LookupPlaces]
    PROVE  /\ Cardinality(Idle(lt)) \in Nat /\ Cardinality(Coming(lt)) \in Nat
           /\ Cardinality(Idle(lt)) = 0 <=> \A t \in Lookups : lt[t] \notin {"wait", "woken"}
           /\ Cardinality(Coming(lt)) = 0 <=> Coming(lt) = {}
<1>1. IsFiniteSet(Idle(lt)) /\ IsFiniteSet(Coming(lt))
  <2>1. Idle(lt) \subseteq Lookups /\ Coming(lt) \subseteq Lookups
    BY DEF Idle, Coming
  <2> QED
    BY <2>1, FS_Subset
<1>2. /\ Cardinality(Idle(lt)) \in Nat /\ Cardinality(Coming(lt)) \in Nat
  BY <1>1, FS_CardinalityType
<1>3. (Cardinality(Idle(lt)) = 0 <=> Idle(lt) = {}) /\ (Cardinality(Coming(lt)) = 0 <=> Coming(lt) = {})
  BY <1>1, FS_EmptySet
<1>4. Idle(lt) = {} <=> \A t \in Lookups : lt[t] \notin {"wait", "woken"}
  BY DEF Idle
<1> QED
  BY <1>2, <1>3, <1>4

LEMMA PoolResponds ==
    ASSUME IsFiniteSet(Lookups), NEW lt \in [Lookups -> LookupPlaces], NEW n \in Int, NEW k \in Nat, Pool(lt, n, k),
           NEW t \in Lookups, lt[t] = "lookup", NEW new, new = Turns(lt, t, "relock")
    PROVE  Pool(new, n, k) /\ new \in [Lookups -> LookupPlaces]
<1>0. "relock" \in LookupPlaces /\ t \notin Idle(lt) /\ t \notin Coming(lt)
  BY DEF LookupPlaces, Idle, Coming
<1>1. /\ new \in [Lookups -> LookupPlaces] /\ new[t] = "relock" /\ \A u \in Lookups : u # t => new[u] = lt[u]
      /\ Cardinality(Coming(lt)) \in Nat /\ Cardinality(Idle(new)) = Cardinality(Idle(lt))
      /\ Cardinality(Coming(new)) = Cardinality(Coming(lt)) + 1
  <2> DEFINE to == "relock"
  <2>0. to \in LookupPlaces /\ new = Turns(lt, t, to) /\ to \notin {"wait", "woken"} /\ to \in {"woken", "relock"}
    BY <1>0
  <2> HIDE DEF to
  <2>1. Cardinality(Coming(lt)) \in Nat /\ Cardinality(Idle(new)) = Cardinality(Idle(lt))
    BY <1>0, <2>0, Change
  <2>2. Cardinality(Coming(new)) = Cardinality(Coming(lt)) + 1
    BY <1>0, <2>0, Change
  <2>3. new \in [Lookups -> LookupPlaces] /\ new[t] = "relock" /\ \A u \in Lookups : u # t => new[u] = lt[u]
    BY <1>0 DEF Turns
  <2> QED
    BY <2>1, <2>2, <2>3
<1>2. (\E u \in Lookups : new[u] = "wait") => \E u \in Lookups : lt[u] = "wait"
  BY <1>1
<1>3. HalfPool(new, n, k)
  BY <1>1, <1>2 DEF Pool, HalfPool
<1>4. Coming(new) # {}
  BY <1>1 DEF Coming
<1> QED
  BY <1>1, <1>3, <1>4 DEF Pool

LEMMA PoolSleeps ==
    ASSUME IsFiniteSet(Lookups), NEW lt \in [Lookups -> LookupPlaces], NEW n \in Int, Pool(lt, n, 0),
           NEW t \in Lookups, lt[t] \in {"woken", "relock"}, NEW new, new = Turns(lt, t, "wait")
    PROVE  Pool(new, IF lt[t] = "woken" THEN n ELSE n + 1, 0) /\ new \in [Lookups -> LookupPlaces]
<1>0. "wait" \in LookupPlaces /\ (t \in Idle(lt) <=> lt[t] = "woken")
  BY DEF LookupPlaces, Idle
<1>1. /\ new \in [Lookups -> LookupPlaces]
      /\ Cardinality(Idle(new)) = IF lt[t] = "woken" THEN Cardinality(Idle(lt)) ELSE Cardinality(Idle(lt)) + 1
  BY <1>0, Change
<1>2. Cardinality(Coming(new)) \in Nat
  BY <1>1, NobodyIdle
<1> QED
  BY <1>1, <1>2 DEF Pool, HalfPool

LEMMA PoolTakes ==
    ASSUME IsFiniteSet(Lookups), NEW lt \in [Lookups -> LookupPlaces], NEW n \in Int, NEW k \in Nat, k > 0, Pool(lt, n, k),
           NEW t \in Lookups, lt[t] \in {"woken", "relock"}, NEW new, new = Turns(lt, t, "lookup")
    PROVE  HalfPool(new, IF lt[t] = "woken" THEN n - 1 ELSE n, k - 1) /\ new \in [Lookups -> LookupPlaces] /\ (lt[t] = "woken" => n > 0)
<1>0. "lookup" \in LookupPlaces /\ (t \in Idle(lt) <=> lt[t] = "woken") /\ t \in Coming(lt)
  BY DEF LookupPlaces, Idle, Coming
<1>1. /\ new \in [Lookups -> LookupPlaces] /\ new[t] = "lookup" /\ \A u \in Lookups : u # t => new[u] = lt[u]
      /\ Cardinality(Coming(lt)) \in Nat /\ Cardinality(Coming(new)) = Cardinality(Coming(lt)) - 1
      /\ Cardinality(Idle(new)) = IF lt[t] = "woken" THEN Cardinality(Idle(lt)) - 1 ELSE Cardinality(Idle(lt))
  <2> DEFINE to == "lookup"
  <2>0. to \in LookupPlaces /\ new = Turns(lt, t, to) /\ to \notin {"wait", "woken"} /\ to \notin {"woken", "relock"}
    BY <1>0
  <2> HIDE DEF to
  <2>1. Cardinality(Coming(lt)) \in Nat /\ Cardinality(Coming(new)) = Cardinality(Coming(lt)) - 1
    BY <1>0, <2>0, Change
  <2>2. Cardinality(Idle(new)) = IF lt[t] = "woken" THEN Cardinality(Idle(lt)) - 1 ELSE Cardinality(Idle(lt))
    BY <1>0, <2>0, Change
  <2>3. new \in [Lookups -> LookupPlaces] /\ new[t] = "lookup" /\ \A u \in Lookups : u # t => new[u] = lt[u]
    BY <1>0 DEF Turns
  <2> QED
    BY <2>1, <2>2, <2>3
<1>2. (\E u \in Lookups : new[u] = "wait") => \E u \in Lookups : lt[u] = "wait"
  BY <1>1
<1>3. lt[t] = "woken" => n > 0
  <2>1. Cardinality(Idle(lt)) \in Nat /\ (Cardinality(Idle(lt)) = 0 <=> \A u \in Lookups : lt[u] \notin {"wait", "woken"})
    BY NobodyIdle
  <2> QED
    BY <2>1 DEF Pool, HalfPool
<1>4. n = Cardinality(Idle(lt)) /\ ((\E u \in Lookups : lt[u] = "wait") => k <= Cardinality(Coming(lt)))
  BY DEF Pool, HalfPool
<1> QED
  BY <1>1, <1>2, <1>3, <1>4 DEF HalfPool

\* create_lookup_thread_if_necessary makes a thread when no thread is idle, as long as there may be one more.
LEMMA PoolCreates ==
    ASSUME IsFiniteSet(Lookups), NEW lt \in [Lookups -> LookupPlaces], NEW n \in Int, NEW k \in Nat, HalfPool(lt, n, k)
    PROVE  /\ n # 0 \/ k = 0 \/ (\A t \in Lookups : lt[t] # "none") => Pool(lt, n, k)
           /\ \A t \in Lookups : \A new : n = 0 /\ lt[t] = "none" /\ new = Turns(lt, t, "woken")
                                        => Pool(new, n + 1, k) /\ new \in [Lookups -> LookupPlaces] /\ \A u \in Lookups : new[u] # "wait"
<1>0. /\ Cardinality(Idle(lt)) \in Nat /\ (Cardinality(Idle(lt)) = 0 <=> \A t \in Lookups : lt[t] \notin {"wait", "woken"})
      /\ Cardinality(Coming(lt)) \in Nat /\ (Cardinality(Coming(lt)) = 0 <=> Coming(lt) = {})
  BY NobodyIdle
<1>1. n = Cardinality(Idle(lt)) /\ ((\E t \in Lookups : lt[t] = "wait") => k <= Cardinality(Coming(lt)))
  BY DEF HalfPool
<1>2. ASSUME n # 0 \/ k = 0 \/ (\A t \in Lookups : lt[t] # "none"), k > 0, Coming(lt) = {} PROVE \A t \in Lookups : lt[t] = "lookup"
  <2>1. \A t \in Lookups : lt[t] \notin {"woken", "relock"}
    BY <1>2 DEF Coming
  <2>2. \A t \in Lookups : lt[t] # "wait"
    BY <1>0, <1>1, <1>2
  <2>3. n = 0
    BY <1>0, <1>1, <2>1, <2>2
  <2> QED
    BY <1>2, <2>1, <2>2, <2>3 DEF LookupPlaces
<1>3. ASSUME NEW t \in Lookups, NEW new, n = 0, lt[t] = "none", new = Turns(lt, t, "woken")
      PROVE  Pool(new, n + 1, k) /\ new \in [Lookups -> LookupPlaces] /\ \A u \in Lookups : new[u] # "wait"
  <2>0. "woken" \in LookupPlaces /\ t \notin Idle(lt)
    BY <1>3 DEF LookupPlaces, Idle
  <2>1. /\ new \in [Lookups -> LookupPlaces] /\ new[t] = "woken" /\ (\A u \in Lookups : u # t => new[u] = lt[u])
        /\ Cardinality(Idle(new)) = Cardinality(Idle(lt)) + 1
    BY <1>3, <2>0, Change
  <2>2. \A u \in Lookups : new[u] # "wait"
    BY <1>0, <1>1, <1>3, <2>1
  <2>3. Coming(new) # {}
    BY <2>1 DEF Coming
  <2> QED
    BY <1>1, <2>1, <2>2, <2>3 DEF Pool, HalfPool
<1> QED
  BY <1>2, <1>3 DEF Pool

\* pthread_cond_signal brings one more thread, and so allows for one more name.
LEMMA PoolSignals ==
    ASSUME IsFiniteSet(Lookups), NEW lt \in [Lookups -> LookupPlaces], NEW n \in Int, NEW k \in Nat, Pool(lt, n, k),
           NEW t \in Lookups, lt[t] = "wait", NEW new, new = Turns(lt, t, "woken")
    PROVE  Pool(new, n, k + 1) /\ new \in [Lookups -> LookupPlaces] /\ n # 0
<1>0. "woken" \in LookupPlaces /\ t \in Idle(lt) /\ t \notin Coming(lt)
  BY DEF LookupPlaces, Idle, Coming
<1>1. /\ new \in [Lookups -> LookupPlaces] /\ new[t] = "woken" /\ (\A u \in Lookups : u # t => new[u] = lt[u])
      /\ Cardinality(Idle(new)) = Cardinality(Idle(lt)) /\ Cardinality(Coming(lt)) \in Nat
      /\ Cardinality(Coming(new)) = Cardinality(Coming(lt)) + 1
  BY <1>0, Change
<1>2. Cardinality(Idle(lt)) \in Nat /\ Cardinality(Idle(lt)) # 0
  BY NobodyIdle
<1>3. Coming(new) # {}
  BY <1>1 DEF Coming
<1>4. n = Cardinality(Idle(lt)) /\ k <= Cardinality(Coming(lt))
  BY DEF Pool, HalfPool
<1>5. HalfPool(new, n, k + 1)
  BY <1>1, <1>4 DEF HalfPool
<1> QED
  BY <1>1, <1>2, <1>3, <1>4, <1>5 DEF Pool

-----------------------------------------------------------------------------
(* The pool of lookup threads.                                             *)

\* all that does not count threads
Base(c) == c \in State /\ ReqInv(c) /\ ConnInv(c) /\ QueueInv(c) /\ RepInv(c) /\ \E at : PlaceInv(c, at)

LEMMA BasePool ==
    ASSUME NEW c, Base(c), NEW n \in Int, NEW T \in [Lookups -> LookupPlaces], NEW d, d = [c EXCEPT !.idle = n, !.lt = T],
           \A t \in Lookups : T[t] = "lookup" => c.lt[t] = "lookup", Pool(T, n, Len(c.names))
    PROVE  Inv(d)
<1>1. c \in State /\ ReqInv(c) /\ ConnInv(c) /\ QueueInv(c) /\ RepInv(c)
  BY DEF Base
<1>2. PICK at : PlaceInv(c, at)
  BY DEF Base
<1>3. d \in State /\ d.idle = n /\ d.lt = T /\ d.looked = c.looked /\ d.names = c.names /\ d.batch = c.batch /\ d.req = c.req
  BY <1>1 DEF State
<1>4. SameRep(c, d) /\ SameQueues(c, d) /\ SameConns(c, d)
  BY <1>1 DEF State, SameRep, SameQueues, SameConns, SameThreads
<1>5. ReqInv(d) /\ ConnInv(d) /\ QueueInv(d) /\ RepInv(d)
  BY <1>1, <1>3, <1>4, Kept DEF SameConns
<1>6. PoolInv(d)
  BY <1>3 DEF PoolInv
<1>7. \A t \in Lookups : Looked(d, t, at)
  BY <1>2, <1>3 DEF PlaceInv, Looked
<1>8. PlaceInv(d, at)
  BY <1>2, <1>3, <1>4, <1>7 DEF PlaceInv, SameQueues, SameConns, SameThreads, Held, Holds, Live
<1> QED
  BY <1>3, <1>5, <1>6, <1>8 DEF Inv

LEMMA PoolTypes ==
    ASSUME NEW c \in State
    PROVE  /\ c.lt \in [Lookups -> LookupPlaces] /\ c.idle \in Int /\ c.names \in Seq(Names) /\ Len(c.names) \in Nat
           /\ c.looked \in [Lookups -> Ids \cup {0}] /\ (c.names = <<>> <=> Len(c.names) = 0)
<1>1. c.lt \in [Lookups -> LookupPlaces] /\ c.idle \in Int /\ c.names \in Seq(Names) /\ c.looked \in [Lookups -> Ids \cup {0}]
  BY DEF State
<1>2. Len(c.names) \in Nat /\ (c.names = <<>> <=> Len(c.names) = 0)
  BY <1>1
<1> QED
  BY <1>1, <1>2

LEMMA CreateKeeps ==
    ASSUME IsFiniteSet(Lookups), NEW c, Base(c), HalfPool(c.lt, c.idle, Len(c.names))
    PROVE  LET d == CreateLookupThread(c) IN
           Inv(d) /\ (d = c \/ \A t \in Lookups : d.lt[t] # "wait")
<1> DEFINE d == CreateLookupThread(c)
           k == Len(c.names)
<1>1. c \in State
  BY DEF Base
<1>2. c.lt \in [Lookups -> LookupPlaces] /\ c.idle \in Int /\ k \in Nat /\ (c.names = <<>> <=> k = 0)
  BY <1>1, PoolTypes
<1> HIDE DEF k
<1>3. HalfPool(c.lt, c.idle, k)
  BY DEF k
<1>4. CASE c.idle # 0 \/ c.names = <<>> \/ \A t \in Lookups : c.lt[t] # "none"
  <2>1. d = c
    BY <1>4 DEF CreateLookupThread
  <2>2. Pool(c.lt, c.idle, k)
    BY <1>2, <1>3, <1>4, PoolCreates
  <2>3. Inv(d)
    BY <2>1, <2>2 DEF Base, Inv, PoolInv, k
  <2> QED
    BY <2>1, <2>3
<1>5. CASE ~(c.idle # 0 \/ c.names = <<>> \/ \A t \in Lookups : c.lt[t] # "none")
  <2> DEFINE t == CHOOSE t \in Lookups : c.lt[t] = "none"
             T == Turns(c.lt, t, "woken")
             n == c.idle + 1
  <2>1. t \in Lookups /\ c.lt[t] = "none"
    BY <1>5
  <2>2. d = [c EXCEPT !.idle = @ + 1, !.lt[t] = "woken"]
    BY <1>5 DEF CreateLookupThread
  <2> HIDE DEF t
  <2>3. d = [c EXCEPT !.idle = n, !.lt = T]
    BY <1>1, <2>2 DEF State, Turns
  <2>4. Pool(T, n, k) /\ T \in [Lookups -> LookupPlaces] /\ \A u \in Lookups : T[u] # "wait"
    BY <1>2, <1>3, <1>5, <2>1, PoolCreates
  <2>5. (\A u \in Lookups : T[u] = "lookup" => c.lt[u] = "lookup") /\ n \in Int
    BY <1>2, <2>1 DEF Turns
  <2> HIDE DEF T, n, d
  <2>6. Inv(d)
    BY <2>3, <2>4, <2>5, BasePool DEF k
  <2>7. d.lt = T
    BY <1>1, <2>3 DEF State
  <2> QED
    BY <2>4, <2>6, <2>7 DEF d
<1> QED
  BY <1>4, <1>5

LEMMA NamesKeep ==
    ASSUME NEW c, Inv(c), NEW r \in Names, Loose(c, r), NEW d, d = [c EXCEPT !.names = Append(@, r)]
    PROVE  Base(d) /\ d.lt = c.lt /\ d.idle = c.idle /\ Len(d.names) = Len(c.names) + 1
<1> DEFINE A == Append(c.names, r)
<1>1. c \in State /\ ReqInv(c) /\ ConnInv(c) /\ QueueInv(c) /\ RepInv(c)
  BY Parts
<1>2. PICK at : PlaceInv(c, at) /\ at[r] = Nowhere
  BY DEF Loose
<1>3. r \in Ids /\ Live(c, r) /\ c.names \in Seq(Names) /\ Names \in SUBSET Ids /\ Queued(c.names, at, Named)
  BY <1>1, <1>2 DEF Loose, State, Ids, PlaceInv
<1> DEFINE M == Moved(at, r, Named)
<1>4. at[r] # Named
  BY <1>2, Apart
<1>5. Queued(A, M, Named) /\ A \in Seq(Names) /\ Len(A) = Len(c.names) + 1
  BY <1>3, <1>4, QueuedAppend, AppendTo
<1>6. M = Moved(at, r, Named) /\ d = [c EXCEPT !.names = A]
  BY <1>1 DEF State
<1> HIDE DEF A, M
<1>7. d \in State /\ d.names = A /\ d.lt = c.lt /\ d.idle = c.idle /\ d.looked = c.looked /\ d.batch = c.batch /\ d.req = c.req
  BY <1>1, <1>5, <1>6, ZenonT(60) DEF State
<1>8. SameQueues(c, d) /\ SameConns(c, d) /\ SameRep(c, d)
  BY <1>1, <1>6 DEF State, SameQueues, SameConns, SameRep, SameThreads
<1>9. ReqInv(d) /\ QueueInv(d) /\ RepInv(d) /\ ConnInv(d)
  BY <1>1, <1>7, <1>8, Kept DEF SameConns
<1>10. PlaceInv(d, M)
  <2>1. /\ d.pending = c.pending /\ d.msgs = c.msgs /\ d.inflight = c.inflight /\ d.wr = c.wr /\ d.held = c.held
    BY <1>8 DEF SameConns, SameQueues, SameThreads
  <2>2. /\ at[r] # Pending /\ at[r] # Batch
        /\ \A o : at[r] # Place("queue", o) /\ at[r] # Place("held", o) /\ at[r] # Place("looked", o) /\ at[r] # Place("inflight", o)
    BY <1>2, Apart
  <2>3. d \in State /\ Queued(d.names, M, Named) /\ d.batch = c.batch /\ \A x \in Ids : x # r => d.req[x] = c.req[x]
    BY <1>5, <1>7
  <2>4. Hands(c, d, at, M, r)
    BY <1>7, <2>1, <2>2, <2>3 DEF Hands
  <2>5. Live(d, r)
    BY <1>3, <1>7 DEF Live
  <2> QED
    BY <1>1, <1>2, <1>3, <1>6, <2>3, <2>4, <2>5, MoveKeeps, ZenonT(60)
<1> QED
  BY <1>5, <1>7, <1>9, <1>10 DEF Base

\* A name is queued: a sleeping thread is woken for it, or there is none and a thread is made, or all are busy.
LEMMA GetaddrStep ==
    ASSUME IsFiniteSet(Lookups), Inv(th), NEW r, Getaddr(r)
    PROVE  Inv(th')
<1> DEFINE d == th'
           cf == [th EXCEPT !.req[r] = [st |-> "live", cb |-> TRUE, calls |-> 0]]
           c == [cf EXCEPT !.names = Append(@, r)]
           c2 == CreateLookupThread(c)
<1>0. r \in Names /\ th.req[r].st = "idle" /\ d \in SignalLookup(c2)
  BY DEF Getaddr
<1>1. Inv(cf) /\ Loose(cf, r)
  <2>1. r \in Ids /\ TRUE \in BOOLEAN
    BY <1>0 DEF Ids
  <2> QED
    BY <1>0, <2>1, Fresh
<1> HIDE DEF d, cf
<1>2. Base(c) /\ c.lt = cf.lt /\ c.idle = cf.idle /\ Len(c.names) = Len(cf.names) + 1
  BY <1>0, <1>1, NamesKeep
<1>3. /\ cf.lt \in [Lookups -> LookupPlaces] /\ cf.idle \in Int /\ Len(cf.names) \in Nat /\ Pool(cf.lt, cf.idle, Len(cf.names))
      /\ c \in State
  BY <1>1, <1>2, Parts, PoolTypes DEF Base, PoolInv
<1> HIDE DEF c
<1>4. ASSUME \A t \in Lookups : c.lt[t] # "wait" PROVE Inv(d)
  <2>1. HalfPool(c.lt, c.idle, Len(c.names))
    BY <1>2, <1>3, <1>4 DEF Pool, HalfPool
  <2>2. Inv(c2) /\ \A t \in Lookups : c2.lt[t] # "wait"
    BY <1>2, <1>4, <2>1, CreateKeeps
  <2> HIDE DEF c2
  <2>3. d = c2
    BY <1>0, <2>2 DEF SignalLookup, SleepingLookups
  <2> QED
    BY <2>2, <2>3
<1>5. ASSUME NEW u \in Lookups, c.lt[u] = "wait" PROVE Inv(d)
  <2>1. c.idle # 0
    BY <1>2, <1>3, <1>5, NobodyIdle DEF Pool, HalfPool
  <2>2. c2 = c
    BY <2>1 DEF CreateLookupThread
  <2>3. SleepingLookups(c) # {}
    BY <1>5 DEF SleepingLookups
  <2>4. PICK t \in SleepingLookups(c) : d = [c EXCEPT !.lt[t] = "woken"]
    BY <1>0, <2>2, <2>3 DEF SignalLookup
  <2> DEFINE T == Turns(c.lt, t, "woken")
             k == Len(cf.names)
  <2>5. t \in Lookups /\ c.lt[t] = "wait"
    BY <2>4 DEF SleepingLookups
  <2>6. d = [c EXCEPT !.idle = c.idle, !.lt = T]
    BY <1>3, <2>4 DEF State, Turns
  <2>7. T = Turns(c.lt, t, "woken") /\ \A v \in Lookups : T[v] = "lookup" => c.lt[v] = "lookup"
    BY <1>2, <1>3, <2>5 DEF Turns
  <2>8. /\ c.lt \in [Lookups -> LookupPlaces] /\ c.idle \in Int /\ k \in Nat /\ Pool(c.lt, c.idle, k) /\ Len(c.names) = k + 1
    BY <1>2, <1>3
  <2> HIDE DEF T, k
  <2>9. Pool(T, c.idle, k + 1) /\ T \in [Lookups -> LookupPlaces]
    BY <2>5, <2>7, <2>8, PoolSignals
  <2>10. Base(c) /\ c.idle \in Int /\ Pool(T, c.idle, Len(c.names)) /\ \A v \in Lookups : T[v] = "lookup" => c.lt[v] = "lookup"
    BY <1>2, <2>7, <2>8, <2>9
  <2> QED
    BY <2>6, <2>9, <2>10, BasePool
<1>6. Inv(d)
  BY <1>4, <1>5
<1> QED
  BY <1>6 DEF d

LEMMA LenWithout ==
    ASSUME NEW S, NEW s \in Seq(S), NEW x, In(x, s)
    PROVE  Len(Without(s, x)) = Len(s) - 1 /\ Len(s) \in Nat /\ Len(s) > 0
<1> DEFINE w == Without(s, x)
           n == Len(s)
           m == CHOOSE i \in DOMAIN s : s[i] = x
<1>1. n \in Nat /\ DOMAIN s = 1 .. n
  OBVIOUS
<1>2. m \in 1 .. n
  BY <1>1 DEF In
<1>3. w = [i \in 1 .. n - 1 |-> IF i < m THEN s[i] ELSE s[i + 1]]
  BY DEF Without
<1>4. \A i \in 1 .. n - 1 : i \in 1 .. n /\ i + 1 \in 1 .. n
  BY <1>1, <1>2
<1> HIDE DEF w, n, m
<1>5. \A i \in 1 .. n : s[i] \in S
  BY <1>1 DEF n
<1>6. n - 1 \in Nat /\ \A i \in 1 .. n - 1 : (IF i < m THEN s[i] ELSE s[i + 1]) \in S
  BY <1>1, <1>2, <1>4, <1>5
<1>7. Len(w) = n - 1
  BY <1>3, <1>6
<1> QED
  BY <1>1, <1>2, <1>7 DEF w, n

\* A name that no thread has taken is freed at once; the answer to another one has nobody to call back.
LEMMA GetaddrCancelStep ==
    ASSUME IsFiniteSet(Lookups), Inv(th), NEW r, GetaddrCancel(r)
    PROVE  Inv(th')
<1> DEFINE c == th
           d == th'
           s == c.names
           T == Without(s, r)
<1>0. Inv(c) /\ r \in Ids
  BY DEF GetaddrCancel, Ids
<1>1. c \in State /\ ReqInv(c) /\ ConnInv(c) /\ QueueInv(c) /\ RepInv(c) /\ PoolInv(c) /\ c.req \in [Ids -> Requests]
  BY Parts DEF State
<1>2. /\ In(r, s) => d = [c EXCEPT !.names = Without(@, r), !.req[r] = [st |-> "freed", cb |-> FALSE, calls |-> 0]]
      /\ ~In(r, s) => d = [c EXCEPT !.req[r].cb = FALSE]
  BY DEF GetaddrCancel
<1> HIDE DEF c, d
<1>3. ASSUME ~In(r, s) PROVE Inv(d)
  <2> DEFINE R == [c.req EXCEPT ![r].cb = FALSE]
  <2>1. d = [c EXCEPT !.req = R]
    BY <1>1, <1>2, <1>3 DEF State
  <2>2. /\ R \in [Ids -> Requests] /\ (\A x \in Ids : x # r => R[x] = c.req[x])
        /\ R[r].st = c.req[r].st /\ R[r].cb = FALSE /\ R[r].calls = c.req[r].calls
    BY <1>0, <1>1 DEF Requests
  <2> HIDE DEF R
  <2>3. /\ \A x \in Ids : c.req[x].st = "live" => R[x].st = "live"
        /\ \A x \in Ids : R[x].calls <= 1 /\ (R[x].cb => R[x].calls = 0)
    BY <1>0, <1>1, <2>2 DEF ReqInv
  <2> QED
    BY <1>0, <2>1, <2>2, <2>3, ReqKeeps
<1>4. ASSUME In(r, s) PROVE Inv(d)
  <2> DEFINE v == [st |-> "freed", cb |-> FALSE, calls |-> 0]
             R == [c.req EXCEPT ![r] = v]
  <2>0. PICK at : PlaceInv(c, at)
    BY <1>0, Parts
  <2> DEFINE M == Moved(at, r, Nowhere)
  <2>1. d = [c EXCEPT !.names = T, !.req = R]
    BY <1>1, <1>2, <1>4 DEF State
  <2>2. s \in Seq(Names) /\ Names \in SUBSET Ids /\ Queued(s, at, Named)
    BY <1>1, <2>0 DEF State, Ids, PlaceInv
  <2>3. v \in Requests /\ v.calls = 0 /\ ~v.cb
    BY DEF Requests
  <2> HIDE DEF s, v
  <2>4. R \in [Ids -> Requests] /\ R[r] = v /\ \A x \in Ids : x # r => R[x] = c.req[x]
    BY <1>0, <1>1, <2>3
  <2>5. Queued(T, M, Named) /\ T \in Seq(Names) /\ at[r] = Named
    BY <1>4, <2>2, QueuedWithout
  <2>6. Len(T) = Len(s) - 1 /\ Len(s) \in Nat /\ Len(s) > 0
    BY <1>4, <2>2, LenWithout
  <2>7. M = Moved(at, r, Nowhere)
    OBVIOUS
  <2> HIDE DEF T, M, R
  <2>8. /\ d \in State /\ d.names = T /\ d.req = R /\ d.lt = c.lt /\ d.idle = c.idle /\ d.looked = c.looked /\ d.batch = c.batch
    BY <1>1, <2>1, <2>4, <2>5 DEF State
  <2>9. SameQueues(c, d) /\ SameConns(c, d) /\ SameRep(c, d)
    BY <1>1, <2>1 DEF State, SameQueues, SameConns, SameRep, SameThreads
  <2>10. QueueInv(d) /\ RepInv(d) /\ ConnInv(d)
    BY <1>1, <2>9, Kept DEF SameConns
  <2>11. ReqInv(d)
    BY <1>1, <2>3, <2>4, <2>8 DEF ReqInv
  <2>12. PoolInv(d)
    <3>1. Pool(c.lt, c.idle, Len(s))
      BY <1>1 DEF PoolInv, s
    <3>2. Cardinality(Coming(c.lt)) \in Nat
      BY <1>1, PoolTypes, NobodyIdle
    <3>3. Pool(c.lt, c.idle, Len(T))
      BY <2>6, <3>1, <3>2 DEF Pool, HalfPool
    <3> QED
      BY <2>8, <3>3 DEF PoolInv
  <2>13. PlaceInv(d, M)
    <3>1. /\ d.pending = c.pending /\ d.msgs = c.msgs /\ d.inflight = c.inflight /\ d.wr = c.wr /\ d.held = c.held
      BY <2>9 DEF SameConns, SameQueues, SameThreads
    <3>2. /\ at[r] # Pending /\ at[r] # Batch
          /\ \A o : at[r] # Place("queue", o) /\ at[r] # Place("held", o) /\ at[r] # Place("looked", o) /\ at[r] # Place("inflight", o)
      BY <2>5, Apart
    <3>3. d \in State /\ Queued(d.names, M, Named) /\ d.batch = c.batch /\ \A x \in Ids : x # r => d.req[x] = c.req[x]
      BY <2>4, <2>5, <2>8
    <3>4. Hands(c, d, at, M, r)
      BY <2>8, <3>1, <3>2, <3>3 DEF Hands
    <3> QED
      BY <1>0, <1>1, <2>0, <2>7, <3>3, <3>4, MoveKeeps
  <2> QED
    BY <2>8, <2>10, <2>11, <2>12, <2>13 DEF Inv
<1>5. Inv(d)
  BY <1>3, <1>4
<1> QED
  BY <1>5 DEF d

\* The answer goes to the loop, and the thread comes back for more.
LEMMA LookupRespondsStep ==
    ASSUME IsFiniteSet(Lookups), Inv(th), NEW t \in Lookups, LookupResponds(t)
    PROVE  Inv(th')
<1> DEFINE c == th
           d == th'
           r == c.looked[t]
           T == Turns(c.lt, t, "relock")
           K == [c.looked EXCEPT ![t] = 0]
           c1 == [c EXCEPT !.lt = T, !.looked = K]
<1>0. /\ c.lt[t] = "lookup"
      /\ d = SendMessage([Asserted(c, Live(c, r), "lookup of a freed request") EXCEPT !.lt[t] = "relock", !.looked[t] = 0], "hostinfo", r)
  BY DEF LookupResponds
<1>1. c \in State /\ ReqInv(c) /\ ConnInv(c) /\ QueueInv(c) /\ RepInv(c) /\ PoolInv(c)
  BY Parts
<1>2. PICK at : PlaceInv(c, at)
  BY Parts
<1> HIDE DEF c, d
<1>3. r \in Ids /\ at[r] = Place("looked", t)
  BY <1>0, <1>2 DEF PlaceInv, Looked
<1>4. Live(c, r)
  BY <1>2, <1>3, Apart DEF PlaceInv
<1>5. [c EXCEPT !.lt[t] = "relock", !.looked[t] = 0] = c1
  BY <1>1 DEF State, Turns
<1>6. d = SendMessage(c1, "hostinfo", r)
  BY <1>0, <1>4, <1>5 DEF Asserted
<1>7. /\ c.lt \in [Lookups -> LookupPlaces] /\ c.idle \in Int /\ Len(c.names) \in Nat /\ c.looked \in [Lookups -> Ids \cup {0}]
      /\ Pool(c.lt, c.idle, Len(c.names))
  BY <1>1, PoolTypes DEF PoolInv
<1>8. T = Turns(c.lt, t, "relock") /\ T[t] = "relock" /\ \A u \in Lookups : u # t => T[u] = c.lt[u]
  BY <1>7 DEF Turns
<1>9. K \in [Lookups -> Ids \cup {0}] /\ \A u \in Lookups : u # t => K[u] = c.looked[u]
  BY <1>7
<1>10. c1 = [c EXCEPT !.lt = T, !.looked = K]
  OBVIOUS
<1> DEFINE M == Moved(at, r, Nowhere)
<1>11. M = Moved(at, r, Nowhere) /\ M[r] = Nowhere
  BY <1>3 DEF Moved
<1> HIDE DEF r, T, K, c1, M
<1>12. Pool(T, c.idle, Len(c.names)) /\ T \in [Lookups -> LookupPlaces]
  BY <1>0, <1>7, <1>8, PoolResponds
<1>13. /\ c1 \in State /\ c1.lt = T /\ c1.looked = K /\ c1.names = c.names /\ c1.idle = c.idle /\ c1.batch = c.batch /\ c1.req = c.req
  BY <1>1, <1>9, <1>10, <1>12 DEF State
<1>14. SameQueues(c, c1) /\ SameConns(c, c1) /\ SameRep(c, c1)
  BY <1>1, <1>10 DEF State, SameQueues, SameConns, SameRep, SameThreads
<1>15. QueueInv(c1) /\ RepInv(c1) /\ ConnInv(c1) /\ ReqInv(c1) /\ PoolInv(c1)
  <2>1. PoolInv(c1)
    BY <1>12, <1>13 DEF PoolInv
  <2> QED
    BY <1>1, <1>13, <1>14, <2>1, Kept DEF SameConns
<1>16. PlaceInv(c1, M)
  <2>1. /\ c1.pending = c.pending /\ c1.msgs = c.msgs /\ c1.inflight = c.inflight /\ c1.wr = c.wr /\ c1.held = c.held
    BY <1>14 DEF SameConns, SameQueues, SameThreads
  <2>2. /\ at[r] # Pending /\ at[r] # Batch /\ at[r] # Named
        /\ \A o : at[r] # Place("queue", o) /\ at[r] # Place("held", o) /\ at[r] # Place("inflight", o)
        /\ \A o : o # t => at[r] # Place("looked", o)
    BY <1>3, Apart
  <2>3. c1 \in State /\ \A x \in Ids : x # r => c1.req[x] = c.req[x]
    BY <1>13
  <2>4. \A u \in Lookups : Looked(c1, u, M) \/ (c1.lt[u] = c.lt[u] /\ c1.looked[u] = c.looked[u] /\ at[r] # Place("looked", u))
    <3> TAKE u \in Lookups
    <3>1. CASE u = t
      BY <3>1, <1>8, <1>13 DEF Looked
    <3>2. CASE u # t
      BY <3>2, <1>8, <1>9, <1>13, <2>2
    <3> QED
      BY <3>1, <3>2
  <2>5. Hands(c, c1, at, M, r)
    BY <1>13, <2>1, <2>2, <2>4 DEF Hands
  <2> QED
    BY <1>1, <1>2, <1>3, <1>11, <2>3, <2>5, MoveKeeps
<1>17. Inv(c1) /\ Loose(c1, r)
  <2>1. Live(c1, r)
    BY <1>4, <1>13 DEF Live
  <2> QED
    BY <1>3, <1>11, <1>13, <1>15, <1>16, <2>1 DEF Inv, Loose
<1>18. Inv(d)
  BY <1>6, <1>17, SendKeeps DEF Receivers
<1> QED
  BY <1>18 DEF d

\* The thread looks for a name, sleeps if there is none, and otherwise sees to it that somebody comes for the rest.
LEMMA TakesKeeps ==
    ASSUME IsFiniteSet(Lookups), NEW c, Inv(c), NEW t \in Lookups, c.lt[t] \in {"woken", "relock"},
           NEW m, m = IF c.lt[t] = "woken" THEN c.idle - 1 ELSE c.idle, NEW d, d = LookupTakes([c EXCEPT !.idle = m], t)
    PROVE  Inv(d)
<1> DEFINE c0 == [c EXCEPT !.idle = m]
<1>1. c \in State /\ ReqInv(c) /\ ConnInv(c) /\ QueueInv(c) /\ RepInv(c) /\ PoolInv(c)
  BY Parts
<1>2. PICK at : PlaceInv(c, at)
  BY Parts
<1>3. /\ c.lt \in [Lookups -> LookupPlaces] /\ c.idle \in Int /\ c.names \in Seq(Names) /\ Len(c.names) \in Nat
      /\ c.looked \in [Lookups -> Ids \cup {0}] /\ (c.names = <<>> <=> Len(c.names) = 0) /\ Pool(c.lt, c.idle, Len(c.names))
  BY <1>1, PoolTypes DEF PoolInv
<1>4. m \in Int
  BY <1>3
<1>5. c0 \in State /\ c0.names = c.names /\ c0.lt = c.lt /\ c0.looked = c.looked /\ c0.idle = m
  BY <1>1, <1>4, ZenonT(60) DEF State
<1>6. d = LookupTakes(c0, t) /\ c0 = [c EXCEPT !.idle = m]
  OBVIOUS
<1> HIDE DEF c0
<1>7. CASE c.names = <<>>
  <2> DEFINE T == Turns(c.lt, t, "wait")
             n == IF c.lt[t] = "woken" THEN c.idle ELSE c.idle + 1
  <2>1. d = [c0 EXCEPT !.idle = @ + 1, !.lt[t] = "wait"]
    BY <1>5, <1>6, <1>7 DEF LookupTakes
  <2>2. m + 1 = n /\ n \in Int
    BY <1>3
  <2>3. d = [c0 EXCEPT !.idle = m + 1, !.lt = T]
    BY <1>5, <2>1 DEF State, Turns
  <2>4. d = [c EXCEPT !.idle = n, !.lt = T]
    <3> HIDE DEF n, T
    <3> QED
      BY <1>1, <1>6, <2>2, <2>3 DEF State
  <2>5. Pool(T, n, 0) /\ T \in [Lookups -> LookupPlaces]
    BY <1>3, <1>7, PoolSleeps
  <2>6. \A u \in Lookups : T[u] = "lookup" => c.lt[u] = "lookup"
    BY <1>3 DEF Turns
  <2>7. Base(c) /\ Pool(T, n, Len(c.names)) /\ n \in Int
    <3> HIDE DEF n, T
    <3> QED
      BY <1>1, <1>2, <1>3, <1>7, <2>2, <2>5 DEF Base
  <2> HIDE DEF n, T
  <2>8. Base(c) /\ n \in Int /\ T \in [Lookups -> LookupPlaces] /\ Pool(T, n, Len(c.names))
    BY <2>5, <2>7
  <2> QED
    BY ONLY <2>4, <2>6, <2>8, BasePool
<1>8. CASE c.names # <<>>
  <2> DEFINE r == Head(c.names)
             N == Tail(c.names)
             k == Len(c.names)
             T == Turns(c.lt, t, "lookup")
             K == [c.looked EXCEPT ![t] = r]
             M == Moved(at, r, Place("looked", t))
             c1 == [c EXCEPT !.idle = m, !.lt = T, !.looked = K, !.names = N]
  <2>1. d = CreateLookupThread([c0 EXCEPT !.lt[t] = "lookup", !.looked[t] = r, !.names = Tail(@)])
    BY <1>5, <1>6, <1>8 DEF LookupTakes
  <2>2. [c0 EXCEPT !.lt[t] = "lookup", !.looked[t] = r, !.names = Tail(@)] = [c0 EXCEPT !.lt = T, !.looked = K, !.names = N]
    BY <1>5 DEF State, Turns
  <2>3. Queued(c.names, at, Named) /\ Names \in SUBSET Ids
    BY <1>2 DEF PlaceInv, Ids
  <2>4. Queued(N, M, Named) /\ N \in Seq(Names) /\ r \in Names /\ at[r] = Named /\ r \in Ids
    <3>1. c.names \in Seq(Names) /\ c.names # <<>>
      BY <1>3, <1>8
    <3>2. /\ Queued(Tail(c.names), Moved(at, Head(c.names), Place("looked", t)), Named) /\ Tail(c.names) \in Seq(Names)
          /\ Head(c.names) \in Names /\ at[Head(c.names)] = Named
      BY ONLY <2>3, <3>1, QueuedTail
    <3> QED
      BY <2>3, <3>2
  <2>5. Len(N) = k - 1 /\ k \in Nat /\ k > 0
    BY <1>3, <1>8, TailOf
  <2>6. M = Moved(at, r, Place("looked", t)) /\ M[r] = Place("looked", t)
    BY <2>4 DEF Moved
  <2>7. HalfPool(T, m, k - 1) /\ T \in [Lookups -> LookupPlaces]
    <3>1. Pool(c.lt, c.idle, k) /\ k > 0 /\ k \in Nat
      BY <1>3, <2>5
    <3>2. T = Turns(c.lt, t, "lookup")
      OBVIOUS
    <3> HIDE DEF k, T
    <3> QED
      BY <1>3, <3>1, <3>2, PoolTakes
  <2>8. T[t] = "lookup" /\ \A u \in Lookups : u # t => T[u] = c.lt[u]
    BY <1>3 DEF Turns
  <2> HIDE DEF r, N, T, M
  <2>9. K \in [Lookups -> Ids \cup {0}] /\ K[t] = r /\ \A u \in Lookups : u # t => K[u] = c.looked[u]
    BY <1>3, <2>4
  <2> HIDE DEF K
  <2>10. [c0 EXCEPT !.lt = T, !.looked = K, !.names = N] = c1
    BY <1>1, <1>6 DEF State
  <2>11. d = CreateLookupThread(c1) /\ c1 = [c EXCEPT !.idle = m, !.lt = T, !.looked = K, !.names = N]
    BY <2>1, <2>2, <2>10
  <2> HIDE DEF c1
  <2>12. /\ c1 \in State /\ c1.lt = T /\ c1.looked = K /\ c1.names = N /\ c1.idle = m /\ c1.batch = c.batch /\ c1.req = c.req
    <3>1. c \in State /\ m \in Int /\ T \in [Lookups -> LookupPlaces] /\ K \in [Lookups -> Ids \cup {0}] /\ N \in Seq(Names)
      BY <1>1, <1>4, <2>4, <2>7, <2>9
    <3>2. c1 \in State
      BY <2>11, <3>1, ZenonT(60) DEF State
    <3> QED
      BY <2>11, <3>1, <3>2, SMTT(30) DEF State
  <2>13. SameQueues(c, c1) /\ SameConns(c, c1) /\ SameRep(c, c1)
    BY <1>1, <2>11 DEF State, SameQueues, SameConns, SameRep, SameThreads
  <2>14. QueueInv(c1) /\ RepInv(c1) /\ ConnInv(c1) /\ ReqInv(c1)
    BY <1>1, <2>12, <2>13, Kept DEF SameConns
  <2>15. PlaceInv(c1, M)
    <3>1. /\ c1.pending = c.pending /\ c1.msgs = c.msgs /\ c1.inflight = c.inflight /\ c1.wr = c.wr /\ c1.held = c.held
      BY <2>13 DEF SameConns, SameQueues, SameThreads
    <3>2. /\ at[r] # Pending /\ at[r] # Batch /\ at[r] # Nowhere
          /\ \A o : at[r] # Place("queue", o) /\ at[r] # Place("held", o) /\ at[r] # Place("inflight", o) /\ at[r] # Place("looked", o)
      BY <2>4, Apart
    <3>3. c1 \in State /\ Queued(c1.names, M, Named) /\ \A x \in Ids : x # r => c1.req[x] = c.req[x]
      BY <2>4, <2>12
    <3>4. \A u \in Lookups : Looked(c1, u, M) \/ (c1.lt[u] = c.lt[u] /\ c1.looked[u] = c.looked[u] /\ at[r] # Place("looked", u))
      <4> TAKE u \in Lookups
      <4>1. CASE u = t
        BY <4>1, <2>4, <2>6, <2>9, <2>12 DEF Looked
      <4>2. CASE u # t
        BY <4>2, <2>8, <2>9, <2>12, <3>2
      <4> QED
        BY <4>1, <4>2
    <3>5. Hands(c, c1, at, M, r)
      BY <2>12, <3>1, <3>2, <3>3, <3>4 DEF Hands
    <3>6. Live(c1, r)
      BY <1>2, <2>4, <2>12, <3>2 DEF PlaceInv, Live
    <3> QED
      BY <1>1, <1>2, <2>4, <2>6, <3>3, <3>5, <3>6, MoveKeeps
  <2>16. Base(c1)
    BY <2>12, <2>14, <2>15 DEF Base
  <2>17. HalfPool(c1.lt, c1.idle, Len(c1.names))
    BY <2>5, <2>7, <2>12
  <2> QED
    BY <2>11, <2>16, <2>17, CreateKeeps
<1> QED
  BY <1>7, <1>8

LEMMA LookupLoopsStep ==
    ASSUME IsFiniteSet(Lookups), Inv(th), NEW t \in Lookups, LookupLoops(t)
    PROVE  Inv(th')
<1> DEFINE c == th
           d == th'
           m == IF c.lt[t] = "woken" THEN c.idle - 1 ELSE c.idle
<1>1. Inv(c) /\ c \in State /\ PoolInv(c) /\ c.lt[t] \in {"woken", "relock"}
  BY Parts DEF LookupLoops
<1>2. c.lt[t] = "woken" => c.idle > 0
  <2>1. c.lt \in [Lookups -> LookupPlaces] /\ c.idle = Cardinality(Idle(c.lt))
    BY <1>1, PoolTypes DEF PoolInv, Pool, HalfPool
  <2>2. c.lt[t] = "woken" => Cardinality(Idle(c.lt)) # 0 /\ Cardinality(Idle(c.lt)) \in Nat
    BY <2>1, NobodyIdle
  <2> QED
    BY <2>1, <2>2
<1>3. CASE c.lt[t] = "woken"
  <2>1. Asserted(c, c.idle > 0, "num_threads_idle") = c
    BY <1>2, <1>3 DEF Asserted
  <2>2. d = LookupTakes([c EXCEPT !.idle = @ - 1], t)
    BY <1>3, <2>1 DEF LookupLoops
  <2>3. m = c.idle - 1
    BY <1>3
  <2>4. d = LookupTakes([c EXCEPT !.idle = m], t)
    BY <2>2, <2>3
  <2>5. m = IF c.lt[t] = "woken" THEN c.idle - 1 ELSE c.idle
    OBVIOUS
  <2> HIDE DEF m, c, d
  <2>6. Inv(d)
    BY <1>1, <2>4, <2>5, TakesKeeps
  <2> QED
    BY <2>6 DEF d
<1>4. CASE c.lt[t] # "woken"
  <2>1. d = LookupTakes(c, t)
    BY <1>4 DEF LookupLoops
  <2>2. m = c.idle
    BY <1>4
  <2>3. [c EXCEPT !.idle = m] = c
    BY <1>1, <2>2 DEF State
  <2>4. d = LookupTakes([c EXCEPT !.idle = m], t)
    BY <2>1, <2>3
  <2>5. m = IF c.lt[t] = "woken" THEN c.idle - 1 ELSE c.idle
    OBVIOUS
  <2> HIDE DEF m, c, d
  <2>6. Inv(d)
    BY <1>1, <2>4, <2>5, TakesKeeps
  <2> QED
    BY <2>6 DEF d
<1> QED
  BY <1>3, <1>4

-----------------------------------------------------------------------------
(* The theorems.                                                           *)

LEMMA InitHolds ==
    ASSUME ConstantsOK, Init
    PROVE  Inv(th)
<1> DEFINE c == th
<1>1. PICK scene \in Scenes :
        c = [scene |-> scene, failed |-> {}, breaks |-> 0, errors |-> 0,
             msgs |-> [rcv \in Receivers |-> <<>>], active |-> <<>>, unsent |-> 0, efd |-> FALSE, loop |-> "poll", batch |-> <<>>,
             req |-> [r \in Ids |-> [st |-> "idle", cb |-> FALSE, calls |-> 0]],
             pending |-> <<>>, connected |-> 0, rd |-> [i \in Conns |-> "connect"], wr |-> [i \in Conns |-> "none"],
             held |-> [i \in Conns |-> 0], inflight |-> [i \in Conns |-> <<>>], wire |-> [i \in Conns |-> <<>>],
             exit |-> [i \in Conns |-> FALSE], broken |-> [i \in Conns |-> FALSE], lost |-> {},
             names |-> <<>>, idle |-> 0, lt |-> [t \in Lookups |-> "none"], looked |-> [t \in Lookups |-> 0],
             rep |-> [cur |-> 0, timer |-> "none", data |-> 0, told |-> 0]]
  BY DEF Init
<1>2. [r \in Ids |-> [st |-> "idle", cb |-> FALSE, calls |-> 0]] \in [Ids -> Requests]
  BY DEF Requests
<1>3. [cur |-> 0, timer |-> "none", data |-> 0, told |-> 0] \in Reports_
  BY DEF Reports_
<1>4. /\ [rcv \in Receivers |-> <<>>] \in [Receivers -> Seq(Ids)] /\ [i \in Conns |-> <<>>] \in [Conns -> Seq(Gets)]
      /\ [i \in Conns |-> "connect"] \in [Conns -> ReaderPlaces] /\ [i \in Conns |-> "none"] \in [Conns -> WriterPlaces]
      /\ [t \in Lookups |-> "none"] \in [Lookups -> LookupPlaces] /\ [i \in Conns |-> 0] \in [Conns -> Ids \cup {0}]
      /\ [t \in Lookups |-> 0] \in [Lookups -> Ids \cup {0}]
  BY DEF ReaderPlaces, WriterPlaces, LookupPlaces
<1> HIDE DEF c
<1>5. c \in State
  BY <1>1, <1>2, <1>3, <1>4 DEF State
<1>6. ReqInv(c)
  BY <1>1 DEF ReqInv
<1>7. ConnInv(c)
  <2> SUFFICES ASSUME NEW i \in Conns PROVE ConnInv1(c, i)
    BY DEF ConnInv
  <2>1. c.rd[i] = "connect" /\ c.wr[i] = "none" /\ c.wire[i] = <<>>
    BY <1>1
  <2> QED
    BY <2>1 DEF ConnInv1, Distinct
<1>8. QueueInv(c)
  BY <1>1 DEF QueueInv, Distinct, In
<1>9. PoolInv(c)
  <2>1. c.lt = [t \in Lookups |-> "none"] /\ c.idle = 0 /\ c.names = <<>>
    BY <1>1
  <2>2. Idle(c.lt) = {}
    BY <2>1 DEF Idle
  <2>3. Cardinality(Idle(c.lt)) = 0 /\ Len(c.names) = 0 /\ \A t \in Lookups : c.lt[t] # "wait"
    BY <2>1, <2>2, FS_EmptySet
  <2> QED
    BY <2>1, <2>3 DEF PoolInv, Pool, HalfPool
<1>10. RepInv(c)
  BY <1>1 DEF RepInv
<1>11. PlaceInv(c, [r \in Ids |-> Nowhere])
  <2>1. /\ c.pending = <<>> /\ c.names = <<>> /\ c.batch = <<>> /\ (\A o \in Receivers : c.msgs[o] = <<>>)
        /\ \A i \in Conns : c.inflight[i] = <<>> /\ c.wr[i] = "none"
    BY <1>1
  <2>2. \A t \in Lookups : c.lt[t] = "none"
    BY <1>1
  <2>3. \A at, p : Queued(<<>>, at, p)
    BY DEF Queued, Distinct
  <2> QED
    BY <2>1, <2>2, <2>3 DEF PlaceInv, Held, Holds, Looked
<1>12. Inv(c)
  BY <1>5, <1>6, <1>7, <1>8, <1>9, <1>10, <1>11 DEF Inv
<1> QED
  BY <1>12 DEF c

LEMMA NextKeeps ==
    ASSUME ConstantsOK, Inv(th), Next
    PROVE  Inv(th')
<1>1. IsFiniteSet(Lookups) /\ Gets \cap Sets = {} /\ th.failed = {}
  BY DEF ConstantsOK, Next
<1>2. CASE WriterSteps
  BY <1>1, <1>2, WriterChecksStep, WriterInsertsStep, WriterSendsStep DEF WriterSteps
<1>3. CASE ReaderSteps
  BY <1>3, ConnectStep, CountStep, ReaderReceivesStep, ReaderFailsStep, ReaderFlushesStep, ReaderStopsWriterStep, ReaderBroadcastsStep,
     ReaderJoinsStep, ReaderDiscardsStep DEF ReaderSteps
<1>4. CASE LookupSteps
  BY <1>1, <1>4, LookupLoopsStep, LookupRespondsStep DEF LookupSteps
<1>5. CASE LoopSteps
  BY <1>5, WriteEventfdStep, OnReadStep, QueueCbStep, ReceiveStep DEF LoopSteps
<1>6. CASE Calls
  BY <1>1, <1>6, DispatchStep, CancelGetStep, GetaddrStep, GetaddrCancelStep DEF Calls
<1>7. CASE Reports
  BY <1>7, ReportsStep
<1>8. CASE Breaks
  BY <1>8, ConnectionBreaksStep DEF Breaks
<1> QED
  BY <1>2, <1>3, <1>4, <1>5, <1>6, <1>7, <1>8 DEF Next, Step

\* The inductive invariant: every request is in at most one queue or pair of hands, and not freed while it is there; what is on
\* the wire of a connection that works is in flight; the loop wakes for every message; and names and lookup threads are in step.
THEOREM ThreadsInvariant == ConstantsOK => (Spec => []IInv)
<1> SUFFICES ASSUME ConstantsOK PROVE Spec => []IInv
  OBVIOUS
<1>1. Init => IInv
  BY InitHolds DEF IInv
<1>2. IInv /\ [Next]_th => IInv'
  <2> SUFFICES ASSUME IInv, [Next]_th PROVE IInv'
    OBVIOUS
  <2>1. CASE Next
    BY <2>1, NextKeeps DEF IInv
  <2>2. CASE UNCHANGED th
    BY <2>2 DEF IInv
  <2> QED
    BY <2>1, <2>2
<1> QED
  BY <1>1, <1>2, PTL DEF Spec

\* No assertion fails in the message queue, the memcached client, the resolver or the error reporter, and no request is freed
\* twice, answered after it was freed, or taken out of a list it is not in; the one failure left is the request that a writer
\* still reads while the reader of its broken connection has given it back.
THEOREM ThreadsAssertNothing == ConstantsOK => (Spec => []NoAssertionFails)
<1>1. IInv => NoAssertionFails
  BY Parts DEF IInv, State, NoAssertionFails
<1> QED
  BY <1>1, ThreadsInvariant, PTL

\* Nobody who waits for memcached or for a name is called back twice, whatever answers, errors and cancellations cross.
THEOREM ThreadsAnswerOnce == ConstantsOK => (Spec => []AnsweredOnce)
<1>1. IInv => AnsweredOnce
  BY Parts DEF IInv, ReqInv, AnsweredOnce
<1> QED
  BY <1>1, ThreadsInvariant, PTL

\* A message that was sent does not wait for another one: the eventfd is readable, or some thread is about to write it, or the
\* loop is not done with its receivers.
THEOREM ThreadsMessagesAreSeen == ConstantsOK => (Spec => []MessagesAreSeen)
<1>1. IInv => MessagesAreSeen
  <2> SUFFICES ASSUME IInv, NEW rcv \in Receivers, th.msgs[rcv] # <<>> PROVE th.efd \/ th.unsent > 0 \/ th.loop # "poll"
    BY DEF MessagesAreSeen
  <2>1. QueueInv(th)
    BY Parts DEF IInv
  <2>2. In(rcv, th.active)
    BY <2>1 DEF QueueInv
  <2>3. th.active # <<>>
    BY <2>2 DEF In
  <2> QED
    BY <2>1, <2>3 DEF QueueInv
<1> QED
  BY <1>1, ThreadsInvariant, PTL

\* No lookup thread sleeps on a name: num_threads_idle counts the threads that wait or were woken, and while names are queued
\* somebody comes for them or every thread that may be is looking one up.
THEOREM ThreadsLookUp == ConstantsOK => (Spec => []LookupsDoNotSleepOnWork)
<1> SUFFICES ASSUME ConstantsOK PROVE Spec => []LookupsDoNotSleepOnWork
  OBVIOUS
<1>1. IInv => LookupsDoNotSleepOnWork
  <2> SUFFICES ASSUME IInv PROVE LookupsDoNotSleepOnWork
    OBVIOUS
  <2>1. th \in State /\ PoolInv(th) /\ Lookups # {}
    BY Parts DEF IInv, ConstantsOK
  <2>2. th.lt \in [Lookups -> LookupPlaces] /\ Len(th.names) \in Nat /\ (th.names = <<>> <=> Len(th.names) = 0)
    BY <2>1, PoolTypes
  <2>3. th.idle = Cardinality({t \in Lookups : th.lt[t] \in {"wait", "woken"}})
    BY <2>1 DEF PoolInv, Pool, HalfPool, Idle
  <2>4. Len(th.names) > 0 /\ Coming(th.lt) = {} => \A t \in Lookups : th.lt[t] = "lookup"
    BY <2>1 DEF PoolInv, Pool
  <2>5. ASSUME th.names # <<>> PROVE \E t \in Lookups : th.lt[t] \notin {"none", "wait"}
    <3>1. CASE Coming(th.lt) = {}
      BY <2>1, <2>2, <2>4, <2>5, <3>1
    <3>2. CASE Coming(th.lt) # {}
      BY <3>2 DEF Coming
    <3> QED
      BY <3>1, <3>2
  <2>6. ASSUME Len(th.names) > 0, \A t \in Lookups : th.lt[t] \in {"none", "wait", "lookup"} PROVE \A t \in Lookups : th.lt[t] = "lookup"
    <3>1. Coming(th.lt) = {}
      BY <2>6 DEF Coming
    <3> QED
      BY <3>1, <2>4, <2>6
  <2> QED
    BY <2>3, <2>5, <2>6 DEF LookupsDoNotSleepOnWork
<1> QED
  BY <1>1, ThreadsInvariant, PTL

\* Every error that was recorded is counted once: it was reported, or waits for the timer that is linked or has just fired.
THEOREM ThreadsReportErrors == ConstantsOK => (Spec => []ErrorsAreReported)
<1>1. IInv => ErrorsAreReported
  BY Parts DEF IInv, RepInv, ErrorsAreReported
<1> QED
  BY <1>1, ThreadsInvariant, PTL
=============================================================================
