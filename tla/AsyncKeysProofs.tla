--------------------------- MODULE AsyncKeysProofs ---------------------------
(***************************************************************************)
(* The private key operations of a thread, for any set of transactions and *)
(* any limit: whatever order requests and responses cross in, a handshake  *)
(* gets the response to its own request, though a response does not say    *)
(* whose it is; no more than the limit are in flight; and whoever waits    *)
(* waits for an event that is armed.                                       *)
(*                                                                         *)
(* The argument: the transactions whose response the thread has not read   *)
(* (Awaited) are, in order, those of the responses and then those of the   *)
(* requests on the wire, when the ones without a response are left out     *)
(* (InOrder).                                                              *)
(***************************************************************************)
EXTENDS AsyncKeys, TLAPS, FiniteSetTheorems

Statuses == {"new", "queued", "awaiting", "notified", "done"}
Blocking == {"drain", "write", "take"}

State ==
    [wq : Seq(Txs), rq : Seq(Txs), write : {"no", "new", "half", "whole"}, reading : BOOLEAN, wire : Seq(Txs), resp : Seq(Txs),
     loop : {"idle", "read"} \cup Blocking, st : [Txs -> Statuses], callback : [Txs -> BOOLEAN], got : [Txs -> Txs \cup {0}],
     scene : Scenes, failed : {{}}]

Distinct(s) == \A i, j \in DOMAIN s : s[i] = s[j] => i = j

(* q is what the responses and the requests on the wire will answer, in     *)
(* order; requests without a response are on the wire and not in q.         *)
InOrder(q, resp, wire, kinds) ==
    /\ Distinct(q) /\ \A i \in 1 .. Len(q) : kinds[q[i]] # "mute"
    /\ Len(resp) <= Len(q) /\ \A i \in 1 .. Len(resp) : resp[i] = q[i]
    /\ \A i \in Len(resp) + 1 .. Len(q) : \E k \in 1 .. Len(wire) : wire[k] = q[i]
    /\ \A k \in 1 .. Len(wire) : kinds[wire[k]] # "mute" => \E i \in Len(resp) + 1 .. Len(q) : q[i] = wire[k]
    /\ \A i, j \in Len(resp) + 1 .. Len(q) : \A k, l \in 1 .. Len(wire) : q[i] = wire[k] /\ q[j] = wire[l] /\ k < l => i < j

IsSync(c, t) == Kind(c, t) = "sync" /\ c.st[t] = "queued"
SyncOf(c) == CHOOSE t \in Txs : IsSync(c, t)

(* Who will read a response: the read queue, then the transaction that is   *)
(* written but not moved to it yet, or the synchronous one.                 *)
Awaited(c) ==
    IF c.write = "whole" /\ Kind(c, Head(c.wq)) # "mute" THEN Append(c.rq, Head(c.wq))
    ELSE IF c.loop = "take" THEN Append(c.rq, SyncOf(c)) ELSE c.rq

QueueInv(c) ==
    /\ Distinct(c.wq) /\ Distinct(c.rq)
    /\ \A i \in 1 .. Len(c.wq) : c.st[c.wq[i]] = "queued" /\ Kind(c, c.wq[i]) # "sync"
    /\ \A i \in 1 .. Len(c.rq) : c.st[c.rq[i]] = "awaiting" /\ Kind(c, c.rq[i]) \in {"job", "fiber"}
(* One synchronous transaction at a time, which finds the write queue empty *)
(* and empties the read queue before it writes.                             *)
SyncInv(c) ==
    /\ \A t, u \in Txs : IsSync(c, t) /\ IsSync(c, u) => t = u
    /\ c.loop \in Blocking <=> \E t \in Txs : IsSync(c, t)
    /\ c.loop \in Blocking => c.wq = <<>>
    /\ c.loop \in {"write", "take"} => c.rq = <<>>
    /\ c.loop \in {"read", "drain"} => c.rq # <<>>
WriteInv(c) == Len(c.rq) <= MaxInFlight /\ (c.write # "no" => c.wq # <<>> /\ Len(c.rq) < MaxInFlight)
OrderInv(c) == InOrder(Awaited(c), c.resp, c.wire, c.scene.kinds)
AnswerInv(c) == \A t \in Txs : c.got[t] \in {0, t}
(* What also holds in the middle of a callback. *)
MidInv(c) == c \in State /\ QueueInv(c) /\ SyncInv(c) /\ WriteInv(c) /\ OrderInv(c) /\ AnswerInv(c)

SubmitInv(c) == c.loop # "read" /\ c.wq # <<>> => c.write # "no" \/ Len(c.rq) >= MaxInFlight
ReadInv(c) == c.reading <=> c.rq # <<>>
CallbackInv(c) == \A t \in Txs : Kind(c, t) = "job" /\ c.st[t] \in {"queued", "awaiting"} => c.callback[t]
Inv(c) == MidInv(c) /\ SubmitInv(c) /\ ReadInv(c) /\ CallbackInv(c)
IInv == Inv(nb)

-----------------------------------------------------------------------------
(* Sequences.                                                              *)

LEMMA TailOf ==
    ASSUME NEW S, NEW s \in Seq(S), s # <<>>
    PROVE  /\ Tail(s) \in Seq(S) /\ Len(s) \in Nat /\ Len(s) >= 1 /\ Len(Tail(s)) = Len(s) - 1 /\ Head(s) = s[1] /\ Head(s) \in S
           /\ \A i \in 1 .. Len(s) - 1 : Tail(s)[i] = s[i + 1]
<1>1. Len(s) \in Nat /\ Len(s) # 0
  OBVIOUS
<1> QED
  BY <1>1

LEMMA AppendTo ==
    ASSUME NEW S, NEW s \in Seq(S), NEW x \in S
    PROVE  /\ Append(s, x) \in Seq(S) /\ Len(s) \in Nat /\ Len(Append(s, x)) = Len(s) + 1 /\ Append(s, x)[Len(s) + 1] = x
           /\ \A i \in 1 .. Len(s) : Append(s, x)[i] = s[i]
OBVIOUS

LEMMA HeadStays ==
    ASSUME NEW S, NEW s \in Seq(S), s # <<>>, NEW x \in S
    PROVE  Head(Append(s, x)) = Head(s) /\ Tail(Append(s, x)) = Append(Tail(s), x) /\ Append(s, x) # <<>>
<1> DEFINE a == Append(s, x)
           b == Append(Tail(s), x)
<1>1. a \in Seq(S) /\ Len(a) = Len(s) + 1 /\ Len(s) \in Nat /\ Len(s) >= 1 /\ a[Len(s) + 1] = x /\ \A i \in 1 .. Len(s) : a[i] = s[i]
  BY AppendTo, TailOf
<1>2. a # <<>>
  BY <1>1
<1>3. Tail(a) \in Seq(S) /\ Len(Tail(a)) = Len(s) /\ Head(a) = a[1] /\ \A i \in 1 .. Len(s) : Tail(a)[i] = a[i + 1]
  <2> HIDE DEF a
  <2>1. Len(a) - 1 = Len(s)
    BY <1>1
  <2> QED
    BY <1>1, <1>2, <2>1, TailOf
<1>4. /\ Tail(s) \in Seq(S) /\ Len(Tail(s)) = Len(s) - 1 /\ Head(s) = s[1] /\ \A i \in 1 .. Len(s) - 1 : Tail(s)[i] = s[i + 1]
  BY TailOf
<1>5. /\ b \in Seq(S) /\ Len(b) = Len(s) /\ b[Len(s)] = x /\ \A i \in 1 .. Len(s) - 1 : b[i] = Tail(s)[i]
  <2>1. /\ b \in Seq(S) /\ Len(b) = Len(Tail(s)) + 1 /\ b[Len(Tail(s)) + 1] = x /\ \A i \in 1 .. Len(Tail(s)) : b[i] = Tail(s)[i]
    BY <1>4, AppendTo
  <2>2. Len(Tail(s)) + 1 = Len(s)
    BY <1>1, <1>4
  <2> QED
    BY <1>4, <2>1, <2>2
<1> HIDE DEF a, b
<1>6. \A i \in 1 .. Len(s) : Tail(a)[i] = b[i]
  <2> TAKE i \in 1 .. Len(s)
  <2>1. Tail(a)[i] = a[i + 1]
    BY <1>3
  <2>2. CASE i = Len(s)
    BY <2>1, <2>2, <1>1, <1>5
  <2>3. CASE i < Len(s)
    <3>1. i \in 1 .. Len(s) - 1 /\ i + 1 \in 1 .. Len(s)
      BY <2>3, <1>1
    <3>2. a[i + 1] = s[i + 1] /\ b[i] = Tail(s)[i] /\ Tail(s)[i] = s[i + 1]
      BY <3>1, <1>1, <1>4, <1>5
    <3> QED
      BY <2>1, <3>2
  <2> QED
    BY <2>2, <2>3, <1>1
<1>7. Tail(a) = b
  BY <1>3, <1>5, <1>6
<1>8. Head(a) = Head(s)
  BY <1>1, <1>3, <1>4
<1> QED
  BY <1>2, <1>7, <1>8 DEF a, b

-----------------------------------------------------------------------------
(* What the two ends of the socket do to the order.                        *)

\* A request without a response is written.
LEMMA OrderMute ==
    ASSUME NEW S, NEW q \in Seq(S), NEW resp \in Seq(S), NEW wire \in Seq(S), NEW kinds, InOrder(q, resp, wire, kinds),
           NEW t \in S, kinds[t] = "mute"
    PROVE  InOrder(q, resp, Append(wire, t), kinds)
<1> DEFINE w == Append(wire, t)
           n == Len(wire)
           R == Len(resp) + 1 .. Len(q)
<1>1. w \in Seq(S) /\ n \in Nat /\ Len(w) = n + 1 /\ w[n + 1] = t /\ \A i \in 1 .. n : w[i] = wire[i]
  BY AppendTo
<1>2. /\ Distinct(q) /\ \A i \in 1 .. Len(q) : kinds[q[i]] # "mute"
      /\ Len(resp) <= Len(q) /\ \A i \in 1 .. Len(resp) : resp[i] = q[i]
  BY DEF InOrder
<1>3. /\ \A i \in R : \E k \in 1 .. n : wire[k] = q[i]
      /\ \A k \in 1 .. n : kinds[wire[k]] # "mute" => \E i \in R : q[i] = wire[k]
      /\ \A i, j \in R : \A k, l \in 1 .. n : q[i] = wire[k] /\ q[j] = wire[l] /\ k < l => i < j
  BY DEF InOrder
<1>4. \A i \in R : q[i] # t
  BY <1>2
<1> HIDE DEF w, n, R
<1>5. \A k \in 1 .. n + 1 : k \in 1 .. n \/ k = n + 1
  BY <1>1
<1>6. 1 .. n \subseteq 1 .. n + 1
  BY <1>1
<1>7. \A i \in R : \E k \in 1 .. n + 1 : w[k] = q[i]
  BY <1>1, <1>3, <1>6
<1>8. \A k \in 1 .. n + 1 : kinds[w[k]] # "mute" => \E i \in R : q[i] = w[k]
  <2> SUFFICES ASSUME NEW k \in 1 .. n + 1, kinds[w[k]] # "mute" PROVE \E i \in R : q[i] = w[k]
    OBVIOUS
  <2>1. k \in 1 .. n /\ w[k] = wire[k]
    BY <1>1, <1>5
  <2> QED
    BY <2>1, <1>3
<1>9. \A i, j \in R : \A k, l \in 1 .. n + 1 : q[i] = w[k] /\ q[j] = w[l] /\ k < l => i < j
  <2> SUFFICES ASSUME NEW i \in R, NEW j \in R, NEW k \in 1 .. n + 1, NEW l \in 1 .. n + 1, q[i] = w[k], q[j] = w[l], k < l PROVE i < j
    OBVIOUS
  <2>1. k \in 1 .. n /\ l \in 1 .. n
    BY <1>1, <1>4, <1>5
  <2> QED
    BY <2>1, <1>1, <1>3
<1> QED
  BY <1>1, <1>2, <1>7, <1>8, <1>9 DEF InOrder, R, w

\* A request is written by one who then waits for the response.
LEMMA OrderPush ==
    ASSUME NEW S, NEW q \in Seq(S), NEW resp \in Seq(S), NEW wire \in Seq(S), NEW kinds, InOrder(q, resp, wire, kinds),
           NEW t \in S, kinds[t] # "mute", \A i \in 1 .. Len(q) : q[i] # t
    PROVE  InOrder(Append(q, t), resp, Append(wire, t), kinds)
<1> DEFINE w == Append(wire, t)
           n == Len(wire)
           p == Append(q, t)
           m == Len(q)
           r == Len(resp)
<1>1. w \in Seq(S) /\ n \in Nat /\ Len(w) = n + 1 /\ w[n + 1] = t /\ \A i \in 1 .. n : w[i] = wire[i]
  BY AppendTo
<1>2. p \in Seq(S) /\ m \in Nat /\ Len(p) = m + 1 /\ p[m + 1] = t /\ (\A i \in 1 .. m : p[i] = q[i]) /\ r \in Nat
  BY AppendTo
<1>3. /\ (\A i, j \in 1 .. m : q[i] = q[j] => i = j) /\ \A i \in 1 .. m : kinds[q[i]] # "mute"
      /\ r <= m /\ \A i \in 1 .. r : resp[i] = q[i]
  BY DEF InOrder, Distinct
<1>4. /\ \A i \in r + 1 .. m : \E k \in 1 .. n : wire[k] = q[i]
      /\ \A k \in 1 .. n : kinds[wire[k]] # "mute" => \E i \in r + 1 .. m : q[i] = wire[k]
      /\ \A i, j \in r + 1 .. m : \A k, l \in 1 .. n : q[i] = wire[k] /\ q[j] = wire[l] /\ k < l => i < j
  BY DEF InOrder
<1>5. \A i \in 1 .. m : q[i] # t
  OBVIOUS
<1> HIDE DEF w, n, p, m, r
<1>6. \A k \in 1 .. n + 1 : k \in 1 .. n \/ k = n + 1
  BY <1>1
<1>7. 1 .. n \subseteq 1 .. n + 1 /\ n + 1 \in 1 .. n + 1 /\ r + 1 .. m \subseteq r + 1 .. m + 1 /\ m + 1 \in r + 1 .. m + 1 /\ r + 1 .. m \subseteq 1 .. m
  BY <1>1, <1>2, <1>3
<1>8. \A i \in r + 1 .. m + 1 : i \in r + 1 .. m \/ i = m + 1
  BY <1>2
<1>9. \A i \in 1 .. m + 1 : i \in 1 .. m \/ i = m + 1
  BY <1>2
<1>10. \A k \in 1 .. n : wire[k] # t
  BY <1>4, <1>5, <1>7
<1>11. (\A i, j \in 1 .. m + 1 : p[i] = p[j] => i = j) /\ \A i \in 1 .. m + 1 : kinds[p[i]] # "mute"
  <2>1. ASSUME NEW i \in 1 .. m + 1, NEW j \in 1 .. m + 1, p[i] = p[j] PROVE i = j
    <3>1. CASE i = m + 1 /\ j = m + 1
      BY <3>1
    <3>2. CASE i \in 1 .. m /\ j \in 1 .. m
      BY <2>1, <3>2, <1>2, <1>3
    <3>3. ~(i \in 1 .. m /\ j = m + 1) /\ ~(j \in 1 .. m /\ i = m + 1)
      BY <2>1, <1>2, <1>5
    <3> QED
      BY <3>1, <3>2, <3>3, <1>9
  <2>2. ASSUME NEW i \in 1 .. m + 1 PROVE kinds[p[i]] # "mute"
    BY <1>2, <1>3, <1>9
  <2> QED
    BY <2>1, <2>2
<1>12. r <= m + 1 /\ \A i \in 1 .. r : resp[i] = p[i]
  BY <1>2, <1>3
<1>13. \A i \in r + 1 .. m + 1 : \E k \in 1 .. n + 1 : w[k] = p[i]
  <2> TAKE i \in r + 1 .. m + 1
  <2>1. CASE i = m + 1
    BY <2>1, <1>1, <1>2, <1>7
  <2>2. CASE i \in r + 1 .. m
    <3>1. PICK k \in 1 .. n : wire[k] = q[i]
      BY <2>2, <1>4
    <3>2. w[k] = wire[k] /\ p[i] = q[i] /\ k \in 1 .. n + 1
      BY <2>2, <1>1, <1>2, <1>7
    <3> QED
      BY <3>1, <3>2
  <2> QED
    BY <2>1, <2>2, <1>8
<1>14. \A k \in 1 .. n + 1 : kinds[w[k]] # "mute" => \E i \in r + 1 .. m + 1 : p[i] = w[k]
  <2> SUFFICES ASSUME NEW k \in 1 .. n + 1, kinds[w[k]] # "mute" PROVE \E i \in r + 1 .. m + 1 : p[i] = w[k]
    OBVIOUS
  <2>1. CASE k = n + 1
    BY <2>1, <1>1, <1>2, <1>7
  <2>2. CASE k \in 1 .. n
    <3>1. PICK i \in r + 1 .. m : q[i] = wire[k]
      BY <2>2, <1>1, <1>4
    <3>2. w[k] = wire[k] /\ p[i] = q[i] /\ i \in r + 1 .. m + 1
      BY <2>2, <1>1, <1>2, <1>7
    <3> QED
      BY <3>1, <3>2
  <2> QED
    BY <2>1, <2>2, <1>6
<1>15. \A i, j \in r + 1 .. m + 1 : \A k, l \in 1 .. n + 1 : p[i] = w[k] /\ p[j] = w[l] /\ k < l => i < j
  <2> SUFFICES ASSUME NEW i \in r + 1 .. m + 1, NEW j \in r + 1 .. m + 1, NEW k \in 1 .. n + 1, NEW l \in 1 .. n + 1,
                      p[i] = w[k], p[j] = w[l], k < l
               PROVE  i < j
    OBVIOUS
  <2>1. k \in 1 .. n
    BY <1>1
  <2>2. i \in r + 1 .. m
    BY <2>1, <1>1, <1>2, <1>8, <1>10
  <2>3. CASE l \in 1 .. n
    <3>1. j \in r + 1 .. m
      BY <2>3, <1>1, <1>2, <1>8, <1>10
    <3>2. q[i] = wire[k] /\ q[j] = wire[l]
      BY <2>1, <2>2, <2>3, <3>1, <1>1, <1>2, <1>7
    <3> QED
      BY <2>1, <2>2, <2>3, <3>1, <3>2, <1>4
  <2>4. CASE l = n + 1
    <3>1. p[j] = t
      BY <2>4, <1>1
    <3>2. j = m + 1
      BY <3>1, <1>2, <1>5, <1>7, <1>8
    <3> QED
      BY <2>2, <3>2, <1>2
  <2> QED
    BY <2>3, <2>4, <1>6
<1>16. Distinct(p)
  <2>1. DOMAIN p = 1 .. m + 1
    BY <1>2
  <2> QED
    BY <2>1, <1>11 DEF Distinct
<1>17. InOrder(p, resp, w, kinds)
  BY <1>1, <1>2, <1>11, <1>12, <1>13, <1>14, <1>15, <1>16 DEF InOrder, r
<1> QED
  BY <1>17 DEF p, w

\* The process takes a request that has no response.
LEMMA OrderServeMute ==
    ASSUME NEW S, NEW q \in Seq(S), NEW resp \in Seq(S), NEW wire \in Seq(S), NEW kinds, InOrder(q, resp, wire, kinds),
           wire # <<>>, kinds[Head(wire)] = "mute"
    PROVE  InOrder(q, resp, Tail(wire), kinds)
<1> DEFINE w == Tail(wire)
           n == Len(wire) - 1
           R == Len(resp) + 1 .. Len(q)
<1>1. /\ w \in Seq(S) /\ n \in Nat /\ Len(w) = n /\ Len(wire) = n + 1 /\ Head(wire) = wire[1]
      /\ \A i \in 1 .. n : w[i] = wire[i + 1]
  BY TailOf
<1>2. /\ Distinct(q) /\ \A i \in 1 .. Len(q) : kinds[q[i]] # "mute"
      /\ Len(resp) <= Len(q) /\ \A i \in 1 .. Len(resp) : resp[i] = q[i]
  BY DEF InOrder
<1>3. /\ \A i \in R : \E k \in 1 .. n + 1 : wire[k] = q[i]
      /\ \A k \in 1 .. n + 1 : kinds[wire[k]] # "mute" => \E i \in R : q[i] = wire[k]
      /\ \A i, j \in R : \A k, l \in 1 .. n + 1 : q[i] = wire[k] /\ q[j] = wire[l] /\ k < l => i < j
  BY <1>1 DEF InOrder
<1>4. \A i \in R : q[i] # wire[1]
  BY <1>1, <1>2
<1> HIDE DEF w, n, R
<1>5. \A k \in 1 .. n : k + 1 \in 1 .. n + 1
  BY <1>1
<1>6. \A i \in R : \E k \in 1 .. n : w[k] = q[i]
  <2> TAKE i \in R
  <2>1. PICK k \in 1 .. n + 1 : wire[k] = q[i]
    BY <1>3
  <2>2. k # 1
    BY <2>1, <1>4
  <2>3. k - 1 \in 1 .. n /\ (k - 1) + 1 = k
    BY <2>2, <1>1
  <2>4. w[k - 1] = wire[(k - 1) + 1]
    BY <2>3, <1>1
  <2> QED
    BY <2>1, <2>3, <2>4
<1>7. \A k \in 1 .. n : kinds[w[k]] # "mute" => \E i \in R : q[i] = w[k]
  <2> TAKE k \in 1 .. n
  <2>1. w[k] = wire[k + 1] /\ k + 1 \in 1 .. n + 1
    BY <1>1, <1>5
  <2> QED
    BY <2>1, <1>3
<1>8. \A i, j \in R : \A k, l \in 1 .. n : q[i] = w[k] /\ q[j] = w[l] /\ k < l => i < j
  <2> SUFFICES ASSUME NEW i \in R, NEW j \in R, NEW k \in 1 .. n, NEW l \in 1 .. n, q[i] = w[k], q[j] = w[l], k < l PROVE i < j
    OBVIOUS
  <2>1. q[i] = wire[k + 1] /\ q[j] = wire[l + 1]
    BY <1>1
  <2>2. k + 1 < l + 1
    BY <1>1
  <2> QED
    BY <2>1, <2>2, <1>3, <1>5
<1>9. InOrder(q, resp, w, kinds)
  BY <1>1, <1>2, <1>6, <1>7, <1>8 DEF InOrder, R
<1> QED
  BY <1>9 DEF w

\* The process answers a request: it is the first that is awaited and not answered yet.
LEMMA OrderServe ==
    ASSUME NEW S, NEW q \in Seq(S), NEW resp \in Seq(S), NEW wire \in Seq(S), NEW kinds, InOrder(q, resp, wire, kinds),
           wire # <<>>, kinds[Head(wire)] # "mute"
    PROVE  InOrder(q, Append(resp, Head(wire)), Tail(wire), kinds)
<1> DEFINE w == Tail(wire)
           n == Len(wire) - 1
           m == Len(q)
           r == Len(resp)
           t == Head(wire)
           p == Append(resp, t)
<1>1. /\ w \in Seq(S) /\ n \in Nat /\ Len(w) = n /\ Len(wire) = n + 1 /\ t = wire[1] /\ t \in S
      /\ \A i \in 1 .. n : w[i] = wire[i + 1]
  BY TailOf
<1>2. p \in Seq(S) /\ m \in Nat /\ r \in Nat /\ Len(p) = r + 1 /\ p[r + 1] = t /\ (\A i \in 1 .. r : p[i] = resp[i])
  <2> HIDE DEF t
  <2> QED
    BY <1>1, AppendTo
<1>3. /\ (\A i, j \in 1 .. m : q[i] = q[j] => i = j) /\ Distinct(q) /\ \A i \in 1 .. m : kinds[q[i]] # "mute"
      /\ r <= m /\ \A i \in 1 .. r : resp[i] = q[i]
  BY DEF InOrder, Distinct
<1>4. /\ \A i \in r + 1 .. m : \E k \in 1 .. n + 1 : wire[k] = q[i]
      /\ \A k \in 1 .. n + 1 : kinds[wire[k]] # "mute" => \E i \in r + 1 .. m : q[i] = wire[k]
      /\ \A i, j \in r + 1 .. m : \A k, l \in 1 .. n + 1 : q[i] = wire[k] /\ q[j] = wire[l] /\ k < l => i < j
  BY <1>1 DEF InOrder
<1>5. kinds[wire[1]] # "mute"
  BY <1>1
<1> HIDE DEF w, n, p, m, r, t
<1>6. 1 \in 1 .. n + 1 /\ \A k \in 1 .. n : k + 1 \in 1 .. n + 1
  BY <1>1
<1>7. r + 1 <= m /\ q[r + 1] = wire[1]
  <2>1. PICK i \in r + 1 .. m : q[i] = wire[1]
    BY <1>4, <1>5, <1>6
  <2>2. r + 1 \in r + 1 .. m /\ i \in Nat /\ r + 1 <= m
    BY <1>2
  <2>3. PICK k \in 1 .. n + 1 : wire[k] = q[r + 1]
    BY <2>2, <1>4
  <2>4. CASE k = 1
    BY <2>2, <2>3, <2>4
  <2>5. CASE 1 < k
    <3>1. i < r + 1
      BY <2>1, <2>2, <2>3, <2>5, <1>4, <1>6
    <3> QED
      BY <3>1, <1>2
  <2> QED
    BY <2>4, <2>5, <1>1
<1>8. r + 2 .. m \subseteq r + 1 .. m /\ r + 2 .. m \subseteq 1 .. m /\ r + 1 \in 1 .. m /\ r + 1 \notin r + 2 .. m
      /\ \A i \in r + 1 .. m : i = r + 1 \/ i \in r + 2 .. m
  BY <1>2, <1>7
<1>9. \A i \in 1 .. r + 1 : p[i] = q[i]
  <2>1. \A i \in 1 .. r + 1 : i \in 1 .. r \/ i = r + 1
    BY <1>2
  <2> QED
    BY <2>1, <1>1, <1>2, <1>3, <1>7
<1>10. \A i \in r + 2 .. m : q[i] # wire[1]
  BY <1>3, <1>7, <1>8
<1>11. \A i \in r + 2 .. m : \E k \in 1 .. n : w[k] = q[i]
  <2> TAKE i \in r + 2 .. m
  <2>1. PICK k \in 1 .. n + 1 : wire[k] = q[i]
    BY <1>4, <1>8
  <2>2. k # 1
    BY <2>1, <1>10
  <2>3. k - 1 \in 1 .. n /\ (k - 1) + 1 = k
    BY <2>2, <1>1
  <2>4. w[k - 1] = wire[(k - 1) + 1]
    BY <2>3, <1>1
  <2> QED
    BY <2>1, <2>3, <2>4
<1>12. \A k \in 1 .. n : kinds[w[k]] # "mute" => \E i \in r + 2 .. m : q[i] = w[k]
  <2> SUFFICES ASSUME NEW k \in 1 .. n, kinds[w[k]] # "mute" PROVE \E i \in r + 2 .. m : q[i] = w[k]
    OBVIOUS
  <2>1. w[k] = wire[k + 1] /\ k + 1 \in 1 .. n + 1 /\ 1 < k + 1
    BY <1>1, <1>6
  <2>2. PICK i \in r + 1 .. m : q[i] = wire[k + 1]
    BY <2>1, <1>4
  <2>3. i # r + 1
    <3> SUFFICES ASSUME i = r + 1 PROVE FALSE
      OBVIOUS
    <3>1. q[i] = wire[1] /\ i \in r + 1 .. m
      BY <1>7
    <3>2. i < i
      BY <3>1, <2>1, <2>2, <1>4, <1>6
    <3> QED
      BY <3>2, <1>2
  <2> QED
    BY <2>1, <2>2, <2>3, <1>8
<1>13. \A i, j \in r + 2 .. m : \A k, l \in 1 .. n : q[i] = w[k] /\ q[j] = w[l] /\ k < l => i < j
  <2> SUFFICES ASSUME NEW i \in r + 2 .. m, NEW j \in r + 2 .. m, NEW k \in 1 .. n, NEW l \in 1 .. n, q[i] = w[k], q[j] = w[l], k < l
               PROVE  i < j
    OBVIOUS
  <2>1. q[i] = wire[k + 1] /\ q[j] = wire[l + 1]
    BY <1>1
  <2>2. k + 1 < l + 1
    BY <1>1
  <2>3. i \in r + 1 .. m /\ j \in r + 1 .. m
    BY <1>8
  <2> QED
    BY <2>1, <2>2, <2>3, <1>4, <1>6
<1>14. InOrder(q, p, w, kinds)
  <2>1. (r + 1) + 1 = r + 2
    BY <1>2
  <2> QED
    BY <2>1, <1>1, <1>2, <1>3, <1>7, <1>9, <1>11, <1>12, <1>13 DEF InOrder, m
<1> QED
  BY <1>14 DEF p, w, t

\* A response is read: it is for the first that waits.
LEMMA OrderTake ==
    ASSUME NEW S, NEW q \in Seq(S), NEW resp \in Seq(S), NEW wire \in Seq(S), NEW kinds, InOrder(q, resp, wire, kinds), resp # <<>>
    PROVE  q # <<>> /\ Head(q) = Head(resp) /\ InOrder(Tail(q), Tail(resp), wire, kinds)
<1> DEFINE p == Tail(resp)
           r == Len(resp) - 1
           d == Tail(q)
           m == Len(q) - 1
           n == Len(wire)
<1>1. p \in Seq(S) /\ r \in Nat /\ Len(p) = r /\ Len(resp) = r + 1 /\ Head(resp) = resp[1] /\ \A i \in 1 .. r : p[i] = resp[i + 1]
  BY TailOf
<1>2. Len(resp) <= Len(q) /\ q # <<>>
  BY <1>1 DEF InOrder
<1>3. d \in Seq(S) /\ m \in Nat /\ Len(d) = m /\ Len(q) = m + 1 /\ Head(q) = q[1] /\ \A i \in 1 .. m : d[i] = q[i + 1]
  BY <1>2, TailOf
<1>4. /\ (\A i, j \in 1 .. m + 1 : q[i] = q[j] => i = j) /\ \A i \in 1 .. m + 1 : kinds[q[i]] # "mute"
      /\ r <= m /\ \A i \in 1 .. r + 1 : resp[i] = q[i]
  <2>1. Distinct(q) /\ (\A i \in 1 .. Len(q) : kinds[q[i]] # "mute") /\ \A i \in 1 .. Len(resp) : resp[i] = q[i]
    BY DEF InOrder
  <2>2. Len(resp) = r + 1 /\ Len(q) = m + 1 /\ DOMAIN q = 1 .. Len(q) /\ r \in Nat /\ m \in Nat
    BY <1>1, <1>3
  <2> HIDE DEF r, m
  <2>3. r <= m
    BY <1>2, <2>2
  <2>4. \A i, j \in 1 .. m + 1 : q[i] = q[j] => i = j
    BY <2>1, <2>2 DEF Distinct
  <2> QED
    BY <2>1, <2>2, <2>3, <2>4
<1>5. /\ \A i \in r + 2 .. m + 1 : \E k \in 1 .. n : wire[k] = q[i]
      /\ \A k \in 1 .. n : kinds[wire[k]] # "mute" => \E i \in r + 2 .. m + 1 : q[i] = wire[k]
      /\ \A i, j \in r + 2 .. m + 1 : \A k, l \in 1 .. n : q[i] = wire[k] /\ q[j] = wire[l] /\ k < l => i < j
  <2>1. Len(resp) + 1 = r + 2 /\ Len(q) = m + 1
    BY <1>1, <1>3
  <2> QED
    BY <2>1 DEF InOrder
<1> HIDE DEF p, r, d, m, n
<1>6. 1 \in 1 .. r + 1 /\ (\A i \in 1 .. m : i + 1 \in 1 .. m + 1) /\ (\A i \in 1 .. r : i + 1 \in 1 .. r + 1 /\ i \in 1 .. m)
      /\ (\A i \in r + 1 .. m : i + 1 \in r + 2 .. m + 1 /\ i \in 1 .. m)
  BY <1>1, <1>3, <1>4
<1>7. Head(q) = Head(resp)
  BY <1>1, <1>3, <1>4, <1>6
<1>8. \A i, j \in 1 .. m : d[i] = d[j] => i = j
  <2> SUFFICES ASSUME NEW i \in 1 .. m, NEW j \in 1 .. m, d[i] = d[j] PROVE i = j
    OBVIOUS
  <2>1. i + 1 = j + 1
    BY <1>3, <1>4, <1>6
  <2> QED
    BY <2>1, <1>3
<1>9. (\A i \in 1 .. m : kinds[d[i]] # "mute") /\ \A i \in 1 .. r : p[i] = d[i]
  BY <1>1, <1>3, <1>4, <1>6
<1>10. \A i \in r + 1 .. m : \E k \in 1 .. n : wire[k] = d[i]
  BY <1>3, <1>5, <1>6
<1>11. \A k \in 1 .. n : kinds[wire[k]] # "mute" => \E i \in r + 1 .. m : d[i] = wire[k]
  <2> SUFFICES ASSUME NEW k \in 1 .. n, kinds[wire[k]] # "mute" PROVE \E i \in r + 1 .. m : d[i] = wire[k]
    OBVIOUS
  <2>1. PICK i \in r + 2 .. m + 1 : q[i] = wire[k]
    BY <1>5
  <2>2. i - 1 \in r + 1 .. m /\ i - 1 \in 1 .. m /\ (i - 1) + 1 = i
    BY <1>1, <1>3
  <2>3. d[i - 1] = q[(i - 1) + 1]
    BY <2>2, <1>3
  <2> QED
    BY <2>1, <2>2, <2>3
<1>12. \A i, j \in r + 1 .. m : \A k, l \in 1 .. n : d[i] = wire[k] /\ d[j] = wire[l] /\ k < l => i < j
  <2> SUFFICES ASSUME NEW i \in r + 1 .. m, NEW j \in r + 1 .. m, NEW k \in 1 .. n, NEW l \in 1 .. n, d[i] = wire[k], d[j] = wire[l], k < l
               PROVE  i < j
    OBVIOUS
  <2>1. q[i + 1] = wire[k] /\ q[j + 1] = wire[l] /\ i + 1 \in r + 2 .. m + 1 /\ j + 1 \in r + 2 .. m + 1
    BY <1>3, <1>6
  <2>2. i + 1 < j + 1
    BY <2>1, <1>5
  <2> QED
    BY <2>2, <1>1, <1>3
<1>13. Distinct(d)
  <2>1. DOMAIN d = 1 .. m
    BY <1>3
  <2> QED
    BY <2>1, <1>8 DEF Distinct
<1>14. InOrder(d, p, wire, kinds)
  BY <1>1, <1>3, <1>4, <1>9, <1>10, <1>11, <1>12, <1>13 DEF InOrder, n
<1> QED
  BY <1>2, <1>7, <1>14 DEF p, d

-----------------------------------------------------------------------------
(* The fields of a state.                                                  *)

LEMMA Fields ==
    ASSUME NEW c \in State
    PROVE  /\ c.wq \in Seq(Txs) /\ c.rq \in Seq(Txs) /\ c.wire \in Seq(Txs) /\ c.resp \in Seq(Txs)
           /\ c.write \in {"no", "new", "half", "whole"} /\ c.loop \in {"idle", "read", "drain", "write", "take"}
           /\ c.reading \in BOOLEAN /\ c.st \in [Txs -> Statuses] /\ c.callback \in [Txs -> BOOLEAN] /\ c.got \in [Txs -> Txs \cup {0}]
           /\ c.scene \in Scenes /\ c.failed = {}
           /\ Len(c.wq) \in Nat /\ Len(c.rq) \in Nat /\ DOMAIN c.wq = 1 .. Len(c.wq) /\ DOMAIN c.rq = 1 .. Len(c.rq)
BY DEF State, Blocking

\* The synchronous transaction, and that it is the same in a state with the same statuses.
LEMMA SyncFound ==
    ASSUME NEW c, SyncInv(c), c.loop \in Blocking
    PROVE  SyncOf(c) \in Txs /\ IsSync(c, SyncOf(c)) /\ \A t \in Txs : IsSync(c, t) => t = SyncOf(c)
<1>1. \E t \in Txs : IsSync(c, t)
  BY DEF SyncInv
<1>2. SyncOf(c) \in Txs /\ IsSync(c, SyncOf(c))
  BY <1>1 DEF SyncOf
<1> QED
  BY <1>2 DEF SyncInv

LEMMA SyncSame ==
    ASSUME NEW c, NEW d, SyncInv(c), SyncInv(d), c.loop \in Blocking, d.loop \in Blocking, \A t \in Txs : IsSync(c, t) => IsSync(d, t)
    PROVE  SyncOf(d) = SyncOf(c)
BY SyncFound

\* The three forms of Awaited.
LEMMA AwaitedForms ==
    ASSUME NEW c, MidInv(c)
    PROVE  /\ Awaited(c) \in Seq(Txs)
           /\ c.write = "whole" => c.wq # <<>> /\ Head(c.wq) \in Txs /\ c.loop \notin Blocking
           /\ c.write = "whole" /\ Kind(c, Head(c.wq)) # "mute" => Awaited(c) = Append(c.rq, Head(c.wq))
           /\ c.loop = "take" => Awaited(c) = Append(c.rq, SyncOf(c)) /\ c.write = "no"
           /\ (c.write # "whole" \/ Kind(c, Head(c.wq)) = "mute") /\ c.loop # "take" => Awaited(c) = c.rq
<1>1. c \in State /\ SyncInv(c) /\ WriteInv(c)
  BY DEF MidInv
<1>2. c.wq \in Seq(Txs) /\ c.rq \in Seq(Txs)
  BY <1>1, Fields
<1>3. c.write # "no" => c.wq # <<>> /\ c.loop \notin Blocking
  BY <1>1 DEF WriteInv, SyncInv
<1>4. c.write = "whole" => c.wq # <<>> /\ Head(c.wq) \in Txs /\ c.loop \notin Blocking
  BY <1>2, <1>3, TailOf
<1>5. c.loop = "take" => SyncOf(c) \in Txs /\ c.write = "no"
  BY <1>1, <1>3, SyncFound DEF Blocking
<1>6. c.write = "whole" => c.loop # "take"
  BY <1>3 DEF Blocking
<1> QED
  BY <1>2, <1>4, <1>5, <1>6 DEF Awaited

\* Steps that leave the queues, the socket and the statuses of synchronous transactions alone leave the order alone.
LEMMA AwaitedSame ==
    ASSUME NEW c, NEW d, MidInv(c), SyncInv(d), d.rq = c.rq, d.scene = c.scene,
           c.write = "whole" <=> d.write = "whole", c.write = "whole" => Head(d.wq) = Head(c.wq),
           c.loop = "take" <=> d.loop = "take", \A t \in Txs : IsSync(c, t) => IsSync(d, t)
    PROVE  Awaited(d) = Awaited(c)
<1>1. CASE c.loop = "take"
  <2>1. SyncOf(d) = SyncOf(c)
    BY <1>1, SyncSame DEF MidInv, Blocking
  <2>2. c.write # "whole"
    BY <1>1, AwaitedForms
  <2> QED
    BY <1>1, <2>1, <2>2 DEF Awaited
<1>2. CASE c.loop # "take"
  BY <1>2 DEF Awaited, Kind
<1> QED
  BY <1>1, <1>2

-----------------------------------------------------------------------------
(* The helpers of the handlers.                                            *)

\* async_nb_submit_write_pending
LEMMA SubmitKeeps ==
    ASSUME ConstantsOK, NEW c, MidInv(c)
    PROVE  LET d == Submit(c)
           IN  /\ MidInv(d) /\ SubmitInv(d) /\ d.wq = c.wq /\ d.rq = c.rq /\ d.st = c.st /\ d.callback = c.callback
               /\ d.scene = c.scene /\ d.reading = c.reading /\ d.loop = c.loop
<1> DEFINE d == Submit(c)
<1>1. c \in State /\ QueueInv(c) /\ SyncInv(c) /\ WriteInv(c) /\ OrderInv(c) /\ AnswerInv(c)
  BY DEF MidInv
<1>2. c.wq \in Seq(Txs) /\ c.rq \in Seq(Txs) /\ Len(c.rq) \in Nat /\ c.write \in {"no", "new", "half", "whole"}
  BY <1>1, Fields
<1>3. CASE Len(c.rq) < MaxInFlight /\ c.write = "no" /\ c.wq # <<>>
  <2>1. d = [c EXCEPT !.write = "new"]
    BY <1>3 DEF Submit
  <2>2. /\ d \in State /\ d.write = "new" /\ d.wq = c.wq /\ d.rq = c.rq /\ d.st = c.st /\ d.callback = c.callback /\ d.scene = c.scene
        /\ d.reading = c.reading /\ d.loop = c.loop /\ d.wire = c.wire /\ d.resp = c.resp /\ d.got = c.got
    BY <1>1, <2>1 DEF State
  <2> HIDE DEF d
  <2>3. QueueInv(d) /\ SyncInv(d) /\ WriteInv(d) /\ AnswerInv(d)
    BY <1>1, <1>3, <2>2 DEF QueueInv, SyncInv, WriteInv, AnswerInv, IsSync, Kind
  <2>4. Awaited(d) = Awaited(c)
    <3>1. \A t \in Txs : IsSync(c, t) => IsSync(d, t)
      BY <2>2 DEF IsSync, Kind
    <3> QED
      BY <1>3, <2>2, <2>3, <3>1, AwaitedSame
  <2>5. OrderInv(d)
    BY <1>1, <2>2, <2>4 DEF OrderInv
  <2> QED
    BY <2>2, <2>3, <2>5 DEF MidInv, SubmitInv, d
<1>4. CASE ~(Len(c.rq) < MaxInFlight /\ c.write = "no" /\ c.wq # <<>>)
  <2>1. d = c
    BY <1>4 DEF Submit
  <2>2. SubmitInv(c)
    BY <1>2, <1>4 DEF SubmitInv, ConstantsOK
  <2> QED
    BY <2>1, <2>2
<1> QED
  BY <1>3, <1>4

\* async_nb_push
LEMMA PushKeeps ==
    ASSUME ConstantsOK, NEW c, MidInv(c), NEW t \in Txs, c.st[t] = "new", Kind(c, t) # "sync", c.loop \in {"idle", "read"}
    PROVE  LET d == PushWrite(c, t)
           IN  /\ MidInv(d) /\ d.rq = c.rq /\ d.st = [c.st EXCEPT ![t] = "queued"] /\ d.callback = c.callback
               /\ d.scene = c.scene /\ d.reading = c.reading /\ d.loop = c.loop
<1> DEFINE d == PushWrite(c, t)
<1>1. c \in State /\ QueueInv(c) /\ SyncInv(c) /\ WriteInv(c) /\ OrderInv(c) /\ AnswerInv(c)
  BY DEF MidInv
<1>2. /\ c.wq \in Seq(Txs) /\ c.rq \in Seq(Txs) /\ Len(c.wq) \in Nat /\ DOMAIN c.wq = 1 .. Len(c.wq) /\ DOMAIN c.rq = 1 .. Len(c.rq)
      /\ c.st \in [Txs -> Statuses]
  BY <1>1, Fields
<1>3. (\A i \in 1 .. Len(c.wq) : c.wq[i] # t) /\ (\A i \in 1 .. Len(c.rq) : c.rq[i] # t)
  BY <1>1 DEF QueueInv
<1>4. ~Linked(c, t)
  BY <1>2, <1>3 DEF Linked, ToSet
<1>5. d = [c EXCEPT !.wq = Append(@, t), !.st[t] = "queued"]
  BY <1>4 DEF PushWrite, Asserted
<1>6. /\ d \in State /\ d.wq = Append(c.wq, t) /\ d.write = c.write /\ d.rq = c.rq /\ d.st = [c.st EXCEPT ![t] = "queued"]
      /\ d.callback = c.callback /\ d.scene = c.scene
      /\ d.reading = c.reading /\ d.loop = c.loop /\ d.wire = c.wire /\ d.resp = c.resp /\ d.got = c.got
  <2> DEFINE W == Append(c.wq, t)
             X == [c.st EXCEPT ![t] = "queued"]
  <2>1. W \in Seq(Txs) /\ X \in [Txs -> Statuses]
    BY <1>2 DEF Statuses
  <2>2. d = [c EXCEPT !.wq = W, !.st = X]
    BY <1>1, <1>5 DEF State
  <2> HIDE DEF d, W, X
  <2>3. /\ d \in State /\ d.wq = W /\ d.write = c.write /\ d.rq = c.rq /\ d.st = X
        /\ d.callback = c.callback /\ d.scene = c.scene
        /\ d.reading = c.reading /\ d.loop = c.loop /\ d.wire = c.wire /\ d.resp = c.resp /\ d.got = c.got
    BY <1>1, <2>1, <2>2 DEF State
  <2> QED
    BY <2>3 DEF W, X
<1> DEFINE n == Len(c.wq)
<1>7. d.wq \in Seq(Txs) /\ Len(d.wq) = n + 1 /\ DOMAIN d.wq = 1 .. n + 1 /\ d.wq[n + 1] = t /\ \A i \in 1 .. n : d.wq[i] = c.wq[i]
  BY <1>2, <1>6
<1>8. d.st[t] = "queued" /\ \A u \in Txs : u # t => d.st[u] = c.st[u]
  BY <1>2, <1>6
<1> HIDE DEF d
<1>9. QueueInv(d)
  <2>0. \A i \in 1 .. n + 1 : i \in 1 .. n \/ i = n + 1
    BY <1>2
  <2>1. ASSUME NEW i \in 1 .. n + 1, NEW j \in 1 .. n + 1, d.wq[i] = d.wq[j] PROVE i = j
    <3>1. CASE i \in 1 .. n /\ j \in 1 .. n
      BY <2>1, <3>1, <1>1, <1>2, <1>7 DEF QueueInv, Distinct
    <3>2. ~(i \in 1 .. n /\ j = n + 1) /\ ~(j \in 1 .. n /\ i = n + 1)
      BY <2>1, <1>3, <1>7
    <3> QED
      BY <2>0, <3>1, <3>2
  <2>2. Distinct(d.wq)
    BY <2>1, <1>7 DEF Distinct
  <2>3. ASSUME NEW i \in 1 .. n + 1 PROVE d.st[d.wq[i]] = "queued" /\ Kind(d, d.wq[i]) # "sync"
    <3>1. CASE i \in 1 .. n
      <4>1. d.wq[i] = c.wq[i] /\ c.wq[i] \in Txs /\ c.wq[i] # t
        BY <3>1, <1>2, <1>3, <1>7
      <4> QED
        BY <3>1, <4>1, <1>1, <1>6, <1>8 DEF QueueInv, Kind
    <3>2. CASE i = n + 1
      BY <3>2, <1>6, <1>7, <1>8 DEF Kind
    <3> QED
      BY <2>0, <3>1, <3>2
  <2>4. ASSUME NEW i \in 1 .. Len(c.rq) PROVE d.st[c.rq[i]] = "awaiting" /\ Kind(d, c.rq[i]) \in {"job", "fiber"}
    <3>1. c.rq[i] \in Txs /\ c.rq[i] # t
      BY <1>2, <1>3
    <3> QED
      BY <3>1, <1>1, <1>6, <1>8 DEF QueueInv, Kind
  <2> QED
    BY <1>1, <1>6, <1>7, <2>2, <2>3, <2>4 DEF QueueInv
<1>10. \A u \in Txs : IsSync(d, u) <=> IsSync(c, u)
  BY <1>6, <1>8 DEF IsSync, Kind
<1>11. SyncInv(d)
  BY <1>1, <1>6, <1>10 DEF SyncInv, Blocking
<1>12. d.wq # <<>> /\ (c.wq # <<>> => Head(d.wq) = Head(c.wq))
  BY <1>2, <1>6, <1>7, HeadStays
<1>13. WriteInv(d) /\ AnswerInv(d)
  BY <1>1, <1>6, <1>12 DEF WriteInv, AnswerInv
<1>14. OrderInv(d)
  <2>1. c.write = "whole" => Head(d.wq) = Head(c.wq)
    BY <1>12, AwaitedForms
  <2>2. Awaited(d) = Awaited(c)
    BY <2>1, <1>6, <1>10, <1>11, AwaitedSame
  <2> QED
    BY <2>2, <1>1, <1>6 DEF OrderInv
<1> QED
  BY <1>6, <1>9, <1>11, <1>13, <1>14 DEF MidInv, d

LEMMA TailDistinct ==
    ASSUME NEW S, NEW s \in Seq(S), s # <<>>, Distinct(s)
    PROVE  /\ Distinct(Tail(s))
           /\ \A i \in 1 .. Len(Tail(s)) : Tail(s)[i] # Head(s) /\ Tail(s)[i] = s[i + 1] /\ i + 1 \in 1 .. Len(s) /\ Tail(s)[i] \in S
<1> DEFINE z == Tail(s)
           n == Len(s)
<1>1. /\ z \in Seq(S) /\ n \in Nat /\ n >= 1 /\ Len(z) = n - 1 /\ Head(s) = s[1] /\ DOMAIN z = 1 .. n - 1 /\ DOMAIN s = 1 .. n
      /\ \A i \in 1 .. n - 1 : z[i] = s[i + 1]
  BY TailOf
<1>2. \A i, j \in 1 .. n : s[i] = s[j] => i = j
  BY <1>1 DEF Distinct
<1> HIDE DEF z, n
<1>3. 1 \in 1 .. n /\ \A i \in 1 .. n - 1 : i + 1 \in 1 .. n /\ i + 1 # 1
  BY <1>1
<1>4. \A i, j \in 1 .. n - 1 : z[i] = z[j] => i = j
  <2> SUFFICES ASSUME NEW i \in 1 .. n - 1, NEW j \in 1 .. n - 1, z[i] = z[j] PROVE i = j
    OBVIOUS
  <2>1. i + 1 = j + 1
    BY <1>1, <1>2, <1>3
  <2> QED
    BY <2>1, <1>1
<1>5. \A i \in 1 .. n - 1 : z[i] # Head(s) /\ z[i] \in S
  <2> TAKE i \in 1 .. n - 1
  <2>1. z[i] = s[i + 1] /\ s[i + 1] # s[1]
    BY <1>1, <1>2, <1>3
  <2>2. z[i] \in S
    BY <1>1
  <2> QED
    BY <2>1, <2>2, <1>1
<1> QED
  BY <1>1, <1>3, <1>4, <1>5 DEF Distinct, z, n

LEMMA AppendDistinct ==
    ASSUME NEW S, NEW s \in Seq(S), NEW x \in S, Distinct(s), \A i \in 1 .. Len(s) : s[i] # x
    PROVE  Distinct(Append(s, x))
<1> DEFINE a == Append(s, x)
           n == Len(s)
<1>1. n \in Nat /\ DOMAIN a = 1 .. n + 1 /\ DOMAIN s = 1 .. n /\ a[n + 1] = x /\ \A i \in 1 .. n : a[i] = s[i]
  OBVIOUS
<1> HIDE DEF a, n
<1>2. \A i \in 1 .. n + 1 : i \in 1 .. n \/ i = n + 1
  BY <1>1
<1>3. ASSUME NEW i \in 1 .. n + 1, NEW j \in 1 .. n + 1, a[i] = a[j] PROVE i = j
  <2>1. CASE i \in 1 .. n /\ j \in 1 .. n
    BY <1>1, <1>3, <2>1 DEF Distinct
  <2>2. ~(i \in 1 .. n /\ j = n + 1) /\ ~(j \in 1 .. n /\ i = n + 1)
    BY <1>1, <1>3 DEF n
  <2> QED
    BY <1>2, <2>1, <2>2
<1> QED
  BY <1>1, <1>3 DEF Distinct, a

\* A synchronous transaction is not touched by what happens to the others.
LEMMA SyncUntouched ==
    ASSUME NEW c, NEW d, NEW t \in Txs, d.scene = c.scene, Kind(c, t) # "sync", \A u \in Txs : u # t => d.st[u] = c.st[u]
    PROVE  \A u \in Txs : IsSync(d, u) <=> IsSync(c, u)
BY DEF IsSync, Kind

-----------------------------------------------------------------------------
(* The socket is written to.                                               *)

LEMMA HalfKeeps ==
    ASSUME ConstantsOK, NEW c, Inv(c), c.write = "new"
    PROVE  Inv([c EXCEPT !.write = "half"])
<1> DEFINE d == [c EXCEPT !.write = "half"]
<1>1. MidInv(c) /\ c \in State /\ QueueInv(c) /\ SyncInv(c) /\ WriteInv(c) /\ OrderInv(c) /\ AnswerInv(c) /\ ReadInv(c) /\ CallbackInv(c)
  BY DEF Inv, MidInv
<1>2. /\ d \in State /\ d.write = "half" /\ d.wq = c.wq /\ d.rq = c.rq /\ d.st = c.st /\ d.callback = c.callback /\ d.scene = c.scene
      /\ d.reading = c.reading /\ d.loop = c.loop /\ d.wire = c.wire /\ d.resp = c.resp /\ d.got = c.got
  BY <1>1 DEF State
<1> HIDE DEF d
<1>3. QueueInv(d) /\ SyncInv(d) /\ WriteInv(d) /\ AnswerInv(d) /\ ReadInv(d) /\ CallbackInv(d)
  BY <1>1, <1>2 DEF QueueInv, SyncInv, WriteInv, AnswerInv, ReadInv, CallbackInv, IsSync, Kind
<1>4. \A t \in Txs : IsSync(c, t) => IsSync(d, t)
  BY <1>2 DEF IsSync, Kind
<1>5. Awaited(d) = Awaited(c)
  BY <1>1, <1>2, <1>3, <1>4, AwaitedSame
<1>6. OrderInv(d) /\ SubmitInv(d)
  BY <1>1, <1>2, <1>5 DEF OrderInv, SubmitInv
<1> QED
  BY <1>2, <1>3, <1>6 DEF Inv, MidInv, d

LEMMA WholeKeeps ==
    ASSUME ConstantsOK, NEW c, Inv(c), c.write \in {"new", "half"}
    PROVE  Inv(Whole(c))
<1> DEFINE d == Whole(c)
           h == Head(c.wq)
           W == Append(c.wire, h)
<1>1. MidInv(c) /\ c \in State /\ QueueInv(c) /\ SyncInv(c) /\ WriteInv(c) /\ OrderInv(c) /\ AnswerInv(c) /\ ReadInv(c) /\ CallbackInv(c)
  BY DEF Inv, MidInv
<1>2. c.wq \in Seq(Txs) /\ c.wq # <<>> /\ c.rq \in Seq(Txs) /\ c.resp \in Seq(Txs) /\ c.wire \in Seq(Txs)
  BY <1>1, Fields DEF WriteInv
<1>3. h \in Txs /\ h = c.wq[1] /\ 1 \in 1 .. Len(c.wq)
  BY <1>2, TailOf
<1>4. W \in Seq(Txs)
  BY <1>2, <1>3
<1>5. /\ d \in State /\ d.write = "whole" /\ d.wq = c.wq /\ d.rq = c.rq /\ d.st = c.st /\ d.callback = c.callback /\ d.scene = c.scene
      /\ d.reading = c.reading /\ d.loop = c.loop /\ d.wire = W /\ d.resp = c.resp /\ d.got = c.got
  <2>1. d = [c EXCEPT !.write = "whole", !.wire = W]
    BY <1>1 DEF Whole, State
  <2> HIDE DEF d, W
  <2> QED
    BY <1>1, <1>4, <2>1 DEF State
<1> HIDE DEF d
<1>6. QueueInv(d) /\ SyncInv(d) /\ WriteInv(d) /\ AnswerInv(d) /\ ReadInv(d) /\ CallbackInv(d) /\ SubmitInv(d)
  BY <1>1, <1>5 DEF QueueInv, SyncInv, WriteInv, AnswerInv, ReadInv, CallbackInv, SubmitInv, IsSync, Kind
<1>7. c.loop # "take"
  BY <1>1, <1>2 DEF SyncInv, Blocking
<1>8. Awaited(c) = c.rq
  BY <1>1, <1>7, AwaitedForms
<1>9. InOrder(c.rq, c.resp, c.wire, c.scene.kinds)
  BY <1>1, <1>8 DEF OrderInv
<1>10. OrderInv(d)
  <2>1. CASE Kind(c, h) = "mute"
    <3>1. Awaited(d) = c.rq
      BY <2>1, <1>5, <1>7 DEF Awaited, Kind
    <3>2. InOrder(c.rq, c.resp, W, c.scene.kinds)
      BY <2>1, <1>2, <1>3, <1>9, OrderMute DEF Kind
    <3> QED
      BY <3>1, <3>2, <1>5 DEF OrderInv
  <2>2. CASE Kind(c, h) # "mute"
    <3>1. Awaited(d) = Append(c.rq, h)
      BY <2>2, <1>5 DEF Awaited, Kind
    <3>2. \A i \in 1 .. Len(c.rq) : c.rq[i] # h
      BY <1>1, <1>3 DEF QueueInv
    <3>3. InOrder(Append(c.rq, h), c.resp, W, c.scene.kinds)
      BY <2>2, <3>2, <1>2, <1>3, <1>9, OrderPush DEF Kind
    <3> QED
      BY <3>1, <3>3, <1>5 DEF OrderInv
  <2> QED
    BY <2>1, <2>2
<1> QED
  BY <1>5, <1>6, <1>10 DEF Inv, MidInv, d

-----------------------------------------------------------------------------
(* A request is written; a response is read.                               *)

\* What async_nb_on_write_complete does before it submits the next request.
LEMMA DoneKeeps ==
    ASSUME ConstantsOK, NEW c, Inv(c), c.loop = "idle", c.write = "whole"
    PROVE  LET d == WriteDone([c EXCEPT !.wq = Tail(@), !.write = "no"], Head(c.wq))
           IN  MidInv(d) /\ ReadInv(d) /\ CallbackInv(d)
<1> DEFINE h == Head(c.wq)
           z == Tail(c.wq)
           b == [c EXCEPT !.wq = Tail(@), !.write = "no"]
           d == WriteDone(b, h)
           mute == Kind(c, h) = "mute"
           X == [c.st EXCEPT ![h] = IF mute THEN "done" ELSE "awaiting"]
           Q == IF mute THEN c.rq ELSE Append(c.rq, h)
           on == IF mute THEN c.reading ELSE TRUE
<1>1. MidInv(c) /\ c \in State /\ QueueInv(c) /\ SyncInv(c) /\ WriteInv(c) /\ OrderInv(c) /\ AnswerInv(c) /\ ReadInv(c) /\ CallbackInv(c)
  BY DEF Inv, MidInv
<1>2. /\ c.wq \in Seq(Txs) /\ c.wq # <<>> /\ c.rq \in Seq(Txs) /\ c.st \in [Txs -> Statuses] /\ c.reading \in BOOLEAN /\ c.scene \in Scenes
      /\ Len(c.rq) \in Nat /\ DOMAIN c.rq = 1 .. Len(c.rq) /\ Len(c.rq) < MaxInFlight
  BY <1>1, Fields DEF WriteInv
<1>3. h \in Txs /\ h = c.wq[1] /\ 1 \in 1 .. Len(c.wq) /\ z \in Seq(Txs)
  BY <1>2, TailOf
<1>4. c.st[h] = "queued" /\ Kind(c, h) # "sync" /\ \A i \in 1 .. Len(c.rq) : c.rq[i] # h
  BY <1>1, <1>3 DEF QueueInv
<1>5. ~mute => Kind(c, h) \in {"job", "fiber"}
  BY <1>2, <1>3, <1>4 DEF ConstantsOK, Kind
<1>6. X \in [Txs -> Statuses] /\ Q \in Seq(Txs) /\ on \in BOOLEAN
  <2> HIDE DEF mute, h
  <2>1. X \in [Txs -> Statuses]
    <3> DEFINE v == IF mute THEN "done" ELSE "awaiting"
    <3>1. v \in Statuses
      BY DEF Statuses
    <3> HIDE DEF v
    <3>2. [c.st EXCEPT ![h] = v] \in [Txs -> Statuses]
      BY <3>1, <1>2, <1>3
    <3> QED
      BY <3>2 DEF v
  <2>2. Append(c.rq, h) \in Seq(Txs)
    BY <1>2, <1>3
  <2>3. on = c.reading \/ on = TRUE
    BY Zenon
  <2>4. on \in BOOLEAN
    BY <2>3, <1>2
  <2> QED
    BY <2>1, <2>2, <2>4, <1>2
<1>7. /\ d \in State /\ d.write = "no" /\ d.wq = z /\ d.rq = Q /\ d.st = X /\ d.callback = c.callback /\ d.scene = c.scene
      /\ d.reading = on /\ d.loop = "idle" /\ d.wire = c.wire /\ d.resp = c.resp /\ d.got = c.got
  <2>1. d = [c EXCEPT !.wq = z, !.write = "no", !.rq = Q, !.st = X, !.reading = on]
    <3>1. Kind(b, h) = Kind(c, h)
      BY <1>1 DEF Kind, State
    <3>2. CASE mute
      BY <1>1, <3>1, <3>2 DEF WriteDone, State
    <3>3. CASE ~mute
      BY <1>1, <3>1, <3>3 DEF WriteDone, State
    <3> QED
      BY <3>2, <3>3
  <2> HIDE DEF d, X, Q, on, z
  <2> QED
    BY <1>1, <1>3, <1>6, <2>1 DEF State
<1>8. d.st[h] = (IF mute THEN "done" ELSE "awaiting") /\ (\A u \in Txs : u # h => d.st[u] = c.st[u]) /\ \A u \in Txs : IsSync(d, u) <=> IsSync(c, u)
  <2> HIDE DEF d, mute, h
  <2>1. d.st = [c.st EXCEPT ![h] = IF mute THEN "done" ELSE "awaiting"] /\ d.scene = c.scene
    BY <1>7
  <2>2. d.st[h] = (IF mute THEN "done" ELSE "awaiting") /\ (\A u \in Txs : u # h => d.st[u] = c.st[u])
    BY <2>1, <1>2, <1>3
  <2> QED
    BY <2>1, <2>2, <1>3, <1>4, SyncUntouched
<1> HIDE DEF d, b
<1>9. Distinct(z) /\ \A i \in 1 .. Len(z) : z[i] # h /\ z[i] = c.wq[i + 1] /\ i + 1 \in 1 .. Len(c.wq) /\ z[i] \in Txs
  BY <1>1, <1>2, TailDistinct DEF QueueInv
<1>10. Distinct(Q) /\ \A i \in 1 .. Len(Q) : d.st[Q[i]] = "awaiting" /\ Kind(d, Q[i]) \in {"job", "fiber"}
  <2>0. \A i \in 1 .. Len(c.rq) : d.st[c.rq[i]] = "awaiting" /\ Kind(d, c.rq[i]) \in {"job", "fiber"}
    <3> TAKE i \in 1 .. Len(c.rq)
    <3>1. c.rq[i] \in Txs /\ c.rq[i] # h
      BY <1>2, <1>4
    <3> QED
      BY <3>1, <1>1, <1>7, <1>8 DEF QueueInv, Kind
  <2>1. CASE mute
    BY <2>0, <2>1, <1>1 DEF QueueInv
  <2>2. CASE ~mute
    <3>1. Distinct(Q)
      BY <2>2, <1>1, <1>2, <1>3, <1>4, AppendDistinct DEF QueueInv
    <3>2. Q = Append(c.rq, h)
      BY <2>2
    <3> HIDE DEF Q, mute, h
    <3>3. Len(Q) = Len(c.rq) + 1 /\ Q[Len(c.rq) + 1] = h /\ \A i \in 1 .. Len(c.rq) : Q[i] = c.rq[i]
      BY <3>2, <1>2, <1>3, AppendTo
    <3>4. \A i \in 1 .. Len(Q) : i \in 1 .. Len(c.rq) \/ i = Len(c.rq) + 1
      BY <3>3, <1>2
    <3>5. d.st[h] = "awaiting" /\ Kind(d, h) \in {"job", "fiber"}
      BY <2>2, <1>5, <1>7, <1>8 DEF Kind
    <3> QED
      BY <2>0, <3>1, <3>3, <3>4, <3>5
  <2> QED
    BY <2>1, <2>2
<1>11. QueueInv(d)
  <2>1. \A i \in 1 .. Len(z) : d.st[z[i]] = "queued" /\ Kind(d, z[i]) # "sync"
    BY <1>1, <1>7, <1>8, <1>9 DEF QueueInv, Kind
  <2> QED
    BY <2>1, <1>7, <1>9, <1>10 DEF QueueInv
<1>12. SyncInv(d)
  BY <1>1, <1>7, <1>8 DEF SyncInv, Blocking
<1>13. WriteInv(d) /\ AnswerInv(d)
  <2>1. Len(Q) <= Len(c.rq) + 1
    BY <1>2, <1>3
  <2>2. Len(Q) <= MaxInFlight
    BY <2>1, <1>2, <1>6 DEF ConstantsOK
  <2> QED
    BY <2>2, <1>1, <1>7 DEF WriteInv, AnswerInv
<1>14. OrderInv(d)
  <2>1. Awaited(c) = Q
    BY <1>1, AwaitedForms
  <2>2. Awaited(d) = Q
    BY <1>7 DEF Awaited
  <2> QED
    BY <2>1, <2>2, <1>1, <1>7 DEF OrderInv
<1>15. ReadInv(d)
  <2>1. Append(c.rq, h) # <<>>
    BY <1>2, <1>3
  <2>2. CASE mute
    BY <2>2, <1>1, <1>7 DEF ReadInv
  <2>3. CASE ~mute
    BY <2>1, <2>3, <1>7 DEF ReadInv
  <2> QED
    BY <2>2, <2>3
<1>16. CallbackInv(d)
  <2> SUFFICES ASSUME NEW u \in Txs, Kind(d, u) = "job", d.st[u] \in {"queued", "awaiting"} PROVE d.callback[u]
    BY DEF CallbackInv
  <2>1. Kind(c, u) = "job" /\ c.st[u] \in {"queued", "awaiting"}
    BY <1>4, <1>7, <1>8 DEF Kind
  <2> QED
    BY <2>1, <1>1, <1>7 DEF CallbackInv
<1> QED
  BY <1>7, <1>11, <1>12, <1>13, <1>14, <1>15, <1>16 DEF MidInv, d, b

\* One response is read, and the thread is then at l.
LEMMA ReadKeeps ==
    ASSUME ConstantsOK, NEW c, Inv(c), c.loop \in {"read", "drain"}, c.resp # <<>>,
           NEW d \in State, NEW s \in {"done", "notified"},
           d.rq = Tail(c.rq), d.resp = Tail(c.resp), d.got = [c.got EXCEPT ![Head(c.rq)] = Head(c.resp)],
           d.st = [c.st EXCEPT ![Head(c.rq)] = s], d.wq = c.wq, d.write = c.write, d.wire = c.wire, d.callback = c.callback,
           d.scene = c.scene, d.loop \in Blocking <=> c.loop \in Blocking, d.loop # "take",
           d.loop = "write" => d.rq = <<>>, d.loop \in {"read", "drain"} => d.rq # <<>>
    PROVE  MidInv(d) /\ CallbackInv(d)
<1> DEFINE h == Head(c.rq)
           z == Tail(c.rq)
<1>1. MidInv(c) /\ c \in State /\ QueueInv(c) /\ SyncInv(c) /\ WriteInv(c) /\ OrderInv(c) /\ AnswerInv(c) /\ CallbackInv(c) /\ c.rq # <<>>
  BY DEF Inv, MidInv, SyncInv
<1>2. /\ c.wq \in Seq(Txs) /\ c.rq \in Seq(Txs) /\ c.resp \in Seq(Txs) /\ c.wire \in Seq(Txs) /\ c.st \in [Txs -> Statuses]
      /\ c.got \in [Txs -> Txs \cup {0}] /\ DOMAIN c.wq = 1 .. Len(c.wq)
  BY <1>1, Fields
<1>3. h \in Txs /\ h = c.rq[1] /\ 1 \in 1 .. Len(c.rq) /\ z \in Seq(Txs) /\ Len(z) = Len(c.rq) - 1 /\ Len(c.rq) \in Nat
  BY <1>1, <1>2, TailOf
<1>4. c.st[h] = "awaiting" /\ Kind(c, h) \in {"job", "fiber"} /\ \A i \in 1 .. Len(c.wq) : c.wq[i] # h
  BY <1>1, <1>3 DEF QueueInv
<1>5. d.st[h] = s /\ (\A u \in Txs : u # h => d.st[u] = c.st[u]) /\ \A u \in Txs : IsSync(d, u) <=> IsSync(c, u)
  <2> HIDE DEF h
  <2>1. Kind(c, h) # "sync" /\ d.st = [c.st EXCEPT ![h] = s]
    BY <1>4 DEF h
  <2>2. d.st[h] = s /\ (\A u \in Txs : u # h => d.st[u] = c.st[u])
    BY <2>1, <1>2, <1>3
  <2> QED
    BY <2>1, <2>2, <1>3, SyncUntouched
<1>6. Distinct(z) /\ \A i \in 1 .. Len(z) : z[i] # h /\ z[i] = c.rq[i + 1] /\ i + 1 \in 1 .. Len(c.rq) /\ z[i] \in Txs
  BY <1>1, <1>2, TailDistinct DEF QueueInv
<1>7. QueueInv(d)
  <2>1. \A i \in 1 .. Len(z) : d.st[z[i]] = "awaiting" /\ Kind(d, z[i]) \in {"job", "fiber"}
    BY <1>1, <1>5, <1>6 DEF QueueInv, Kind
  <2>2. \A i \in 1 .. Len(c.wq) : d.st[c.wq[i]] = "queued" /\ Kind(d, c.wq[i]) # "sync"
    <3> TAKE i \in 1 .. Len(c.wq)
    <3>1. c.wq[i] \in Txs /\ c.wq[i] # h
      BY <1>2, <1>4
    <3> QED
      BY <3>1, <1>1, <1>5 DEF QueueInv, Kind
  <2> QED
    BY <2>1, <2>2, <1>1, <1>6 DEF QueueInv
<1>8. SyncInv(d)
  BY <1>1, <1>5 DEF SyncInv, Blocking
<1>9. WriteInv(d)
  BY <1>1, <1>3 DEF WriteInv, ConstantsOK
<1>10. /\ Awaited(c) # <<>> /\ Head(Awaited(c)) = Head(c.resp) /\ Head(Awaited(c)) = h
       /\ Awaited(d) = Tail(Awaited(c)) /\ InOrder(Tail(Awaited(c)), Tail(c.resp), c.wire, c.scene.kinds)
  <2>1. Awaited(c) # <<>> /\ Head(Awaited(c)) = Head(c.resp) /\ InOrder(Tail(Awaited(c)), Tail(c.resp), c.wire, c.scene.kinds)
    BY <1>1, <1>2, AwaitedForms, OrderTake DEF OrderInv
  <2>2. c.loop # "take"
    OBVIOUS
  <2>3. CASE c.write = "whole" /\ Kind(c, Head(c.wq)) # "mute"
    <3>1. Awaited(c) = Append(c.rq, Head(c.wq)) /\ Head(c.wq) \in Txs
      BY <2>3, <1>1, AwaitedForms
    <3>2. Awaited(d) = Append(Tail(c.rq), Head(c.wq))
      BY <2>3 DEF Awaited, Kind
    <3> QED
      BY <2>1, <3>1, <3>2, <1>1, <1>2, HeadStays
  <2>4. CASE ~(c.write = "whole" /\ Kind(c, Head(c.wq)) # "mute")
    <3>1. Awaited(c) = c.rq
      BY <2>2, <2>4 DEF Awaited
    <3>2. Awaited(d) = Tail(c.rq)
      BY <2>4 DEF Awaited, Kind
    <3> QED
      BY <2>1, <3>1, <3>2
  <2> QED
    BY <2>3, <2>4
<1>11. OrderInv(d)
  BY <1>10 DEF OrderInv
<1>12. AnswerInv(d)
  <2> SUFFICES ASSUME NEW u \in Txs PROVE d.got[u] \in {0, u}
    BY DEF AnswerInv
  <2>1. CASE u = h
    BY <2>1, <1>2, <1>3, <1>10
  <2>2. CASE u # h
    BY <2>2, <1>1, <1>2 DEF AnswerInv
  <2> QED
    BY <2>1, <2>2
<1>13. CallbackInv(d)
  <2> SUFFICES ASSUME NEW u \in Txs, Kind(d, u) = "job", d.st[u] \in {"queued", "awaiting"} PROVE d.callback[u]
    BY DEF CallbackInv
  <2>1. u # h
    BY <1>5
  <2> QED
    BY <2>1, <1>1, <1>5 DEF CallbackInv, Kind
<1> QED
  BY <1>7, <1>8, <1>9, <1>11, <1>12, <1>13 DEF MidInv

\* A turn of the loop of async_nb_read_ready, and the rest of it.
LEMMA ReadStep ==
    ASSUME ConstantsOK, NEW c, Inv(c), c.loop \in {"read", "drain"}, c.resp # <<>>,
           NEW back \in {"idle", "drain", "write"}, c.loop = "read" <=> back = "idle", back = "drain" <=> c.loop = "drain" /\ Len(c.rq) > 1
    PROVE  Inv(AfterOne(ReadOne(c), back))
<1> DEFINE h == Head(c.rq)
           e == ReadOne(c)
           s == IF Kind(c, h) = "job" THEN "done" ELSE "notified"
           X == [c.st EXCEPT ![h] = s]
           G == [c.got EXCEPT ![h] = Head(c.resp)]
           Q == Tail(c.rq)
           P == Tail(c.resp)
<1>1. MidInv(c) /\ c \in State /\ QueueInv(c) /\ SyncInv(c) /\ ReadInv(c) /\ CallbackInv(c) /\ c.rq # <<>>
  BY DEF Inv, MidInv, SyncInv
<1>2. /\ c.rq \in Seq(Txs) /\ c.resp \in Seq(Txs) /\ c.st \in [Txs -> Statuses] /\ c.got \in [Txs -> Txs \cup {0}]
      /\ c.reading = TRUE
  BY <1>1, Fields DEF ReadInv
<1>3. /\ h \in Txs /\ h = c.rq[1] /\ 1 \in 1 .. Len(c.rq) /\ Q \in Seq(Txs) /\ P \in Seq(Txs) /\ Head(c.resp) \in Txs
      /\ Len(c.rq) \in Nat /\ Len(Q) = Len(c.rq) - 1
  BY <1>1, <1>2, TailOf
<1>4. Kind(c, h) = "job" => c.callback[h]
  BY <1>1, <1>3 DEF QueueInv, CallbackInv
<1>5. s \in {"done", "notified"} /\ X \in [Txs -> Statuses] /\ G \in [Txs -> Txs \cup {0}]
  <2>1. s \in {"done", "notified"}
    OBVIOUS
  <2> HIDE DEF s, h
  <2> QED
    BY <2>1, <1>2, <1>3 DEF Statuses
<1>6. e = [c EXCEPT !.rq = Q, !.resp = P, !.got = G, !.st = X]
  <2> DEFINE a == [c EXCEPT !.rq = Tail(@)]
             b == Take(a, h)
  <2>1. b = [c EXCEPT !.rq = Q, !.resp = P, !.got = G]
    BY <1>1 DEF Take, State
  <2> HIDE DEF Q, P, G, b, h
  <2>2. b.scene = c.scene /\ b.callback = c.callback /\ b.st = c.st
    BY <1>1, <2>1 DEF State
  <2>3. ReadComplete(b, h) = [b EXCEPT !.st[h] = s]
    BY <1>4, <2>2 DEF ReadComplete, Asserted, Kind
  <2>4. e = ReadComplete(b, h)
    BY DEF ReadOne, b, h
  <2> HIDE DEF e, s
  <2> QED
    BY <1>1, <2>1, <2>2, <2>3, <2>4 DEF State
<1> HIDE DEF e
<1>7. CASE e.rq # <<>> /\ e.resp # <<>>
  <2>1. /\ e \in State /\ e.write = c.write /\ e.wq = c.wq /\ e.rq = Q /\ e.st = X /\ e.callback = c.callback /\ e.scene = c.scene
        /\ e.reading = c.reading /\ e.loop = c.loop /\ e.wire = c.wire /\ e.resp = P /\ e.got = G
    <3> HIDE DEF X, G, Q, P, s, h
    <3> QED
      BY <1>1, <1>3, <1>5, <1>6 DEF State
  <2>2. MidInv(e) /\ CallbackInv(e)
    <3>1. e.rq = Tail(c.rq) /\ e.resp = Tail(c.resp) /\ e.got = [c.got EXCEPT ![Head(c.rq)] = Head(c.resp)]
          /\ e.st = [c.st EXCEPT ![Head(c.rq)] = s]
      BY <2>1
    <3>2. e.loop \in Blocking <=> c.loop \in Blocking
      BY <2>1
    <3>3. e.loop # "take" /\ e.loop # "write" /\ e.rq # <<>>
      BY <1>7, <2>1
    <3> HIDE DEF s, X, G, Q, P, h
    <3> QED
      BY <1>5, <2>1, <3>1, <3>2, <3>3, ReadKeeps
  <2>3. SubmitInv(e) /\ ReadInv(e)
    BY <1>1, <1>2, <1>7, <2>1 DEF SubmitInv, ReadInv, SyncInv, Blocking
  <2> QED
    BY <1>7, <2>2, <2>3 DEF AfterOne, Inv, e
<1>8. CASE ~(e.rq # <<>> /\ e.resp # <<>>)
  <2> DEFINE f == [e EXCEPT !.loop = back]
             g == Submit(f)
             o == ReadStop(g)
  <2>1. /\ f \in State /\ f.write = c.write /\ f.wq = c.wq /\ f.rq = Q /\ f.st = X /\ f.callback = c.callback /\ f.scene = c.scene
        /\ f.reading = c.reading /\ f.loop = back /\ f.wire = c.wire /\ f.resp = P /\ f.got = G
    <3> HIDE DEF X, G, Q, P, s, h
    <3>1. f = [c EXCEPT !.rq = Q, !.resp = P, !.got = G, !.st = X, !.loop = back]
      BY <1>1, <1>6 DEF State
    <3> HIDE DEF f
    <3> QED
      BY <1>1, <1>3, <1>5, <3>1 DEF State, Blocking
  <2> HIDE DEF f
  <2>2. (back = "write" => Q = <<>>) /\ (back = "drain" => Q # <<>>)
    <3> HIDE DEF Q, P, h
    <3>0. (back = "write" => ~(Len(c.rq) > 1)) /\ (back = "drain" => Len(c.rq) > 1)
      OBVIOUS
    <3>1. (back = "write" => Len(c.rq) = 1) /\ (back = "drain" => Len(c.rq) > 1)
      <4> DEFINE n == Len(c.rq)
      <4>1. n \in Nat /\ 1 <= n
        BY <1>3
      <4>2. (back = "write" => ~(n > 1)) /\ (back = "drain" => n > 1)
        BY <3>0
      <4> HIDE DEF n
      <4>3. (back = "write" => n = 1) /\ (back = "drain" => n > 1)
        BY <4>1, <4>2
      <4> QED
        BY <4>3 DEF n
    <3>2. (back = "write" => Len(Q) = 0) /\ (back = "drain" => Len(Q) > 0)
      BY <1>3, <3>1
    <3>3. Q \in Seq(Txs)
      BY <1>3
    <3> QED
      BY <3>2, <3>3
  <2>3. f.loop \in Blocking <=> c.loop \in Blocking
    BY <2>1 DEF Blocking
  <2>4. MidInv(f) /\ CallbackInv(f)
    <3>1. f.rq = Tail(c.rq) /\ f.resp = Tail(c.resp) /\ f.got = [c.got EXCEPT ![Head(c.rq)] = Head(c.resp)]
          /\ f.st = [c.st EXCEPT ![Head(c.rq)] = s]
      BY <2>1
    <3>2. f.loop # "take" /\ (f.loop = "write" => f.rq = <<>>) /\ (f.loop \in {"read", "drain"} => f.rq # <<>>)
      BY <2>1, <2>2
    <3> HIDE DEF s, X, G, Q, P, h
    <3> QED
      BY <1>5, <2>1, <2>3, <3>1, <3>2, ReadKeeps
  <2>5. /\ MidInv(g) /\ SubmitInv(g) /\ g.wq = f.wq /\ g.rq = f.rq /\ g.st = f.st /\ g.callback = f.callback
        /\ g.scene = f.scene /\ g.reading = f.reading /\ g.loop = f.loop
    BY <2>4, SubmitKeeps
  <2> HIDE DEF g
  <2>6. CallbackInv(g)
    BY <2>4, <2>5 DEF CallbackInv, Kind
  <2>7. ASSUME g.rq = <<>> PROVE Inv(o)
    <3>1. o = [g EXCEPT !.reading = FALSE]
      BY <2>7 DEF ReadStop
    <3>2. g \in State /\ QueueInv(g) /\ SyncInv(g) /\ WriteInv(g) /\ OrderInv(g) /\ AnswerInv(g)
      BY <2>5 DEF MidInv
    <3>3. /\ o \in State /\ o.write = g.write /\ o.wq = g.wq /\ o.rq = g.rq /\ o.st = g.st /\ o.callback = g.callback /\ o.scene = g.scene
          /\ o.reading = FALSE /\ o.loop = g.loop /\ o.wire = g.wire /\ o.resp = g.resp /\ o.got = g.got
      BY <3>1, <3>2 DEF State
    <3> HIDE DEF o
    <3>4. QueueInv(o) /\ SyncInv(o) /\ WriteInv(o) /\ AnswerInv(o) /\ CallbackInv(o) /\ SubmitInv(o)
      BY <2>5, <2>6, <3>2, <3>3 DEF QueueInv, SyncInv, WriteInv, AnswerInv, CallbackInv, SubmitInv, IsSync, Kind
    <3>5. \A t \in Txs : IsSync(g, t) => IsSync(o, t)
      BY <3>3 DEF IsSync, Kind
    <3>6. Awaited(o) = Awaited(g)
      BY <2>5, <3>3, <3>4, <3>5, AwaitedSame
    <3>7. OrderInv(o) /\ ReadInv(o)
      BY <2>7, <3>2, <3>3, <3>6 DEF OrderInv, ReadInv
    <3> QED
      BY <3>3, <3>4, <3>7 DEF Inv, MidInv
  <2>8. ASSUME g.rq # <<>> PROVE Inv(o)
    <3>1. o = g
      BY <2>8 DEF ReadStop
    <3>2. ReadInv(g)
      BY <2>1, <2>5, <2>8, <1>2 DEF ReadInv
    <3> QED
      BY <2>5, <2>6, <3>1, <3>2 DEF Inv
  <2>9. AfterOne(e, back) = o
    BY <1>8 DEF AfterOne, LeaveRead, f, g
  <2> HIDE DEF o
  <2> QED
    BY <2>7, <2>8, <2>9 DEF e
<1> QED
  BY <1>7, <1>8 DEF e

-----------------------------------------------------------------------------
(* The actions.                                                            *)

\* A transaction that does not block is queued and, when the socket is free, written.
LEMMA QueueStep ==
    ASSUME ConstantsOK, NEW c, Inv(c), NEW t \in Txs, New(c, t), Kind(c, t) # "sync", c.loop \in {"idle", "read"}
    PROVE  LET d == Submit(PushWrite(c, t))
           IN  /\ MidInv(d) /\ SubmitInv(d) /\ ReadInv(d) /\ d.st = [c.st EXCEPT ![t] = "queued"] /\ d.callback = c.callback
               /\ d.scene = c.scene
<1> DEFINE b == PushWrite(c, t)
           d == Submit(b)
<1>1. /\ MidInv(b) /\ b.rq = c.rq /\ b.st = [c.st EXCEPT ![t] = "queued"] /\ b.callback = c.callback
      /\ b.scene = c.scene /\ b.reading = c.reading /\ b.loop = c.loop
  BY PushKeeps DEF Inv, New
<1> HIDE DEF b
<1>2. /\ MidInv(d) /\ SubmitInv(d) /\ d.wq = b.wq /\ d.rq = b.rq /\ d.st = b.st /\ d.callback = b.callback
      /\ d.scene = b.scene /\ d.reading = b.reading /\ d.loop = b.loop
  BY <1>1, SubmitKeeps
<1> HIDE DEF d
<1>3. ReadInv(d)
  BY <1>1, <1>2 DEF ReadInv, Inv
<1> QED
  BY <1>1, <1>2, <1>3 DEF d, b

LEMMA SignStep ==
    ASSUME ConstantsOK, Inv(nb), Sign
    PROVE  Inv(nb')
<1>1. PICK t \in Txs : /\ New(nb, t) /\ Kind(nb, t) = "job" /\ nb.loop \in {"idle", "read"}
                       /\ nb' = [Submit(PushWrite(nb, t)) EXCEPT !.callback[t] = TRUE]
  BY DEF Sign
<1> DEFINE x == Submit(PushWrite(nb, t))
           B == [nb.callback EXCEPT ![t] = TRUE]
<1>2. /\ MidInv(x) /\ SubmitInv(x) /\ ReadInv(x) /\ x.st = [nb.st EXCEPT ![t] = "queued"] /\ x.callback = nb.callback /\ x.scene = nb.scene
  BY <1>1, QueueStep
<1> HIDE DEF x
<1>3. nb' = [x EXCEPT !.callback[t] = TRUE]
  BY <1>1 DEF x
<1>4. x \in State /\ QueueInv(x) /\ SyncInv(x) /\ WriteInv(x) /\ OrderInv(x) /\ AnswerInv(x)
  BY <1>2 DEF MidInv
<1>5. nb.st \in [Txs -> Statuses] /\ nb.callback \in [Txs -> BOOLEAN] /\ CallbackInv(nb)
  BY Fields DEF Inv, MidInv
<1>6. B \in [Txs -> BOOLEAN] /\ B[t] = TRUE /\ \A u \in Txs : u # t => B[u] = nb.callback[u]
  BY <1>5
<1>7. /\ nb' \in State /\ nb'.write = x.write /\ nb'.wq = x.wq /\ nb'.rq = x.rq /\ nb'.st = x.st /\ nb'.callback = B /\ nb'.scene = x.scene
      /\ nb'.reading = x.reading /\ nb'.loop = x.loop /\ nb'.wire = x.wire /\ nb'.resp = x.resp /\ nb'.got = x.got
  <2>1. nb' = [x EXCEPT !.callback = B]
    BY <1>2, <1>3, <1>4 DEF State
  <2> HIDE DEF B
  <2> QED
    BY <1>4, <1>6, <2>1 DEF State
<1> DEFINE y == nb'
<1>8. /\ y \in State /\ y.write = x.write /\ y.wq = x.wq /\ y.rq = x.rq /\ y.st = x.st /\ y.callback = B /\ y.scene = x.scene
      /\ y.reading = x.reading /\ y.loop = x.loop /\ y.wire = x.wire /\ y.resp = x.resp /\ y.got = x.got
  BY <1>7
<1> HIDE DEF y, B
<1>9. QueueInv(y) /\ SyncInv(y) /\ WriteInv(y) /\ AnswerInv(y) /\ SubmitInv(y) /\ ReadInv(y)
  BY <1>2, <1>4, <1>8 DEF QueueInv, SyncInv, WriteInv, AnswerInv, SubmitInv, ReadInv, IsSync, Kind
<1>10. \A u \in Txs : IsSync(x, u) => IsSync(y, u)
  BY <1>8 DEF IsSync, Kind
<1>11. OrderInv(y)
  <2>1. Awaited(y) = Awaited(x)
    BY <1>2, <1>8, <1>9, <1>10, AwaitedSame
  <2> QED
    BY <2>1, <1>4, <1>8 DEF OrderInv
<1>12. CallbackInv(y)
  <2> SUFFICES ASSUME NEW u \in Txs, Kind(y, u) = "job", y.st[u] \in {"queued", "awaiting"} PROVE y.callback[u]
    BY DEF CallbackInv
  <2>1. CASE u = t
    BY <2>1, <1>6, <1>8
  <2>2. CASE u # t
    <3>1. y.st[u] = nb.st[u] /\ Kind(nb, u) = "job"
      BY <2>2, <1>2, <1>5, <1>8 DEF Kind
    <3> QED
      BY <2>2, <3>1, <1>5, <1>6, <1>8 DEF CallbackInv
  <2> QED
    BY <2>1, <2>2
<1> QED
  BY <1>8, <1>9, <1>11, <1>12 DEF Inv, MidInv, y

\* One without a callback: a fiber that is paused, or a request without a response.
LEMMA SilentStep ==
    ASSUME ConstantsOK, NEW c, Inv(c), NEW t \in Txs, New(c, t), Kind(c, t) \in {"fiber", "mute"}, c.loop = "idle"
    PROVE  Inv(Submit(PushWrite(c, t)))
<1> DEFINE x == Submit(PushWrite(c, t))
<1>1. /\ MidInv(x) /\ SubmitInv(x) /\ ReadInv(x) /\ x.st = [c.st EXCEPT ![t] = "queued"] /\ x.callback = c.callback /\ x.scene = c.scene
  BY QueueStep
<1> HIDE DEF x
<1>2. c.st \in [Txs -> Statuses] /\ CallbackInv(c)
  BY Fields DEF Inv, MidInv
<1>3. CallbackInv(x)
  <2> SUFFICES ASSUME NEW u \in Txs, Kind(x, u) = "job", x.st[u] \in {"queued", "awaiting"} PROVE x.callback[u]
    BY DEF CallbackInv
  <2>1. u # t
    BY <1>1 DEF Kind
  <2>2. x.st[u] = c.st[u] /\ Kind(c, u) = "job"
    BY <2>1, <1>1, <1>2 DEF Kind
  <2> QED
    BY <2>2, <1>1, <1>2 DEF CallbackInv
<1> QED
  BY <1>1, <1>3 DEF Inv, x

LEMMA PauseStep ==
    ASSUME ConstantsOK, Inv(nb), Pause \/ Mute
    PROVE  Inv(nb')
<1>1. PICK t \in Txs : New(nb, t) /\ Kind(nb, t) \in {"fiber", "mute"} /\ nb.loop = "idle" /\ nb' = Submit(PushWrite(nb, t))
  BY DEF Pause, Mute
<1>2. Inv(Submit(PushWrite(nb, t)))
  BY <1>1, SilentStep
<1> QED
  BY <1>1, <1>2

LEMMA ResumeStep ==
    ASSUME ConstantsOK, Inv(nb), Resume
    PROVE  Inv(nb')
<1> DEFINE c == nb
           d == nb'
<1>1. PICK t \in Txs : nb.st[t] = "notified" /\ nb.loop = "idle" /\ nb' = [Asserted(nb, ~Linked(nb, t), "fiber: linked") EXCEPT !.st[t] = "done"]
  BY DEF Resume
<1>2. /\ MidInv(c) /\ c \in State /\ QueueInv(c) /\ SyncInv(c) /\ WriteInv(c) /\ OrderInv(c) /\ AnswerInv(c) /\ SubmitInv(c) /\ ReadInv(c)
      /\ CallbackInv(c)
  BY DEF Inv, MidInv
<1>3. c.wq \in Seq(Txs) /\ c.rq \in Seq(Txs) /\ DOMAIN c.wq = 1 .. Len(c.wq) /\ DOMAIN c.rq = 1 .. Len(c.rq) /\ c.st \in [Txs -> Statuses]
  BY <1>2, Fields
<1>4. (\A i \in 1 .. Len(c.wq) : c.wq[i] # t) /\ (\A i \in 1 .. Len(c.rq) : c.rq[i] # t)
  BY <1>1, <1>2 DEF QueueInv
<1>5. ~Linked(c, t)
  BY <1>3, <1>4 DEF Linked, ToSet
<1> DEFINE X == [c.st EXCEPT ![t] = "done"]
<1>6. X \in [Txs -> Statuses] /\ X[t] = "done" /\ \A u \in Txs : u # t => X[u] = c.st[u]
  BY <1>3 DEF Statuses
<1>7. d = [c EXCEPT !.st = X]
  BY <1>1, <1>2, <1>5 DEF Asserted, State
<1> HIDE DEF c, d, X
<1>8. /\ d \in State /\ d.write = c.write /\ d.wq = c.wq /\ d.rq = c.rq /\ d.st = X /\ d.callback = c.callback /\ d.scene = c.scene
      /\ d.reading = c.reading /\ d.loop = c.loop /\ d.wire = c.wire /\ d.resp = c.resp /\ d.got = c.got
  BY <1>2, <1>6, <1>7 DEF State
<1>9. \A u \in Txs : IsSync(d, u) <=> IsSync(c, u)
  BY <1>1, <1>6, <1>8 DEF IsSync, Kind, c
<1>10. SyncInv(d) /\ WriteInv(d) /\ AnswerInv(d) /\ SubmitInv(d) /\ ReadInv(d)
  BY <1>2, <1>8, <1>9 DEF SyncInv, WriteInv, AnswerInv, SubmitInv, ReadInv
<1>11. QueueInv(d)
  <2>1. \A i \in 1 .. Len(c.wq) : X[c.wq[i]] = c.st[c.wq[i]]
    BY <1>3, <1>4, <1>6
  <2>2. \A i \in 1 .. Len(c.rq) : X[c.rq[i]] = c.st[c.rq[i]]
    BY <1>3, <1>4, <1>6
  <2> QED
    BY <2>1, <2>2, <1>2, <1>8 DEF QueueInv, Kind
<1>12. OrderInv(d)
  <2>1. Awaited(d) = Awaited(c)
    BY <1>2, <1>8, <1>9, <1>10, AwaitedSame
  <2> QED
    BY <2>1, <1>2, <1>8 DEF OrderInv
<1>13. CallbackInv(d)
  <2> SUFFICES ASSUME NEW u \in Txs, Kind(d, u) = "job", d.st[u] \in {"queued", "awaiting"} PROVE d.callback[u]
    BY DEF CallbackInv
  <2>1. u # t
    BY <1>6, <1>8
  <2> QED
    BY <2>1, <1>2, <1>6, <1>8 DEF CallbackInv, Kind
<1> QED
  BY <1>8, <1>10, <1>11, <1>12, <1>13 DEF Inv, MidInv, d

\* A synchronous transaction begins, when nothing is being written.
LEMMA SyncStep ==
    ASSUME ConstantsOK, Inv(nb), Sync
    PROVE  Inv(nb')
<1> DEFINE c == nb
           d == nb'
           l == IF c.rq # <<>> THEN "drain" ELSE "write"
<1>1. PICK t \in Txs : /\ New(nb, t) /\ Kind(nb, t) = "sync" /\ nb.loop = "idle" /\ (nb.scene.overlap \/ nb.wq = <<>>)
                       /\ nb' = [nb EXCEPT !.st[t] = "queued", !.loop = IF nb.rq # <<>> THEN "drain" ELSE "write"]
  BY DEF Sync
<1>2. /\ MidInv(c) /\ c \in State /\ QueueInv(c) /\ SyncInv(c) /\ WriteInv(c) /\ OrderInv(c) /\ AnswerInv(c) /\ SubmitInv(c) /\ ReadInv(c)
      /\ CallbackInv(c)
  BY DEF Inv, MidInv
<1>3. c.wq \in Seq(Txs) /\ c.rq \in Seq(Txs) /\ DOMAIN c.rq = 1 .. Len(c.rq) /\ c.st \in [Txs -> Statuses] /\ c.scene \in Scenes
  BY <1>2, Fields
<1>4. c.wq = <<>> /\ c.st[t] = "new"
  BY <1>1, <1>3 DEF ConstantsOK, New
<1>5. c.write = "no"
  BY <1>2, <1>4 DEF WriteInv
<1> DEFINE X == [c.st EXCEPT ![t] = "queued"]
<1>6. X \in [Txs -> Statuses] /\ X[t] = "queued" /\ \A u \in Txs : u # t => X[u] = c.st[u]
  BY <1>3 DEF Statuses
<1>7. d = [c EXCEPT !.st = X, !.loop = l]
  BY <1>1, <1>2 DEF State
<1>8. l \in {"drain", "write"} /\ (l = "drain" <=> c.rq # <<>>)
  OBVIOUS
<1> HIDE DEF c, d, X, l
<1>9. /\ d \in State /\ d.write = c.write /\ d.wq = c.wq /\ d.rq = c.rq /\ d.st = X /\ d.callback = c.callback /\ d.scene = c.scene
      /\ d.reading = c.reading /\ d.loop = l /\ d.wire = c.wire /\ d.resp = c.resp /\ d.got = c.got
  BY <1>2, <1>6, <1>7, <1>8 DEF State, Blocking
<1>10. c.loop = "idle" /\ Kind(c, t) = "sync"
  BY <1>1 DEF c
<1>11. \A u \in Txs : ~IsSync(c, u)
  BY <1>2, <1>10 DEF SyncInv, Blocking
<1>12. IsSync(d, t) /\ \A u \in Txs : IsSync(d, u) => u = t
  BY <1>6, <1>9, <1>10, <1>11 DEF IsSync, Kind
<1>13. SyncInv(d)
  BY <1>4, <1>8, <1>9, <1>12 DEF SyncInv, Blocking
<1>14. WriteInv(d) /\ AnswerInv(d) /\ SubmitInv(d) /\ ReadInv(d)
  BY <1>2, <1>4, <1>9 DEF WriteInv, AnswerInv, SubmitInv, ReadInv
<1>15. QueueInv(d)
  <2>1. \A i \in 1 .. Len(c.rq) : c.rq[i] \in Txs /\ c.rq[i] # t
    BY <1>2, <1>3, <1>4 DEF QueueInv
  <2>2. Len(c.wq) = 0
    BY <1>4
  <2> QED
    BY <2>1, <2>2, <1>2, <1>6, <1>9 DEF QueueInv, Kind
<1>16. OrderInv(d)
  <2>1. Awaited(d) = c.rq /\ Awaited(c) = c.rq
    BY <1>5, <1>8, <1>9, <1>10 DEF Awaited
  <2> QED
    BY <2>1, <1>2, <1>9 DEF OrderInv
<1>17. CallbackInv(d)
  <2> SUFFICES ASSUME NEW u \in Txs, Kind(d, u) = "job", d.st[u] \in {"queued", "awaiting"} PROVE d.callback[u]
    BY DEF CallbackInv
  <2>1. u # t
    BY <1>9, <1>10 DEF Kind
  <2> QED
    BY <2>1, <1>2, <1>6, <1>9 DEF CallbackInv, Kind
<1> QED
  BY <1>9, <1>13, <1>14, <1>15, <1>16, <1>17 DEF Inv, MidInv, d

LEMMA SyncWriteStep ==
    ASSUME ConstantsOK, Inv(nb), SyncWrite
    PROVE  Inv(nb')
<1> DEFINE c == nb
           d == nb'
           t == SyncOf(c)
           W == Append(c.wire, t)
<1>1. nb.loop = "write" /\ nb' = [Asserted(nb, nb.write # "half", "request inside another one") EXCEPT !.wire = Append(@, SyncTx), !.loop = "take"]
  BY DEF SyncWrite
<1>2. /\ MidInv(c) /\ c \in State /\ QueueInv(c) /\ SyncInv(c) /\ WriteInv(c) /\ OrderInv(c) /\ AnswerInv(c) /\ SubmitInv(c) /\ ReadInv(c)
      /\ CallbackInv(c)
  BY DEF Inv, MidInv
<1>3. c.wire \in Seq(Txs) /\ c.rq \in Seq(Txs) /\ c.resp \in Seq(Txs)
  BY <1>2, Fields
<1>4. c.wq = <<>> /\ c.rq = <<>> /\ c.write = "no"
  BY <1>1, <1>2 DEF SyncInv, WriteInv, Blocking
<1>5. SyncTx = t
  BY DEF SyncTx, SyncOf, IsSync
<1>6. t \in Txs /\ IsSync(c, t)
  BY <1>1, <1>2, SyncFound DEF Blocking
<1>7. W \in Seq(Txs)
  BY <1>3, <1>6
<1>8. d = [c EXCEPT !.wire = W, !.loop = "take"]
  BY <1>1, <1>2, <1>4, <1>5 DEF Asserted, State
<1>9. c.loop = "write"
  BY <1>1
<1> HIDE DEF c, d, t, W
<1>10. /\ d \in State /\ d.write = c.write /\ d.wq = c.wq /\ d.rq = c.rq /\ d.st = c.st /\ d.callback = c.callback /\ d.scene = c.scene
       /\ d.reading = c.reading /\ d.loop = "take" /\ d.wire = W /\ d.resp = c.resp /\ d.got = c.got
  BY <1>2, <1>7, <1>8 DEF State, Blocking
<1>11. \A u \in Txs : IsSync(d, u) <=> IsSync(c, u)
  BY <1>10 DEF IsSync, Kind
<1>12. SyncInv(d)
  BY <1>2, <1>4, <1>9, <1>10, <1>11 DEF SyncInv, Blocking
<1>13. QueueInv(d) /\ WriteInv(d) /\ AnswerInv(d) /\ SubmitInv(d) /\ ReadInv(d) /\ CallbackInv(d)
  BY <1>2, <1>4, <1>10 DEF QueueInv, WriteInv, AnswerInv, SubmitInv, ReadInv, CallbackInv, Kind
<1>14. OrderInv(d)
  <2>1. SyncOf(d) = t
    BY <1>2, <1>9, <1>10, <1>11, <1>12, SyncSame DEF Blocking, t
  <2>2. Awaited(d) = Append(c.rq, t) /\ Awaited(c) = c.rq
    BY <2>1, <1>4, <1>9, <1>10 DEF Awaited
  <2>3. c.scene.kinds[t] # "mute" /\ \A i \in 1 .. Len(c.rq) : c.rq[i] # t
    <3>1. Len(c.rq) = 0
      BY <1>4
    <3> QED
      BY <3>1, <1>6 DEF IsSync, Kind
  <2>4. InOrder(c.rq, c.resp, c.wire, c.scene.kinds)
    BY <2>2, <1>2 DEF OrderInv
  <2>5. InOrder(Append(c.rq, t), c.resp, Append(c.wire, t), c.scene.kinds)
    BY <2>3, <2>4, <1>3, <1>6, OrderPush
  <2> QED
    BY <2>2, <2>5, <1>10 DEF OrderInv, W
<1> QED
  BY <1>10, <1>12, <1>13, <1>14 DEF Inv, MidInv, d

\* It reads the next response, which is its own.
LEMMA SyncReadStep ==
    ASSUME ConstantsOK, Inv(nb), SyncRead
    PROVE  Inv(nb')
<1> DEFINE c == nb
           d == nb'
           t == SyncOf(c)
           X == [c.st EXCEPT ![t] = "done"]
           G == [c.got EXCEPT ![t] = Head(c.resp)]
           P == Tail(c.resp)
<1>1. nb.loop = "take" /\ nb.resp # <<>> /\ nb' = [Take(nb, SyncTx) EXCEPT !.st[SyncTx] = "done", !.loop = "idle"]
  BY DEF SyncRead
<1>2. /\ MidInv(c) /\ c \in State /\ QueueInv(c) /\ SyncInv(c) /\ WriteInv(c) /\ OrderInv(c) /\ AnswerInv(c) /\ SubmitInv(c) /\ ReadInv(c)
      /\ CallbackInv(c)
  BY DEF Inv, MidInv
<1>3. c.wire \in Seq(Txs) /\ c.rq \in Seq(Txs) /\ c.resp \in Seq(Txs) /\ c.st \in [Txs -> Statuses] /\ c.got \in [Txs -> Txs \cup {0}]
  BY <1>2, Fields
<1>4. c.wq = <<>> /\ c.rq = <<>> /\ c.write = "no"
  BY <1>1, <1>2 DEF SyncInv, WriteInv, Blocking
<1>5. SyncTx = t
  BY DEF SyncTx, SyncOf, IsSync
<1>6. t \in Txs /\ IsSync(c, t) /\ \A u \in Txs : IsSync(c, u) => u = t
  BY <1>1, <1>2, SyncFound DEF Blocking
<1>7. P \in Seq(Txs) /\ Head(c.resp) \in Txs
  BY <1>1, <1>3, TailOf
<1>8. c.loop = "take" /\ c.resp # <<>>
  BY <1>1
<1>9. d = [c EXCEPT !.resp = P, !.got = G, !.st = X, !.loop = "idle"]
  BY <1>1, <1>2, <1>5 DEF Take, State
<1> HIDE DEF c, d, t
<1>10. X \in [Txs -> Statuses] /\ X[t] = "done" /\ \A u \in Txs : u # t => X[u] = c.st[u]
  BY <1>3, <1>6 DEF Statuses
<1>11. G \in [Txs -> Txs \cup {0}] /\ G[t] = Head(c.resp) /\ \A u \in Txs : u # t => G[u] = c.got[u]
  BY <1>3, <1>6, <1>7
<1> HIDE DEF X, G, P
<1>12. /\ d \in State /\ d.write = c.write /\ d.wq = c.wq /\ d.rq = c.rq /\ d.st = X /\ d.callback = c.callback /\ d.scene = c.scene
       /\ d.reading = c.reading /\ d.loop = "idle" /\ d.wire = c.wire /\ d.resp = P /\ d.got = G
  BY <1>2, <1>7, <1>9, <1>10, <1>11 DEF State
<1>13. \A u \in Txs : ~IsSync(d, u)
  BY <1>6, <1>10, <1>12 DEF IsSync, Kind
<1>14. SyncInv(d)
  BY <1>12, <1>13 DEF SyncInv, Blocking
<1>15. QueueInv(d)
  <2>1. Len(c.wq) = 0 /\ Len(c.rq) = 0
    BY <1>4
  <2> QED
    BY <2>1, <1>2, <1>12 DEF QueueInv
<1>16. WriteInv(d) /\ SubmitInv(d) /\ ReadInv(d)
  BY <1>2, <1>4, <1>12 DEF WriteInv, SubmitInv, ReadInv
<1>17. Head(c.resp) = t /\ InOrder(c.rq, P, c.wire, c.scene.kinds)
  <2>1. Awaited(c) = Append(c.rq, t)
    BY <1>4, <1>8 DEF Awaited, t
  <2>2. Awaited(c) = <<t>>
    BY <2>1, <1>4
  <2>3. Head(Awaited(c)) = Head(c.resp) /\ InOrder(Tail(Awaited(c)), Tail(c.resp), c.wire, c.scene.kinds)
    BY <1>2, <1>3, <1>8, AwaitedForms, OrderTake DEF OrderInv
  <2>4. Head(<<t>>) = t /\ Tail(<<t>>) = <<>>
    OBVIOUS
  <2> QED
    BY <2>2, <2>3, <2>4, <1>4 DEF P
<1>18. OrderInv(d)
  <2>1. Awaited(d) = c.rq
    BY <1>4, <1>12 DEF Awaited
  <2> QED
    BY <2>1, <1>12, <1>17 DEF OrderInv
<1>19. AnswerInv(d)
  BY <1>2, <1>11, <1>12, <1>17 DEF AnswerInv
<1>20. CallbackInv(d)
  <2> SUFFICES ASSUME NEW u \in Txs, Kind(d, u) = "job", d.st[u] \in {"queued", "awaiting"} PROVE d.callback[u]
    BY DEF CallbackInv
  <2>1. u # t
    BY <1>10, <1>12
  <2> QED
    BY <2>1, <1>2, <1>10, <1>12 DEF CallbackInv, Kind
<1> QED
  BY <1>12, <1>14, <1>15, <1>16, <1>18, <1>19, <1>20 DEF Inv, MidInv, d

LEMMA WrittenStep ==
    ASSUME ConstantsOK, Inv(nb), Written
    PROVE  Inv(nb')
<1> DEFINE b == WriteDone([nb EXCEPT !.wq = Tail(@), !.write = "no"], Head(nb.wq))
           d == Submit(b)
<1>1. nb.loop = "idle" /\ nb.write = "whole" /\ nb' = d
  BY DEF Written, OnWriteComplete
<1>2. MidInv(b) /\ ReadInv(b) /\ CallbackInv(b)
  BY <1>1, DoneKeeps
<1> HIDE DEF b
<1>3. /\ MidInv(d) /\ SubmitInv(d) /\ d.wq = b.wq /\ d.rq = b.rq /\ d.st = b.st /\ d.callback = b.callback
      /\ d.scene = b.scene /\ d.reading = b.reading /\ d.loop = b.loop
  BY <1>2, SubmitKeeps
<1> HIDE DEF d
<1>4. ReadInv(d) /\ CallbackInv(d)
  BY <1>2, <1>3 DEF ReadInv, CallbackInv, Kind
<1>5. Inv(d)
  BY <1>3, <1>4 DEF Inv
<1> QED
  BY <1>1, <1>5

LEMMA ReadReadyStep ==
    ASSUME ConstantsOK, Inv(nb), ReadReady
    PROVE  Inv(nb')
<1> DEFINE c == nb
           d == nb'
<1>1. c.loop = "idle" /\ c.reading /\ d = [c EXCEPT !.loop = "read"]
  BY DEF ReadReady
<1>2. /\ MidInv(c) /\ c \in State /\ QueueInv(c) /\ SyncInv(c) /\ WriteInv(c) /\ OrderInv(c) /\ AnswerInv(c) /\ SubmitInv(c) /\ ReadInv(c)
      /\ CallbackInv(c)
  BY DEF Inv, MidInv
<1> HIDE DEF c, d
<1>3. /\ d \in State /\ d.write = c.write /\ d.wq = c.wq /\ d.rq = c.rq /\ d.st = c.st /\ d.callback = c.callback /\ d.scene = c.scene
      /\ d.reading = c.reading /\ d.loop = "read" /\ d.wire = c.wire /\ d.resp = c.resp /\ d.got = c.got
  BY <1>1, <1>2 DEF State
<1>4. c.rq # <<>>
  BY <1>1, <1>2 DEF ReadInv
<1>5. \A u \in Txs : IsSync(d, u) <=> IsSync(c, u)
  BY <1>3 DEF IsSync, Kind
<1>6. SyncInv(d)
  BY <1>1, <1>2, <1>3, <1>4, <1>5 DEF SyncInv, Blocking
<1>7. QueueInv(d) /\ WriteInv(d) /\ AnswerInv(d) /\ SubmitInv(d) /\ ReadInv(d) /\ CallbackInv(d)
  BY <1>2, <1>3 DEF QueueInv, WriteInv, AnswerInv, SubmitInv, ReadInv, CallbackInv, Kind
<1>8. OrderInv(d)
  <2>1. Awaited(d) = Awaited(c)
    BY <1>1, <1>3 DEF Awaited, Kind
  <2> QED
    BY <2>1, <1>2, <1>3 DEF OrderInv
<1> QED
  BY <1>3, <1>6, <1>7, <1>8 DEF Inv, MidInv, d

LEMMA ServeStep ==
    ASSUME ConstantsOK, Inv(nb), Serve
    PROVE  Inv(nb')
<1> DEFINE c == nb
           d == nb'
           h == Head(c.wire)
           W == Tail(c.wire)
           mute == Kind(c, h) = "mute"
           P == IF mute THEN c.resp ELSE Append(c.resp, h)
<1>1. c.wire # <<>> /\ d = Answer([c EXCEPT !.wire = W], h)
  BY DEF Serve
<1>2. /\ MidInv(c) /\ c \in State /\ QueueInv(c) /\ SyncInv(c) /\ WriteInv(c) /\ OrderInv(c) /\ AnswerInv(c) /\ SubmitInv(c) /\ ReadInv(c)
      /\ CallbackInv(c)
  BY DEF Inv, MidInv
<1>3. c.wire \in Seq(Txs) /\ c.resp \in Seq(Txs)
  BY <1>2, Fields
<1>4. W \in Seq(Txs) /\ h \in Txs
  BY <1>1, <1>3, TailOf
<1>5. P \in Seq(Txs)
  <2>1. Append(c.resp, h) \in Seq(Txs)
    BY <1>3, <1>4
  <2> QED
    BY <2>1, <1>3
<1>6. d = [c EXCEPT !.wire = W, !.resp = P]
  <2>1. Kind([c EXCEPT !.wire = W], h) = Kind(c, h)
    BY <1>2 DEF Kind, State
  <2>2. CASE mute
    <3>1. d = [c EXCEPT !.wire = W] /\ P = c.resp
      BY <1>1, <2>1, <2>2 DEF Answer
    <3> QED
      BY <3>1, <1>2 DEF State
  <2>3. CASE ~mute
    <3>1. d = [[c EXCEPT !.wire = W] EXCEPT !.resp = Append(@, h)] /\ P = Append(c.resp, h)
      BY <1>1, <2>1, <2>3 DEF Answer
    <3> QED
      BY <3>1, <1>2 DEF State
  <2> QED
    BY <2>2, <2>3
<1> HIDE DEF c, d, W, P
<1>7. /\ d \in State /\ d.write = c.write /\ d.wq = c.wq /\ d.rq = c.rq /\ d.st = c.st /\ d.callback = c.callback /\ d.scene = c.scene
      /\ d.reading = c.reading /\ d.loop = c.loop /\ d.wire = W /\ d.resp = P /\ d.got = c.got
  BY <1>2, <1>4, <1>5, <1>6 DEF State
<1>8. QueueInv(d) /\ SyncInv(d) /\ WriteInv(d) /\ AnswerInv(d) /\ SubmitInv(d) /\ ReadInv(d) /\ CallbackInv(d)
  BY <1>2, <1>7 DEF QueueInv, SyncInv, WriteInv, AnswerInv, SubmitInv, ReadInv, CallbackInv, IsSync, Kind
<1>9. OrderInv(d)
  <2>0. \A u \in Txs : IsSync(c, u) => IsSync(d, u)
    BY <1>7 DEF IsSync, Kind
  <2>1. Awaited(d) = Awaited(c) /\ Awaited(c) \in Seq(Txs)
    BY <2>0, <1>2, <1>7, <1>8, AwaitedSame, AwaitedForms
  <2>2. InOrder(Awaited(c), c.resp, c.wire, c.scene.kinds)
    BY <1>2 DEF OrderInv
  <2>3. CASE mute
    <3>1. InOrder(Awaited(c), c.resp, W, c.scene.kinds)
      BY <2>1, <2>2, <2>3, <1>1, <1>3, OrderServeMute DEF Kind, W
    <3> QED
      BY <2>1, <2>3, <3>1, <1>7 DEF OrderInv, P
  <2>4. CASE ~mute
    <3>1. InOrder(Awaited(c), Append(c.resp, h), W, c.scene.kinds)
      BY <2>1, <2>2, <2>4, <1>1, <1>3, OrderServe DEF Kind, W
    <3> QED
      BY <2>1, <2>4, <3>1, <1>7 DEF OrderInv, P
  <2> QED
    BY <2>3, <2>4
<1> QED
  BY <1>7, <1>8, <1>9 DEF Inv, MidInv, d

LEMMA WriteStep ==
    ASSUME ConstantsOK, Inv(nb), Write
    PROVE  Inv(nb')
<1>1. CASE nb.write = "new" /\ nb' = Whole(nb)
  BY <1>1, WholeKeeps
<1>2. CASE nb.write = "new" /\ nb' = [nb EXCEPT !.write = "half"]
  BY <1>2, HalfKeeps
<1>3. CASE nb.write = "half" /\ nb' = Whole(nb)
  BY <1>3, WholeKeeps
<1> QED
  BY <1>1, <1>2, <1>3 DEF Write

LEMMA DrainStep ==
    ASSUME ConstantsOK, Inv(nb), Drain
    PROVE  Inv(nb')
<1> DEFINE back == IF Len(nb.rq) > 1 THEN "drain" ELSE "write"
<1>1. nb.loop = "drain" /\ nb.resp # <<>> /\ nb' = AfterOne(ReadOne(nb), back)
  BY DEF Drain
<1>2. back \in {"idle", "drain", "write"} /\ back # "idle" /\ (back = "drain" <=> Len(nb.rq) > 1)
  OBVIOUS
<1> HIDE DEF back
<1> QED
  BY <1>1, <1>2, ReadStep

LEMMA ReadLoopStep ==
    ASSUME ConstantsOK, Inv(nb), ReadLoop
    PROVE  Inv(nb')
<1>1. nb.loop = "read" /\ nb.resp # <<>> /\ nb' = AfterOne(ReadOne(nb), "idle")
  BY DEF ReadLoop
<1> QED
  BY <1>1, ReadStep

\* run_loop starts with nothing queued, nothing on the wire and nobody blocked.
LEMMA Initially ==
    ASSUME ConstantsOK, Init
    PROVE  Inv(nb)
<1>1. PICK s \in Scenes : nb = Start(s)
  BY DEF Init
<1>2. /\ nb \in State /\ nb.wq = <<>> /\ nb.rq = <<>> /\ nb.write = "no" /\ nb.reading = FALSE /\ nb.wire = <<>> /\ nb.resp = <<>>
      /\ nb.loop = "idle" /\ (\A t \in Txs : nb.st[t] = "new" /\ nb.got[t] = 0)
  <2>1. <<>> \in Seq(Txs)
    OBVIOUS
  <2> QED
    BY <1>1, <2>1 DEF Start, State, Statuses, Blocking
<1>3. Len(<<>>) = 0 /\ DOMAIN <<>> = {} /\ 1 .. 0 = {}
  OBVIOUS
<1>4. QueueInv(nb) /\ SyncInv(nb)
  BY <1>2, <1>3 DEF QueueInv, SyncInv, Distinct, IsSync, Blocking
<1>5. WriteInv(nb) /\ AnswerInv(nb) /\ SubmitInv(nb) /\ ReadInv(nb) /\ CallbackInv(nb)
  BY <1>2, <1>3 DEF WriteInv, AnswerInv, SubmitInv, ReadInv, CallbackInv, ConstantsOK
<1>6. OrderInv(nb)
  <2>1. Awaited(nb) = <<>>
    BY <1>2 DEF Awaited
  <2>2. InOrder(<<>>, <<>>, <<>>, nb.scene.kinds)
    BY <1>3 DEF InOrder, Distinct
  <2> QED
    BY <2>1, <2>2, <1>2 DEF OrderInv
<1> QED
  BY <1>2, <1>4, <1>5, <1>6 DEF Inv, MidInv

LEMMA Steps ==
    ASSUME ConstantsOK, Inv(nb), [Next]_nb
    PROVE  Inv(nb')
<1>1. CASE Write
  BY <1>1, WriteStep
<1>2. CASE Sign
  BY <1>2, SignStep
<1>3. CASE Pause \/ Mute
  BY <1>3, PauseStep
<1>4. CASE Resume
  BY <1>4, ResumeStep
<1>5. CASE Sync
  BY <1>5, SyncStep
<1>6. CASE Drain
  BY <1>6, DrainStep
<1>7. CASE SyncWrite
  BY <1>7, SyncWriteStep
<1>8. CASE SyncRead
  BY <1>8, SyncReadStep
<1>9. CASE Written
  BY <1>9, WrittenStep
<1>10. CASE ReadReady
  BY <1>10, ReadReadyStep
<1>11. CASE ReadLoop
  BY <1>11, ReadLoopStep
<1>12. CASE Serve
  BY <1>12, ServeStep
<1>13. CASE UNCHANGED nb
  BY <1>13
<1> QED
  BY <1>1, <1>2, <1>3, <1>4, <1>5, <1>6, <1>7, <1>8, <1>9, <1>10, <1>11, <1>12, <1>13 DEF Next, Step

-----------------------------------------------------------------------------
(* What the order gives.                                                   *)

LEMMA ImageIsSmall ==
    ASSUME NEW S, NEW p \in Seq(S)
    PROVE  LET I == {p[i] : i \in 1 .. Len(p)} IN IsFiniteSet(I) /\ Cardinality(I) <= Len(p)
<1> DEFINE n == Len(p)
           I == {p[i] : i \in 1 .. n}
           f == [i \in 1 .. n |-> p[i]]
<1>1. n \in Nat
  OBVIOUS
<1> HIDE DEF n
<1>2. f \in Surjection(1 .. n, I)
  BY DEF Surjection
<1>3. IsFiniteSet(1 .. n) /\ Cardinality(1 .. n) = n
  <2>1. IsFiniteSet(1 .. n) /\ Cardinality(1 .. n) = IF 1 > n THEN 0 ELSE n - 1 + 1
    BY <1>1, FS_Interval
  <2> QED
    BY <1>1, <2>1
<1>4. IsFiniteSet(I) /\ Cardinality(I) <= Cardinality(1 .. n)
  <2> HIDE DEF f, I
  <2> QED
    BY <1>2, <1>3, FS_Surjection
<1> QED
  BY <1>3, <1>4 DEF n

\* Whatever has a response and is on its way is awaited.
LEMMA OnTheWay ==
    ASSUME ConstantsOK, NEW c, MidInv(c), NEW t \in ToSet(c.wire \o c.resp), Kind(c, t) # "mute"
    PROVE  \E i \in 1 .. Len(Awaited(c)) : Awaited(c)[i] = t
<1> DEFINE q == Awaited(c)
           w == c.wire
           r == c.resp
<1>1. w \in Seq(Txs) /\ r \in Seq(Txs) /\ q \in Seq(Txs)
  BY Fields, AwaitedForms DEF MidInv
<1>2. /\ Len(r) <= Len(q) /\ \A i \in 1 .. Len(r) : r[i] = q[i]
      /\ \A k \in 1 .. Len(w) : c.scene.kinds[w[k]] # "mute" => \E i \in Len(r) + 1 .. Len(q) : q[i] = w[k]
  BY DEF MidInv, OrderInv, InOrder
<1>3. t \in ToSet(w \o r) /\ c.scene.kinds[t] # "mute"
  BY DEF Kind
<1> HIDE DEF q, w, r
<1>4. Len(w) \in Nat /\ Len(r) \in Nat /\ Len(q) \in Nat
  BY <1>1
<1>5. PICK k \in 1 .. Len(w) + Len(r) : t = (w \o r)[k]
  <2>1. DOMAIN (w \o r) = 1 .. Len(w) + Len(r)
    BY <1>1
  <2> QED
    BY <1>3, <2>1 DEF ToSet
<1>6. CASE k <= Len(w)
  <2>1. k \in 1 .. Len(w) /\ t = w[k]
    BY <1>1, <1>4, <1>5, <1>6
  <2>2. PICK i \in Len(r) + 1 .. Len(q) : q[i] = w[k]
    BY <1>2, <1>3, <2>1
  <2>3. i \in 1 .. Len(q)
    BY <1>4
  <2> QED
    BY <2>1, <2>2, <2>3 DEF q
<1>7. CASE k > Len(w)
  <2>1. k - Len(w) \in 1 .. Len(r) /\ t = r[k - Len(w)]
    BY <1>1, <1>4, <1>5, <1>7
  <2>2. k - Len(w) \in 1 .. Len(q)
    BY <1>2, <1>4, <2>1
  <2> QED
    BY <1>2, <2>1, <2>2 DEF q
<1> QED
  BY <1>4, <1>5, <1>6, <1>7

LEMMA BoundedInFlight ==
    ASSUME ConstantsOK, Inv(nb)
    PROVE  InFlightIsBounded
<1> DEFINE p == IF nb.loop = "take" THEN nb.rq ELSE Awaited(nb)
           I == {p[i] : i \in 1 .. Len(p)}
<1>1. MidInv(nb) /\ nb \in State /\ SyncInv(nb) /\ WriteInv(nb)
  BY DEF Inv, MidInv
<1>2. nb.rq \in Seq(Txs) /\ nb.wq \in Seq(Txs) /\ Len(nb.rq) \in Nat /\ Awaited(nb) \in Seq(Txs)
  BY <1>1, Fields, AwaitedForms
<1>3. p \in Seq(Txs) /\ Len(p) <= MaxInFlight
  <2>1. CASE nb.write = "whole" /\ Kind(nb, Head(nb.wq)) # "mute" /\ nb.loop # "take"
    <3>1. Awaited(nb) = Append(nb.rq, Head(nb.wq)) /\ Head(nb.wq) \in Txs
      BY <2>1, <1>1, AwaitedForms
    <3>2. Len(Awaited(nb)) = Len(nb.rq) + 1
      BY <3>1, <1>2
    <3> QED
      BY <2>1, <3>2, <1>1, <1>2 DEF WriteInv, ConstantsOK
  <2>2. CASE ~(nb.write = "whole" /\ Kind(nb, Head(nb.wq)) # "mute") \/ nb.loop = "take"
    <3>1. p = nb.rq
      BY <2>2, <1>1 DEF Awaited
    <3> QED
      BY <3>1, <1>1, <1>2 DEF WriteInv
  <2> QED
    BY <2>1, <2>2
<1>4. Expected \subseteq I
  <2> SUFFICES ASSUME NEW t \in Expected PROVE \E i \in 1 .. Len(p) : p[i] = t
    OBVIOUS
  <2>1. t \in ToSet(nb.wire \o nb.resp) /\ Kind(nb, t) # "mute" /\ Kind(nb, t) # "sync"
    BY DEF Expected
  <2>2. PICK i \in 1 .. Len(Awaited(nb)) : Awaited(nb)[i] = t
    BY <2>1, <1>1, OnTheWay
  <2>3. CASE nb.loop = "take"
    <3>1. nb.rq = <<>> /\ Awaited(nb) = Append(nb.rq, SyncOf(nb)) /\ Kind(nb, SyncOf(nb)) = "sync"
      BY <2>3, <1>1, AwaitedForms, SyncFound DEF SyncInv, Blocking, IsSync
    <3>2. Awaited(nb)[i] = SyncOf(nb)
      <4> DEFINE y == SyncOf(nb)
      <4>1. Awaited(nb) = Append(<<>>, y)
        BY <3>1
      <4> HIDE DEF y
      <4>2. Awaited(nb) = <<y>>
        BY <4>1
      <4>3. Len(Awaited(nb)) = 1 /\ Awaited(nb)[1] = y
        BY <4>2
      <4> QED
        BY <2>2, <4>3 DEF y
    <3> QED
      BY <2>1, <2>2, <3>1, <3>2
  <2>4. CASE nb.loop # "take"
    BY <2>2, <2>4
  <2> QED
    BY <2>3, <2>4
<1>5. IsFiniteSet(I) /\ Cardinality(I) <= Len(p)
  <2> HIDE DEF p
  <2> QED
    BY <1>3, ImageIsSmall
<1> HIDE DEF p, I
<1>6. Cardinality(I) \in Nat /\ IsFiniteSet(Expected) /\ Cardinality(Expected) <= Cardinality(I) /\ Cardinality(Expected) \in Nat
  BY <1>4, <1>5, FS_Subset, FS_CardinalityType
<1>7. Len(p) \in Nat
  BY <1>3
<1> QED
  BY <1>3, <1>5, <1>6, <1>7 DEF InFlightIsBounded, ConstantsOK

LEMMA EventIsArmed ==
    ASSUME ConstantsOK, Inv(nb)
    PROVE  WaitsForEvent
<1>1. MidInv(nb) /\ nb \in State /\ SubmitInv(nb) /\ ReadInv(nb)
  BY DEF Inv, MidInv
<1>2. nb.rq \in Seq(Txs) /\ nb.wire \in Seq(Txs) /\ nb.resp \in Seq(Txs)
  BY <1>1, Fields
<1>3. ASSUME nb.loop = "idle", nb.wire \o nb.resp # <<>>, ~nb.reading, nb.write # "whole"
      PROVE  \A i \in DOMAIN nb.wire : Kind(nb, nb.wire[i]) = "mute"
  <2> SUFFICES ASSUME NEW i \in DOMAIN nb.wire, Kind(nb, nb.wire[i]) # "mute" PROVE FALSE
    OBVIOUS
  <2>1. nb.rq = <<>> /\ Awaited(nb) = nb.rq
    BY <1>1, <1>3, AwaitedForms DEF ReadInv
  <2>2. nb.wire[i] \in ToSet(nb.wire \o nb.resp)
    <3> DEFINE x == nb.wire \o nb.resp
    <3>1. i \in DOMAIN x /\ x[i] = nb.wire[i]
      <4> DEFINE w == nb.wire
                 r == nb.resp
      <4>1. w \in Seq(Txs) /\ r \in Seq(Txs) /\ i \in 1 .. Len(w) /\ Len(w) \in Nat /\ Len(r) \in Nat
        BY <1>2
      <4> HIDE DEF w, r
      <4>2. i \in 1 .. Len(w) + Len(r)
        BY <4>1
      <4>3. DOMAIN (w \o r) = 1 .. Len(w) + Len(r) /\ (w \o r)[i] = w[i]
        BY <4>1, <4>2
      <4> QED
        BY <4>2, <4>3 DEF w, r
    <3> HIDE DEF x
    <3>2. nb.wire[i] \in ToSet(x)
      BY <3>1 DEF ToSet
    <3> QED
      BY <3>2 DEF x
  <2>3. \E j \in 1 .. Len(Awaited(nb)) : Awaited(nb)[j] = nb.wire[i]
    BY <2>2, <1>1, OnTheWay
  <2> QED
    BY <2>1, <2>3
<1> QED
  BY <1>1, <1>3 DEF WaitsForEvent, SubmitInv, ReadInv

-----------------------------------------------------------------------------
(* The theorems.                                                           *)

(* The inductive invariant: the queues hold every transaction at most once  *)
(* and in the state their place says; a synchronous transaction finds them  *)
(* empty; and who awaits a response is in the order of the responses.       *)
THEOREM KeysInvariant == ConstantsOK => (Spec => []IInv)
<1> SUFFICES ASSUME ConstantsOK PROVE Spec => []IInv
  OBVIOUS
<1>1. Init => IInv
  BY Initially DEF IInv
<1>2. IInv /\ [Next]_nb => IInv'
  BY Steps DEF IInv
<1> QED
  BY <1>1, <1>2, PTL DEF Spec

(* No assertion of main.c's async_nb functions fails: no transaction is     *)
(* queued twice, a fiber is not resumed while it is queued, a job has its   *)
(* callback when its response is read, and no synchronous request is        *)
(* written into the middle of another.                                      *)
THEOREM KeysAssertNothing == ConstantsOK => (Spec => []NoAssertionFails)
<1> SUFFICES ASSUME ConstantsOK PROVE Spec => []NoAssertionFails
  OBVIOUS
<1>1. IInv => NoAssertionFails
  BY Fields DEF IInv, Inv, MidInv, NoAssertionFails
<1> QED
  BY <1>1, KeysInvariant, PTL

(* A handshake that got a response got the one to its own request, though   *)
(* responses do not say whose they are: async_nb_read_ready and             *)
(* async_nb_run_sync go by the order alone.                                 *)
THEOREM KeysAnswersMatch == ConstantsOK => (Spec => []AnswersMatch)
<1> SUFFICES ASSUME ConstantsOK PROVE Spec => []AnswersMatch
  OBVIOUS
<1>1. IInv => AnswersMatch
  BY DEF IInv, Inv, MidInv, AnswerInv, AnswersMatch
<1> QED
  BY <1>1, KeysInvariant, PTL

(* The responses on their way are never more than the limit of              *)
(* async_nb_submit_write_pending, which keeps the neverbleed process from   *)
(* blocking on a full socket.                                               *)
THEOREM KeysInFlight == ConstantsOK => (Spec => []InFlightIsBounded)
<1> SUFFICES ASSUME ConstantsOK PROVE Spec => []InFlightIsBounded
  OBVIOUS
<1>1. IInv => InFlightIsBounded
  BY BoundedInFlight DEF IInv
<1> QED
  BY <1>1, KeysInvariant, PTL

(* No wake-up is lost: when the thread is in its event loop, a queued       *)
(* request has a write in progress or waits for a response to make room,    *)
(* and a response on its way has a reader armed, or will once the write     *)
(* that is complete is reported.                                            *)
THEOREM KeysWaitForEvent == ConstantsOK => (Spec => []WaitsForEvent)
<1> SUFFICES ASSUME ConstantsOK PROVE Spec => []WaitsForEvent
  OBVIOUS
<1>1. IInv => WaitsForEvent
  BY EventIsArmed DEF IInv
<1> QED
  BY <1>1, KeysInvariant, PTL
=============================================================================
