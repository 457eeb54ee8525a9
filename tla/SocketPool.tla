----------------------------- MODULE SocketPool -----------------------------
(***************************************************************************)
(* The pool of upstream connections (lib/common/socketpool.c) and its load *)
(* balancers (lib/common/balancer), shared by the threads of the server.   *)
(*                                                                         *)
(* What is done under the mutex, and each atomic addition with what comes  *)
(* before the next point where another thread can be seen, is one step.    *)
(* Each client is on a thread of its own; client 1 is on the loop that the *)
(* pool's timer is registered with.  Counters wrap at Wrap, as size_t.     *)
(***************************************************************************)
EXTENDS Integers, Sequences, FiniteSets, SequencesExt

CONSTANTS
    Clients,        \* threads, each with one request
    Targets,        \* 1 .. n
    Wrap,           \* the range of a counter
    MaxSocks,       \* bound on the number of connections made
    Scenes

VARIABLE sp

-----------------------------------------------------------------------------

Asserted(c, ok, name) == IF ok THEN c ELSE [c EXCEPT !.failed = @ \cup {name}]
Can(event) == event \in sp.scene.events

Idle == [st |-> "idle", target |-> 0, tried |-> {}, tries |-> 0, sock |-> 0, balanced |-> FALSE]
\* common_init, h2o_socketpool_register_loop.  A global pool learns its targets from
\* the requests.
NewPool(scene) ==
    [scene |-> scene, known |-> IF scene.global THEN {} ELSE Targets,
     all |-> <<>>, per |-> [t \in Targets |-> <<>>], old |-> {}, count |-> 0, pooled |-> 0, leased |-> [t \in Targets |-> 0],
     pos |-> 1, used |-> 0, timer |-> TRUE, conns |-> [k \in Clients |-> Idle], socks |-> 0, made |-> [i \in 1 .. MaxSocks |-> 0],
     failed |-> {}]

\* atomic additions
AddCount(c, n) == [c EXCEPT !.count = (@ + n) % Wrap]
AddPooled(c, n) == [c EXCEPT !.pooled = (@ + n) % Wrap]
AddLeased(c, t, n) == [c EXCEPT !.leased[t] = (@ + n) % Wrap]

-----------------------------------------------------------------------------
(* Pooled sockets.  `made` is the target a socket is connected to. *)

\* destroy_attached, and the unlinking by h2o_socketpool_connect
Unlink(c, s) ==
    [c EXCEPT !.all = SelectSeq(@, LAMBDA x : x # s),
              !.per[c.made[s]] = SelectSeq(@, LAMBDA x : x # s),
              !.old = @ \ {s}]

\* destroy_expired_locked: from the head of the list to the first that is not old
Expired(c) == {s \in c.old : \A i \in 1 .. Len(c.all) : c.all[i] = s => \A j \in 1 .. i : c.all[j] \in c.old}
Destroy(c, socks) ==
    AddCount(AddPooled([c EXCEPT !.all = SelectSeq(@, LAMBDA x : x \notin socks),
                                 !.per = [t \in Targets |-> SelectSeq(@[t], LAMBDA x : x \notin socks)],
                                 !.old = @ \ socks],
                       -Cardinality(socks)), -Cardinality(socks))
\* check_pool_expired_locked
WatchPool(c, loop) == [c EXCEPT !.timer = @ \/ (loop = 1 /\ c.all # <<>>)]
CheckPoolExpired(c, loop) == WatchPool(Destroy(c, Expired(c)), loop)

-----------------------------------------------------------------------------
(* Connecting *)

\* on_close: what closing a socket of the pool does
OnClose(c, t) == AddCount(AddLeased(c, t, -1), -1)

\* call_connect_cb
Failed(c, k) == [c EXCEPT !.conns[k] = Idle]
Connected(c, k) == [c EXCEPT !.conns[k].st = "leased"]

\* after a failed attempt, the next one or the end
Retry(c, k) == IF c.conns[k].tries > 0 THEN [c EXCEPT !.conns[k].st = "try", !.conns[k].sock = 0] ELSE Failed(AddCount(c, -1), k)

\* roundrobin.c: selector and select_next
After(pos) == IF pos = Cardinality(Targets) THEN 1 ELSE pos + 1
RoundRobin(c, tried) ==
    CHOOSE t \in Targets \ tried :
        \A u \in Targets \ tried : (t - c.pos) % Cardinality(Targets) <= (u - c.pos) % Cardinality(Targets)
SelectNext(c, t) ==
    LET used == IF t = c.pos THEN c.used + 1 ELSE 1
    IN  IF used > c.scene.weights[t] - 1 THEN [c EXCEPT !.pos = After(t), !.used = 0] ELSE [c EXCEPT !.pos = t, !.used = used]
\* least_conn.c: the first with the least leased_count for its weight
LeastConn(c, tried) ==
    CHOOSE t \in Targets \ tried :
        \A u \in Targets \ tried :
            \/ c.leased[t] * c.scene.weights[u] < c.leased[u] * c.scene.weights[t]
            \/ c.leased[t] * c.scene.weights[u] = c.leased[u] * c.scene.weights[t] /\ t <= u

\* try_connect.  A balancer is asked when there is a choice.
Try(c, k, t) ==
    AddLeased([c EXCEPT !.conns[k].target = t, !.conns[k].tries = @ - 1, !.conns[k].tried = @ \cup {t},
                        !.conns[k].st = IF c.scene.named THEN "resolve" ELSE "start"],
              t, 1)
SelectTarget(c, k) ==
    IF ~c.conns[k].balanced THEN Try(c, k, c.conns[k].target)
    ELSE IF c.scene.balancer = "rr"
    THEN Try(SelectNext(Asserted(c, Targets \ c.conns[k].tried # {}, "select"), RoundRobin(c, c.conns[k].tried)), k,
             RoundRobin(c, c.conns[k].tried))
    ELSE Try(Asserted(c, Targets \ c.conns[k].tried # {}, "select"), k, LeastConn(c, c.conns[k].tried))

\* the end of h2o_socketpool_connect: a new connection.  A global pool has one target for it
NewRequest(c, k, t) ==
    AddCount([c EXCEPT !.conns[k] = [Idle EXCEPT !.st = "try", !.target = t, !.balanced = ~c.scene.global,
                                                  !.tries = IF c.scene.global THEN 1 ELSE Cardinality(Targets)]], 1)

\* the loop of h2o_socketpool_connect
TakeOrConnect(c, k, t, list) ==
    IF list = <<>> THEN NewRequest(c, k, t)
    ELSE [Unlink(c, Head(list)) EXCEPT !.conns[k] = [Idle EXCEPT !.st = "testing", !.target = t, !.sock = Head(list)]]
Lookup(c, k, t) == TakeOrConnect(c, k, t, IF c.scene.global THEN c.per[t] ELSE c.all)

-----------------------------------------------------------------------------
(* Actions *)

Stage(k) == sp.conns[k].st
TargetOf(k) == sp.conns[k].target

\* h2o_socketpool_connect; url: the target a request to a global pool names
Connect(k, url) ==
    /\ Stage(k) = "idle" /\ sp.socks < MaxSocks
    /\ (sp.scene.global \/ url = 1)
    /\ sp' = IF sp.scene.keeps \/ sp.scene.global
             THEN Lookup([CheckPoolExpired(sp, k) EXCEPT !.known = @ \cup {url}], k, url)
             ELSE NewRequest(sp, k, url)

\* the test whether a pooled socket is still alive
TestAlive(k) ==
    /\ Stage(k) = "testing"
    /\ LET s == sp.conns[k].sock
       IN  sp' = Connected(AddLeased(AddPooled([sp EXCEPT !.conns[k].target = sp.made[s]], -1), sp.made[s], 1), k)
TestDead(k) ==
    /\ Stage(k) = "testing" /\ Can("dead")
    /\ sp' = Lookup(AddPooled(sp, -1), k, TargetOf(k))

TryConnect(k) ==
    /\ Stage(k) = "try" /\ sp.socks < MaxSocks
    /\ sp' = SelectTarget(sp, k)

\* on_getaddr
OnGetaddr(k, err) ==
    /\ Stage(k) = "resolve" /\ (err => Can("error"))
    /\ sp' = IF err THEN Retry(AddLeased(sp, TargetOf(k), -1), k) ELSE [sp EXCEPT !.conns[k].st = "start"]

\* start_connect
StartConnect(k, err) ==
    /\ Stage(k) = "start" /\ sp.socks < MaxSocks /\ (err => Can("error"))
    /\ sp' = IF err THEN Retry(AddLeased(sp, TargetOf(k), -1), k)
             ELSE [sp EXCEPT !.conns[k].st = "connect", !.conns[k].sock = sp.socks + 1, !.socks = @ + 1,
                             !.made[sp.socks + 1] = TargetOf(k)]

\* on_connect; closing the socket runs on_close
OnConnect(k, err) ==
    /\ Stage(k) = "connect" /\ (err => Can("error"))
    /\ sp' = IF err THEN Retry(OnClose(AddLeased(sp, TargetOf(k), -1), TargetOf(k)), k)
             ELSE IF sp.scene.ssl THEN [sp EXCEPT !.conns[k].st = "handshake"] ELSE Connected(sp, k)

\* on_handshake_complete
OnHandshakeComplete(k, err) ==
    /\ Stage(k) = "handshake" /\ (err => Can("error"))
    /\ sp' = IF err THEN Failed(OnClose(sp, TargetOf(k)), k) ELSE Connected(sp, k)

\* h2o_socketpool_cancel_connect
CancelConnect(k) ==
    /\ Stage(k) \in {"resolve", "connect", "handshake"} /\ Can("cancel")
    /\ LET closed == IF sp.conns[k].sock # 0 THEN OnClose(sp, TargetOf(k)) ELSE sp
       IN  sp' = Failed(IF sp.conns[k].balanced THEN AddLeased(closed, TargetOf(k), -1) ELSE closed, k)

\* h2o_socketpool_return, before and under the mutex
ReturnSocket(k, err) ==
    /\ Stage(k) = "leased" /\ (err => Can("error"))
    /\ sp' = IF err THEN Failed(AddCount(AddLeased(sp, TargetOf(k), -1), -1), k)
             ELSE AddPooled([AddLeased(sp, TargetOf(k), -1) EXCEPT !.conns[k].st = "returning"], 1)
ReturnInsert(k) ==
    /\ Stage(k) = "returning"
    /\ sp' = CheckPoolExpired([Failed(sp, k) EXCEPT !.all = Append(@, sp.conns[k].sock),
                                                    !.per[TargetOf(k)] = Append(@, sp.conns[k].sock)], k)

\* the user closes a leased socket; h2o_socketpool_detach, for a connection that became HTTP/2
CloseSocket(k) ==
    /\ Stage(k) = "leased"
    /\ sp' = Failed(OnClose(sp, TargetOf(k)), k)
Detach(k) ==
    /\ Stage(k) = "leased" /\ sp.scene.ssl
    /\ sp' = Failed(AddCount(AddLeased(sp, TargetOf(k), -1), -1), k)

\* time passes; the timer of the pool, which does nothing when another thread has the mutex
Tick ==
    /\ sp.old # Range(sp.all)
    /\ sp' = [sp EXCEPT !.old = Range(sp.all)]
OnTimeout(busy) ==
    /\ sp.timer /\ (busy => Can("busy"))
    /\ sp' = IF busy THEN [sp EXCEPT !.timer = FALSE] ELSE CheckPoolExpired([sp EXCEPT !.timer = FALSE], 1)

Init == sp \in {NewPool(s) : s \in Scenes}
Step ==
    \/ \E k \in Clients :
        \/ \E url \in Targets : Connect(k, url)
        \/ TestAlive(k) \/ TestDead(k) \/ TryConnect(k) \/ CancelConnect(k)
        \/ ReturnInsert(k) \/ CloseSocket(k) \/ Detach(k)
        \/ \E err \in BOOLEAN :
            OnGetaddr(k, err) \/ StartConnect(k, err) \/ OnConnect(k, err) \/ OnHandshakeComplete(k, err) \/ ReturnSocket(k, err)
    \/ Tick
    \/ \E busy \in BOOLEAN : OnTimeout(busy)
Next == sp.failed = {} /\ Step

-----------------------------------------------------------------------------
(* Properties *)

\* The assertions of try_connect and of the balancers hold.
NoAssertionFails == sp.failed = {}

\* The list of all sockets and the lists of the targets hold the same sockets, each once and under the
\* target it is connected to, and none that a client has.
ListsAgree ==
    /\ Cardinality(Range(sp.all)) = Len(sp.all)
    /\ \A t \in Targets : sp.per[t] = SelectSeq(sp.all, LAMBDA s : sp.made[s] = t)
    /\ \A k \in Clients : Stage(k) # "idle" => sp.conns[k].sock \notin Range(sp.all)

\* pooled_count, leased_count and count are what socketpool.h says: the sockets that are pooled, those leased
\* to the application (and those being connected), and all of them.
At(stages) == {k \in Clients : Stage(k) \in stages}
\* The counters of the pool are the numbers of its sockets, leased, pooled or
\* being connected.
CountsAreExact ==
    /\ sp.pooled = Len(sp.all) + Cardinality(At({"testing", "returning"}))
    /\ \A t \in Targets :
        sp.leased[t] = Cardinality({k \in At({"resolve", "start", "connect", "handshake", "leased"}) : TargetOf(k) = t})
    /\ sp.count = Len(sp.all) + Cardinality(Clients \ At({"idle"}))

\* The same as long as no connection fails, is found dead or is given up.
CountsAreExactWithoutFaults == sp.scene.events \cap {"dead", "error", "cancel"} = {} => CountsAreExact

\* While sockets are pooled the timer that closes them when they are old is armed.
PoolIsWatched == sp.all # <<>> => sp.timer
=============================================================================
