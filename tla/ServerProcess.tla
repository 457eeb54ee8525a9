--------------------------- MODULE ServerProcess ---------------------------
(***************************************************************************)
(* The threads of the server (run_loop of src/main.c): their start behind  *)
(* two barriers, the accepting of connections under max-connections and    *)
(* soft-connection-limit, the lists of connections of a context            *)
(* (lib/core/context.c), SIGTERM and the way out, and the threads that     *)
(* fetch OCSP responses under a semaphore.                                 *)
(*                                                                         *)
(* The counters are read and changed by atomic instructions: each use is   *)
(* a step.  A connection is [st, old, rested, quic]: `old` when it was     *)
(* made at least min-age ago, `rested` when it has been idle that long.    *)
(***************************************************************************)
EXTENDS Integers, Sequences, FiniteSets, SequencesExt, FiniteSetsExt

CONSTANTS Threads,        \* 1 is the main thread
          MaxConnections, MaxQuic, SoftLimit,
          Certs,          \* certificates with OCSP stapling
          OcspCapacity, MaxFailures,
          MaxArrivals,    \* bound: QUIC connections and OCSP responses that are tried
          Scenes          \* [tcp, quic, idle, term, ocsp]: tcp connections are tried

(* What a configuration may say. *)
ConstantsOK ==
    /\ IsFiniteSet(Threads) /\ 1 \in Threads /\ IsFiniteSet(Certs)
    /\ MaxConnections \in Nat /\ MaxQuic \in Nat /\ SoftLimit \in Nat
    /\ OcspCapacity \in Nat /\ MaxFailures \in Nat /\ MaxArrivals \in Nat
    /\ Scenes \subseteq [tcp : Nat, quic : BOOLEAN, idle : BOOLEAN, term : BOOLEAN, ocsp : BOOLEAN]

VARIABLE sv

Asserted(c, ok, name) == IF ok THEN c ELSE [c EXCEPT !.failed = @ \cup {name}]
NumThreads == Cardinality(Threads)
Pc(c, t) == c.pc[t]
Goto(c, t, l) == [c EXCEPT !.pc[t] = l]

-----------------------------------------------------------------------------
(* Counters and notifications.                                             *)

\* notify_all_threads: an eventfd per thread
NotifyAll(c) == [c EXCEPT !.efd = Threads]
\* num_connections(-1): leaving the maximum wakes everybody up
Freed(c, prev) == IF prev = MaxConnections THEN NotifyAll(c) ELSE c
LeaveOne(c) == Freed([c EXCEPT !.num = @ - 1], c.num)
LeaveQuic(c) == [LeaveOne(c) EXCEPT !.quic = @ - 1]

-----------------------------------------------------------------------------
(* The connections of a context.                                           *)

NewConn(quic) == [st |-> "active", old |-> FALSE, rested |-> FALSE, quic |-> quic]
CreateConnection(c, t, quic) == [c EXCEPT !.conns[t] = Append(@, NewConn(quic))]
RemoveConn(c, t, i) == [c EXCEPT !.conns[t] = SubSeq(@, 1, i - 1) \o SubSeq(@, i + 1, Len(@))]
\* h2o_destroy_connection and on_socketclose or on_http3_conn_destroy
DestroyConnection(c, t, i) == IF c.conns[t][i].quic THEN LeaveQuic(RemoveConn(c, t, i)) ELSE LeaveOne(RemoveConn(c, t, i))
SetState(c, t, i, st) == [c EXCEPT !.conns[t][i] = [@ EXCEPT !.st = st, !.rested = FALSE]]

\* close_idle_connections and h2o_context_close_idle_connections: HTTP/1 closes at once, the others begin to shut down
Excess(c) == (c.num - SoftLimit) \div NumThreads
InShutdown(c, t) == Cardinality({i \in DOMAIN c.conns[t] : c.conns[t][i].st = "shutdown"})
CloseIdle(c, t, i) ==
    LET d == [c EXCEPT !.early = @ \/ ~c.conns[t][i].rested]
    IN  IF c.conns[t][i].quic THEN SetState(d, t, i, "shutdown") ELSE DestroyConnection(d, t, i)
OldIdle(c, t) == {i \in DOMAIN c.conns[t] : c.conns[t][i].st = "idle" /\ c.conns[t][i].old}
\* a thread has few connections here: at most one is over the limit
CloseIdleConnections(c, t) ==
    IF c.num <= SoftLimit \/ Excess(c) = 0 \/ InShutdown(c, t) >= Excess(c) \/ OldIdle(c, t) = {} THEN c
    ELSE CloseIdle(c, t, Min(OldIdle(c, t)))

-----------------------------------------------------------------------------
(* The start.                                                              *)

\* run_loop up to the first barrier: the context is made, receivers are registered, listeners are opened
Ready(t) ==
    /\ Pc(sv, t) = "setup"
    /\ sv' = [Goto(sv, t, "barrier1") EXCEPT !.registered = @ \cup {t}, !.listening = @ \cup {t}, !.barrier[1] = @ - 1]
\* the main thread sets the signal handler; a SIGTERM that came earlier ends the process
PassFirst(t) ==
    /\ Pc(sv, t) = "barrier1" /\ sv.barrier[1] = 0
    /\ sv' = IF t # 1 THEN [Goto(sv, t, "barrier2") EXCEPT !.barrier[2] = @ - 1]
             ELSE [Goto(sv, t, "check") EXCEPT !.handler = "notify"]
CheckEarlyTerm ==
    /\ Pc(sv, 1) = "check"
    /\ sv' = IF sv.term THEN [sv EXCEPT !.exited = TRUE] ELSE [Goto(sv, 1, "barrier2") EXCEPT !.barrier[2] = @ - 1]
\* with QUIC the thread of the session tickets has to pass the barrier too
TicketsReady ==
    /\ sv.scene.quic /\ ~sv.tickets
    /\ sv' = [sv EXCEPT !.tickets = TRUE, !.barrier[2] = @ - 1]
PassSecond(t) ==
    /\ Pc(sv, t) = "barrier2" /\ sv.barrier[2] = 0
    /\ sv' = Goto(Asserted(sv, ~sv.scene.quic \/ sv.tickets, "QUIC without keys"), t, "loop")

-----------------------------------------------------------------------------
(* The main loop.                                                          *)

Loop(t) ==
    /\ Pc(sv, t) = "loop"
    /\ sv' = Goto(sv, t, IF sv.term THEN "stop" ELSE "count")
\* update_listener_state reads the counter, then starts or stops
ReadCount(t) ==
    /\ Pc(sv, t) = "count"
    /\ sv' = Goto(sv, t, IF sv.num < MaxConnections THEN "listen" ELSE "unlisten")
UpdateListener(t) ==
    \/ Pc(sv, t) = "listen" /\ sv' = [Goto(sv, t, "poll") EXCEPT !.listening = @ \cup {t}]
    \/ Pc(sv, t) = "unlisten" /\ sv' = [Goto(sv, t, "poll") EXCEPT !.listening = @ \ {t}]

\* h2o_evloop_run returns after it has handled something
Polling(c, t) == Pc(c, t) \in {"poll", "lastpoll"}
Back(c, t) == IF Pc(c, t) = "lastpoll" THEN "last" ELSE "loop"
Notified(t) ==
    /\ Polling(sv, t) /\ t \in sv.efd
    /\ sv' = [Goto(sv, t, IF Pc(sv, t) = "poll" THEN "queue" ELSE "lastqueue") EXCEPT !.efd = @ \ {t}]
\* queue_cb, with the mutex of the queue
QueueDone(t) ==
    /\ Pc(sv, t) \in {"queue", "lastqueue"}
    /\ sv' = Goto(sv, t, IF Pc(sv, t) = "queue" THEN "loop" ELSE "last")

GiveBackForgets(t) == Pc(sv, t) = "giveback" /\ sv' = Goto(sv, t, "loop")
\* on_accept: idle connections go first, the place is taken before accept(2) is called; it goes on (ten times in the code, there
\* are fewer here) until there is no connection or no place
OnAccept(t) ==
    /\ Pc(sv, t) = "again" \/ (Pc(sv, t) = "poll" /\ t \in sv.listening /\ sv.backlog > 0)
    /\ LET c == CloseIdleConnections(sv, t)
       IN  sv' = [Goto(c, t, IF c.num >= MaxConnections THEN "giveback" ELSE "accept") EXCEPT !.num = @ + 1]
\* another thread may have been faster
AcceptAny(t) ==
    /\ Pc(sv, t) = "accept"
    /\ sv' = IF sv.backlog = 0 THEN Goto(LeaveOne(sv), t, "loop")
             ELSE Goto(CreateConnection([sv EXCEPT !.backlog = @ - 1], t, FALSE), t, "again")
GiveBack(t) ==
    /\ Pc(sv, t) = "giveback"
    /\ sv' = Goto(LeaveOne(sv), t, "loop")

\* on_http3_accept: the two counters, the token or a retry, the accepting; a connection that is closed at once gave its places back
OnHttp3Accept(t) ==
    /\ Pc(sv, t) = "poll" /\ sv.scene.quic /\ sv.arrivals < MaxArrivals
    /\ LET c == CloseIdleConnections(sv, t)
       IN  sv' = [Goto(c, t, IF c.num >= MaxConnections THEN "giveback" ELSE "quic") EXCEPT !.num = @ + 1, !.arrivals = @ + 1]
CountQuic(t) ==
    /\ Pc(sv, t) = "quic"
    /\ sv' = [Goto(sv, t, IF sv.quic >= MaxQuic THEN "quicback" ELSE "token") EXCEPT !.quic = @ + 1]
AcceptQuic(t) ==
    /\ Pc(sv, t) = "token"
    /\ \/ sv' = Goto(CreateConnection(sv, t, TRUE), t, "loop")
       \/ sv' = Goto(sv, t, "quicback")
       \/ sv' = Goto(LeaveQuic(sv), t, "loop")
QuicBack(t) ==
    /\ Pc(sv, t) = "quicback"
    /\ sv' = Goto(LeaveQuic(sv), t, "loop")

\* what becomes of connections; those that are told to shut down end
ConnEvent(t) ==
    /\ Polling(sv, t)
    /\ \E i \in DOMAIN sv.conns[t] :
          \/ sv' = Goto(DestroyConnection(sv, t, i), t, Back(sv, t))
          \/ /\ sv.scene.idle /\ sv.conns[t][i].st = "active"
             /\ sv' = Goto(SetState(sv, t, i, "idle"), t, Back(sv, t))
          \/ /\ sv.conns[t][i].st = "idle"
             /\ sv' = Goto(SetState(sv, t, i, "active"), t, Back(sv, t))
Ages ==
    \E t \in Threads : \E i \in DOMAIN sv.conns[t] :
        /\ sv.scene.idle
        /\ \/ sv' = [sv EXCEPT !.conns[t][i].old = TRUE]
           \/ sv.conns[t][i].st = "idle" /\ sv' = [sv EXCEPT !.conns[t][i] = [@ EXCEPT !.old = TRUE, !.rested = TRUE]]
Arrive ==
    /\ sv.arrivals < sv.scene.tcp
    /\ sv' = [sv EXCEPT !.arrivals = @ + 1, !.backlog = @ + 1]

-----------------------------------------------------------------------------
(* SIGTERM interrupts any thread.  The handler takes the mutexes of the    *)
(* queues.                                                                 *)

Sigterm(t) ==
    /\ sv.scene.term /\ ~sv.term /\ Pc(sv, t) # "setup"
    /\ sv' = IF sv.handler = "flag" THEN [sv EXCEPT !.term = TRUE]
             ELSE [NotifyAll(Asserted(Asserted(sv, sv.registered = Threads, "receiver is not registered"),
                                      Pc(sv, t) \notin {"queue", "lastqueue"}, "handler takes a mutex its thread holds")) EXCEPT !.term = TRUE]

StopListening(t) ==
    /\ Pc(sv, t) = "stop"
    /\ sv' = [Goto(sv, t, "shutdown") EXCEPT !.listening = @ \ {t}]
\* the listeners are closed and h2o_context_request_shutdown tells every connection
RequestShutdown(t) ==
    /\ Pc(sv, t) = "shutdown"
    /\ sv' = [Goto(sv, t, "last") EXCEPT !.conns[t] = [i \in DOMAIN @ |-> [@[i] EXCEPT !.st = "shutdown", !.rested = FALSE]]]
LastLoop(t) ==
    /\ Pc(sv, t) = "last"
    /\ sv' = IF sv.num = 0 THEN [sv EXCEPT !.exited = TRUE] ELSE Goto(sv, t, "lastpoll")

-----------------------------------------------------------------------------
(* ocsp_updater_thread.  The semaphore is raised once the server has been  *)
(* set up.                                                                 *)

Raised(c) == c.sem # -1
RaiseSemaphore ==
    /\ sv.scene.ocsp /\ ~Raised(sv)
    /\ sv' = [sv EXCEPT !.sem = OcspCapacity]
OcspWait(k) ==
    /\ sv.ocsp[k].pc = "sleep" /\ sv.sem > 0 /\ sv.fetches < MaxArrivals
    /\ sv' = [sv EXCEPT !.sem = @ - 1, !.ocsp[k].pc = "fetch", !.fetches = @ + 1]
\* get_ocsp_response and h2o_sem_post, then what the status asks for
OcspUpdated(o, status) ==
    CASE status = "ok" -> [o EXCEPT !.pc = "sleep", !.fails = 0, !.response = TRUE]
      [] status = "temporary" /\ o.fails = MaxFailures -> [o EXCEPT !.pc = "sleep", !.response = FALSE]
      [] status = "temporary" /\ o.fails # MaxFailures -> [o EXCEPT !.pc = "sleep", !.fails = @ + 1]
      [] OTHER -> [o EXCEPT !.pc = "done", !.response = FALSE]
OcspFetched(k) ==
    /\ sv.ocsp[k].pc = "fetch"
    /\ \E status \in {"ok", "temporary", "permanent"} :
          sv' = [sv EXCEPT !.sem = @ + 1, !.ocsp[k] = OcspUpdated(@, status)]

-----------------------------------------------------------------------------

Init ==
    \E scene \in Scenes :
        sv = [scene |-> scene, failed |-> {}, pc |-> [t \in Threads |-> "setup"], registered |-> {}, listening |-> {}, efd |-> {},
              barrier |-> <<NumThreads, NumThreads + (IF scene.quic THEN 1 ELSE 0)>>, tickets |-> FALSE, handler |-> "flag",
              term |-> FALSE, exited |-> FALSE, num |-> 0, quic |-> 0, conns |-> [t \in Threads |-> <<>>], backlog |-> 0, arrivals |-> 0,
              early |-> FALSE, sem |-> -1, fetches |-> 0, ocsp |-> [k \in Certs |-> [pc |-> "sleep", fails |-> 0, response |-> FALSE]]]

ThreadSteps ==
    \E t \in Threads :
        \/ Ready(t) \/ PassFirst(t) \/ PassSecond(t) \/ Loop(t) \/ ReadCount(t) \/ UpdateListener(t) \/ Notified(t) \/ QueueDone(t)
        \/ OnAccept(t) \/ AcceptAny(t) \/ GiveBack(t) \/ CountQuic(t) \/ AcceptQuic(t) \/ QuicBack(t)
        \/ StopListening(t) \/ RequestShutdown(t) \/ LastLoop(t)
Environment ==
    \/ Arrive \/ Ages \/ \E t \in Threads : OnHttp3Accept(t) \/ ConnEvent(t) \/ Sigterm(t)
Ocsp == RaiseSemaphore \/ \E k \in Certs : OcspWait(k) \/ OcspFetched(k)

Step == ~sv.exited /\ (ThreadSteps \/ CheckEarlyTerm \/ TicketsReady \/ Environment \/ Ocsp)
Next == sv.failed = {} /\ Step
Spec == Init /\ [][Next]_sv

-----------------------------------------------------------------------------

\* a thread that is interrupted while it holds the mutex of its queue waits for itself
KnownFailures == {"handler takes a mutex its thread holds"}
\* No thread is notified before it can be, and QUIC is not served without keys.
NoAssertionFails == sv.failed \subseteq KnownFailures

At(pc, labels) == {t \in Threads : pc[t] \in labels}
Undecided == {"giveback", "accept", "quic", "token", "quicback"}
\* the connections of all threads, those of some kinds only: BOOLEAN for all, {TRUE} for QUIC
Served(conns, kinds) == {x \in UNION {{t} \X DOMAIN conns[t] : t \in Threads} : conns[x[1]][x[2]].quic \in kinds}

\* The counters count the connections and the places that are taken for a moment.
CountsAreExact ==
    /\ sv.num = Cardinality(Served(sv.conns, BOOLEAN)) + Cardinality(At(sv.pc, Undecided))
    /\ sv.quic = Cardinality(Served(sv.conns, {TRUE})) + Cardinality(At(sv.pc, {"token", "quicback"}))

\* Whatever is taken for a moment, no more connections are served than configured.
LimitsHold ==
    /\ Cardinality(Served(sv.conns, BOOLEAN)) <= MaxConnections
    /\ Cardinality(Served(sv.conns, {TRUE})) <= MaxQuic

\* A thread that sleeps without listening is woken when there is room.
NobodyStaysDeaf ==
    \A t \in Threads : (Pc(sv, t) = "poll" /\ t \notin sv.listening /\ sv.num < MaxConnections) => t \in sv.efd

\* A server that was told to end and has no connection left is not asleep.
LastOneLeaves ==
    (sv.term /\ ~sv.exited /\ sv.num = 0) => \E t \in Threads : ~Polling(sv, t) \/ t \in sv.efd

\* The semaphore bounds the fetches, and a response that is served was fetched, MaxFailures + 1 temporary errors ago at most.
OcspIsBounded ==
    /\ Raised(sv) => sv.sem + Cardinality({k \in Certs : sv.ocsp[k].pc = "fetch"}) = OcspCapacity
    /\ Cardinality({k \in Certs : sv.ocsp[k].pc = "fetch"}) <= OcspCapacity
    /\ \A k \in Certs : sv.ocsp[k].pc = "done" => ~sv.ocsp[k].response

\* Only connections that have been idle for min-age are closed by soft-connection-limit.
IdleTimeIsGuaranteed == ~sv.early
=============================================================================
