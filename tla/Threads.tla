------------------------------- MODULE Threads -------------------------------
(***************************************************************************)
(* The threads that serve an event loop, and the queue their answers come  *)
(* back through: lib/common/multithread.c (message queue, error reporter), *)
(* lib/common/memcached.c (a reader and a writer thread per connection)    *)
(* and lib/common/hostinfo.c (a pool of lookup threads).                   *)
(*                                                                         *)
(* A step of a thread is what it does between taking and giving back a     *)
(* mutex, or between two uses of one.  pthread_cond_wait gives the mutex   *)
(* back and sleeps in one step; a thread that was woken takes it again in  *)
(* a step of its own.  A request is "idle" before and after its life,      *)
(* "live" while somebody has to answer it, and "freed" in the end.         *)
(***************************************************************************)
EXTENDS Integers, Sequences, FiniteSets, SequencesExt

CONSTANTS Gets, Sets, Names,   \* the requests: memcached GET, SET or DELETE, name lookups
          Conns,               \* the threads of the memcached context
          Lookups,             \* hostinfo_max_threads, as thread numbers 1..n
          Scenes               \* [ops, breaks, text, errors]: what is used, how often a connection breaks

VARIABLE th

\* what is supposed of the constants
ConstantsOK ==
    /\ Gets \cap Sets = {}
    /\ IsFiniteSet(Lookups) /\ Lookups # {}
    /\ \A s \in Scenes : s.breaks \in Nat /\ s.errors \in Nat

Ids == Gets \cup Sets \cup Names
Receivers == {"memcached", "hostinfo"}
Asserted(c, ok, name) == IF ok THEN c ELSE [c EXCEPT !.failed = @ \cup {name}]
In(x, q) == \E i \in DOMAIN q : q[i] = x
\* h2o_linklist_unlink, of a node that is linked
Without(q, x) ==
    LET at == CHOOSE i \in DOMAIN q : q[i] = x
    IN  IF In(x, q) THEN [i \in 1 .. Len(q) - 1 |-> IF i < at THEN q[i] ELSE q[i + 1]] ELSE q
Live(c, r) == c.req[r].st = "live"

-----------------------------------------------------------------------------
(* The message queue.  The eventfd is written after the mutex was given    *)
(* back: `unsent` counts the threads that are about to.                    *)

SendMessage(c, rcv, r) ==
    IF c.msgs[rcv] = <<>>
    THEN [Asserted(c, ~In(rcv, c.active), "receiver") EXCEPT !.msgs[rcv] = <<r>>, !.active = Append(@, rcv), !.unsent = @ + 1]
    ELSE [Asserted(c, ~In(r, c.msgs[rcv]), "message->link") EXCEPT !.msgs[rcv] = Append(@, r)]

FreeReq(c, r) ==
    [Asserted(Asserted(Asserted(c, ~In(r, c.pending), "free_req: pending"), ~In(r, c.msgs["memcached"]), "free_req: message"),
              Live(c, r), "freed twice") EXCEPT !.req[r].st = "freed"]
DiscardReq(c, r) == IF r \in Gets THEN SendMessage(c, "memcached", r) ELSE FreeReq(c, r)

WriteEventfd ==
    /\ th.unsent > 0
    /\ th' = [th EXCEPT !.unsent = @ - 1, !.efd = TRUE]

\* on_read of the eventfd
OnRead ==
    /\ th.loop = "poll" /\ th.efd
    /\ th' = [th EXCEPT !.efd = FALSE, !.loop = "queue"]

\* queue_cb: the messages of one receiver are detached and dispatched without the mutex
QueueCb ==
    /\ th.loop = "queue"
    /\ th' = IF th.active = <<>> THEN [th EXCEPT !.loop = "poll"]
             ELSE LET rcv == Head(th.active)
                  IN  [th EXCEPT !.loop = rcv, !.batch = th.msgs[rcv], !.msgs[rcv] = <<>>, !.active = Tail(@)]

\* h2o_memcached_receiver, h2o_hostinfo_getaddr_receiver
Answer(c, r) ==
    [Asserted(c, Live(c, r), "message of a freed request") EXCEPT
        !.req[r] = [st |-> "freed", cb |-> FALSE, calls |-> IF @.cb THEN @.calls + 1 ELSE @.calls]]
Receive ==
    /\ th.loop \in Receivers
    /\ th' = IF th.batch = <<>> THEN [th EXCEPT !.loop = "queue"] ELSE [Answer(th, Head(th.batch)) EXCEPT !.batch = Tail(@)]

\* the loop's thread calls into the clients from its event handlers and from the callbacks of answers
LoopMayCall == th.loop = "poll" \/ th.loop \in Receivers

-----------------------------------------------------------------------------
(* The memcached context.                                                  *)

\* nobody holds the mutex of the context for more than a step, but a reader that discards what is pending
ContextIsFree == \A i \in Conns : th.rd[i] # "discard"
Sleepers(c) == {i \in Conns : c.wr[i] = "wait"}
\* pthread_cond_signal
SignalWriter(c) == IF Sleepers(c) = {} THEN {c} ELSE {[c EXCEPT !.wr[i] = "woken"] : i \in Sleepers(c)}

DispatchSet(c, r) ==
    IF c.connected # 0 THEN SignalWriter([c EXCEPT !.pending = Append(@, r)]) ELSE {DiscardReq(c, r)}
Dispatch(r) ==
    /\ r \in Gets \cup Sets /\ r \in th.scene.ops /\ th.req[r].st = "idle" /\ LoopMayCall /\ ContextIsFree
    /\ th' \in DispatchSet([th EXCEPT !.req[r] = [st |-> "live", cb |-> r \in Gets, calls |-> 0]], r)

\* h2o_memcached_cancel_get, by the one that waits for the answer
CancelGet(r) ==
    /\ r \in Gets /\ th.req[r].cb /\ LoopMayCall /\ ContextIsFree
    /\ LET c == [th EXCEPT !.req[r].cb = FALSE]
       IN  th' = IF In(r, c.pending) THEN FreeReq([c EXCEPT !.pending = Without(@, r)], r) ELSE c

\* reader_main: connect_to_server and the start of the writer, then the count
Connect(i) ==
    /\ th.rd[i] = "connect" /\ th.scene.ops \cap (Gets \cup Sets) # {}
    /\ th' = [th EXCEPT !.rd[i] = "count", !.wr[i] = "start", !.inflight[i] = <<>>, !.exit[i] = FALSE, !.broken[i] = FALSE, !.wire[i] = <<>>]
Count(i) ==
    /\ th.rd[i] = "count" /\ ContextIsFree
    /\ th' = [th EXCEPT !.rd[i] = "recv", !.connected = @ + 1]

\* writer_main under the mutex of the context; only what a wakeup is followed by looks at writer_exit_requested
TakeOrWait(c, i) ==
    IF c.pending = <<>> THEN [c EXCEPT !.wr[i] = "wait"]
    ELSE [c EXCEPT !.wr[i] = IF Head(c.pending) \in Gets THEN "insert" ELSE "send", !.held[i] = Head(c.pending), !.pending = Tail(@)]
WriterChecks(i) ==
    /\ th.wr[i] \in {"start", "woken"} /\ ContextIsFree
    /\ th' = IF th.exit[i] THEN [th EXCEPT !.wr[i] = "gone"] ELSE TakeOrWait(th, i)
WriterTakes(i) ==
    /\ th.wr[i] = "relock" /\ ContextIsFree
    /\ th' = TakeOrWait(th, i)
WriterInserts(i) ==
    /\ th.wr[i] = "insert"
    /\ th' = [th EXCEPT !.wr[i] = "send", !.inflight[i] = Append(@, th.held[i])]

\* yrmcds_get, yrmcds_set and yrmcds_remove read the request; a failed one ends the writer and the connection
Sent(c, i, r) ==
    IF c.broken[i] THEN [c EXCEPT !.wr[i] = "gone", !.held[i] = 0]
    ELSE [c EXCEPT !.wr[i] = "relock", !.held[i] = 0, !.wire[i] = IF r \in Gets THEN Append(@, r) ELSE @]
SendNow(c, i, r) == Sent(IF r \in Sets THEN DiscardReq(c, r) ELSE c, i, r)
WriterSends(i) ==
    /\ th.wr[i] = "send"
    /\ th' = SendNow(Asserted(th, Live(th, th.held[i]), "request used after free"), i, th.held[i])

ConnectionBreaks(i) ==
    /\ th.rd[i] = "recv" /\ ~th.broken[i] /\ th.breaks < th.scene.breaks
    /\ th' = [th EXCEPT !.broken[i] = TRUE, !.breaks = @ + 1]

\* yrmcds_recv and pop_inflight: in text mode answers come in order
ReaderReceives(i) ==
    /\ th.rd[i] = "recv" /\ ~th.broken[i]
    /\ \E r \in Range(th.wire[i]) :
          /\ (th.scene.text => r = Head(th.wire[i]))
          /\ th' = SendMessage([Asserted(th, In(r, th.inflight[i]), "unexpected serial")
                                   EXCEPT !.inflight[i] = Without(@, r), !.wire[i] = Without(@, r)], "memcached", r)
ReaderFails(i) ==
    /\ th.rd[i] = "recv" /\ th.broken[i]
    /\ th' = [th EXCEPT !.rd[i] = "flush"]
\* send error to all the reqs in-flight, one after the other, while the loop may take some already; a request that the
\* writer inserts in between is one that it inserts before the reader takes the mutex of the connection
ReaderFlushes(i) ==
    /\ th.rd[i] = "flush"
    /\ th' = IF th.inflight[i] = <<>> THEN [th EXCEPT !.rd[i] = "stop"]
             ELSE SendMessage([th EXCEPT !.inflight[i] = Tail(@)], "memcached", Head(th.inflight[i]))
ReaderStopsWriter(i) ==
    /\ th.rd[i] = "stop"
    /\ th' = [th EXCEPT !.exit[i] = TRUE, !.rd[i] = "broadcast"]
ReaderBroadcasts(i) ==
    /\ th.rd[i] = "broadcast" /\ ContextIsFree
    /\ th' = [th EXCEPT !.rd[i] = "join", !.wr = [j \in Conns |-> IF th.wr[j] = "wait" THEN "woken" ELSE th.wr[j]]]
\* pthread_join, and the end of reader_main: the connection is gone with what its list still holds
ReaderJoins(i) ==
    /\ th.rd[i] = "join" /\ th.wr[i] = "gone" /\ ContextIsFree
    /\ th' = [th EXCEPT !.rd[i] = IF th.connected = 1 THEN "discard" ELSE "connect", !.wr[i] = "none", !.connected = @ - 1,
                        !.lost = @ \cup Range(th.inflight[i])]
\* discard all the pending requests if no connections are alive
ReaderDiscards(i) ==
    /\ th.rd[i] = "discard"
    /\ th' = IF th.pending = <<>> THEN [th EXCEPT !.rd[i] = "connect"]
             ELSE DiscardReq([th EXCEPT !.pending = Tail(@)], Head(th.pending))

-----------------------------------------------------------------------------
(* The lookup threads.                                                     *)

\* create_lookup_thread_if_necessary; a new thread counts as idle until it runs
CreateLookupThread(c) ==
    IF c.idle # 0 \/ c.names = <<>> \/ \A t \in Lookups : c.lt[t] # "none" THEN c
    ELSE [c EXCEPT !.idle = @ + 1, !.lt[CHOOSE t \in Lookups : c.lt[t] = "none"] = "woken"]
SleepingLookups(c) == {t \in Lookups : c.lt[t] = "wait"}
SignalLookup(c) == IF SleepingLookups(c) = {} THEN {c} ELSE {[c EXCEPT !.lt[t] = "woken"] : t \in SleepingLookups(c)}

Getaddr(r) ==
    /\ r \in Names /\ r \in th.scene.ops /\ th.req[r].st = "idle" /\ LoopMayCall
    /\ th' \in SignalLookup(CreateLookupThread([th EXCEPT !.req[r] = [st |-> "live", cb |-> TRUE, calls |-> 0], !.names = Append(@, r)]))
GetaddrCancel(r) ==
    /\ r \in Names /\ th.req[r].cb /\ LoopMayCall
    /\ th' = IF In(r, th.names) THEN [th EXCEPT !.names = Without(@, r), !.req[r] = [st |-> "freed", cb |-> FALSE, calls |-> 0]]
             ELSE [th EXCEPT !.req[r].cb = FALSE]

\* lookup_thread_main between two uses of the mutex
LookupTakes(c, t) ==
    IF c.names = <<>> THEN [c EXCEPT !.idle = @ + 1, !.lt[t] = "wait"]
    ELSE CreateLookupThread([c EXCEPT !.lt[t] = "lookup", !.looked[t] = Head(c.names), !.names = Tail(@)])
LookupLoops(t) ==
    \/ th.lt[t] = "woken" /\ th' = LookupTakes([Asserted(th, th.idle > 0, "num_threads_idle") EXCEPT !.idle = @ - 1], t)
    \/ th.lt[t] = "relock" /\ th' = LookupTakes(th, t)
\* getaddrinfo and the answer, right or wrong
LookupResponds(t) ==
    /\ th.lt[t] = "lookup"
    /\ th' = SendMessage([Asserted(th, Live(th, th.looked[t]), "lookup of a freed request") EXCEPT !.lt[t] = "relock", !.looked[t] = 0],
                         "hostinfo", th.looked[t])

-----------------------------------------------------------------------------
(* The error reporter, which any loop's thread may call; its timer is put  *)
(* in the loop of the thread that saw the first error of a period.         *)

RecordError ==
    /\ th.errors < th.scene.errors
    /\ th' = IF th.rep.cur = 0
             THEN [Asserted(th, th.rep.timer # "linked", "reporter->_timer") EXCEPT
                      !.errors = @ + 1, !.rep = [cur |-> 1, timer |-> "linked", data |-> th.errors + 1, told |-> @.told]]
             ELSE [th EXCEPT !.errors = @ + 1, !.rep = [cur |-> @.cur + 1, timer |-> @.timer, data |-> th.errors + 1, told |-> @.told]]
ReporterExpires ==
    /\ th.rep.timer = "linked"
    /\ th' = [th EXCEPT !.rep.timer = "fired"]
ReporterOnTimeout ==
    /\ th.rep.timer = "fired"
    /\ th' = [th EXCEPT !.rep = [cur |-> 0, timer |-> "none", data |-> @.data, told |-> @.told + @.cur]]

-----------------------------------------------------------------------------

Init ==
    \E scene \in Scenes :
        th = [scene |-> scene, failed |-> {}, breaks |-> 0, errors |-> 0,
              msgs |-> [rcv \in Receivers |-> <<>>], active |-> <<>>, unsent |-> 0, efd |-> FALSE, loop |-> "poll", batch |-> <<>>,
              req |-> [r \in Ids |-> [st |-> "idle", cb |-> FALSE, calls |-> 0]],
              pending |-> <<>>, connected |-> 0, rd |-> [i \in Conns |-> "connect"], wr |-> [i \in Conns |-> "none"],
              held |-> [i \in Conns |-> 0], inflight |-> [i \in Conns |-> <<>>], wire |-> [i \in Conns |-> <<>>],
              exit |-> [i \in Conns |-> FALSE], broken |-> [i \in Conns |-> FALSE], lost |-> {},
              names |-> <<>>, idle |-> 0, lt |-> [t \in Lookups |-> "none"], looked |-> [t \in Lookups |-> 0],
              rep |-> [cur |-> 0, timer |-> "none", data |-> 0, told |-> 0]]

WriterSteps == \E i \in Conns : WriterChecks(i) \/ WriterTakes(i) \/ WriterInserts(i) \/ WriterSends(i)
ReaderSteps ==
    \E i \in Conns : \/ Connect(i) \/ Count(i) \/ ReaderReceives(i) \/ ReaderFails(i) \/ ReaderFlushes(i)
                     \/ ReaderStopsWriter(i) \/ ReaderBroadcasts(i) \/ ReaderJoins(i) \/ ReaderDiscards(i)
LookupSteps == \E t \in Lookups : LookupLoops(t) \/ LookupResponds(t)
LoopSteps == WriteEventfd \/ OnRead \/ QueueCb \/ Receive
Calls == \E r \in Ids : Dispatch(r) \/ CancelGet(r) \/ Getaddr(r) \/ GetaddrCancel(r)
Reports == RecordError \/ ReporterExpires \/ ReporterOnTimeout
Breaks == \E i \in Conns : ConnectionBreaks(i)

Step == WriterSteps \/ ReaderSteps \/ LookupSteps \/ LoopSteps \/ Calls \/ Reports \/ Breaks
Next == th.failed = {} /\ Step
\* every thread runs on; nobody has to call, and connections need not break
Fairness == WF_th(WriterSteps) /\ WF_th(ReaderSteps) /\ WF_th(LookupSteps) /\ WF_th(LoopSteps) /\ WF_th(ReporterExpires \/ ReporterOnTimeout)
Spec == Init /\ [][Next]_th

-----------------------------------------------------------------------------

\* the flush of a broken connection answers a request that its writer is still sending
KnownFailures == {"request used after free"}

\* No assertion fails, no request is freed twice or answered after it was freed.
NoAssertionFails == th.failed \subseteq KnownFailures

\* A request is called back at most once.
AnsweredOnce == \A r \in Ids : th.req[r].calls <= 1

\* A message that waits will be seen: the eventfd is readable, about to be written, or the loop is still going over its receivers.
MessagesAreSeen == (\E rcv \in Receivers : th.msgs[rcv] # <<>>) => (th.efd \/ th.unsent > 0 \/ th.loop # "poll")

\* The lookup threads that sleep leave no name behind, and num_threads_idle counts the ones that are not busy.
LookupsDoNotSleepOnWork ==
    /\ th.idle = Cardinality({t \in Lookups : th.lt[t] \in {"wait", "woken"}})
    /\ th.names # <<>> => \E t \in Lookups : th.lt[t] \notin {"none", "wait"}
    /\ (Len(th.names) > 0 /\ \A t \in Lookups : th.lt[t] \in {"none", "wait", "lookup"}) => \A t \in Lookups : th.lt[t] = "lookup"

\* Every error is reported, or waits for the timer.
ErrorsAreReported == th.rep.told + th.rep.cur = th.errors /\ (th.rep.cur > 0 <=> th.rep.timer # "none")

\* Every request that was made is answered or given back in the end.
EveryRequestEnds == \A r \in Ids : [](Live(th, r) => <>(~Live(th, r)))

\* The flush of a broken connection leaves no request behind.
NobodyIsForgotten == \A r \in th.lost : ~Live(th, r)

\* A reader that waits for its writer has woken it.
WriterIsWoken == \A i \in Conns : th.rd[i] = "join" => th.wr[i] # "wait"
=============================================================================
