--------------------------- MODULE StatusHandler ----------------------------
(***************************************************************************)
(* lib/handler/status.c and the handlers under lib/handler/status/: a      *)
(* request for /json has every thread add its part to a collector, thread  *)
(* by thread, and the last one send the collector back to the thread of    *)
(* the request.  One message type serves both ways: the counter of the     *)
(* threads that remain tells which it is.                                  *)
(*                                                                         *)
(* Of the counters of a thread, its number of events stands for those that *)
(* are added up, its largest sentmap for the one whose maximum is taken.   *)
(***************************************************************************)
EXTENDS Integers, Sequences, FiniteSets, SequencesExt

CONSTANTS Threads, Cols,  \* worker threads; collectors, one for each request
          Scenes          \* [show, live, stat, logger, origin, closes, disposes]

VARIABLE st

Asserted(c, ok, name) == IF ok THEN c ELSE [c EXCEPT !.failed = @ \cup {name}]
Handlers == <<"requests", "events", "ssl", "durations", "memory">>
NoCol == [phase |-> "none", left |-> 0, refs |-> 0, entries |-> FALSE, req |-> FALSE, asked |-> {}, reqs |-> <<>>, sum |-> 0, peak |-> 0,
          full |-> 0, latency |-> <<>>, chunks |-> 0, pieces |-> <<>>]
Idle == [col |-> 0, next |-> 0]

-----------------------------------------------------------------------------
(* The part of a thread, under the mutex of each handler.                  *)

Active(c, h) == h \in c.scene.show
Stat(c, t) == c.scene.stat[t]
\* requests_status_per_thread: the elements of the thread, each after a comma, which the very first one loses
Elements(c, t) == [i \in 1..c.scene.live[t] |-> <<"comma", t>>]
Uncommaed(q) == IF q = <<>> THEN q ELSE <<<<"none", q[1][2]>>>> \o Tail(q)
RequestsPerThread(c, k, t) ==
    [c EXCEPT !.col[k].reqs = @ \o IF @ = <<>> THEN Uncommaed(Elements(c, t)) ELSE Elements(c, t)]
\* events_status_per_thread
EventsPerThread(c, k, t) ==
    [c EXCEPT !.col[k].sum = @ + Stat(c, t), !.col[k].peak = IF @ < Stat(c, t) THEN Stat(c, t) ELSE @]
SslPerThread(c, k, t) == [c EXCEPT !.col[k].full = @ + Stat(c, t)]
DurationsPerThread(c, k, t) == IF c.scene.logger THEN [c EXCEPT !.col[k].latency = Append(@, t)] ELSE c
MemoryPerThread(c, k, t) == [c EXCEPT !.col[k].chunks = @ + Stat(c, t)]
PerThread(c, k, t, h) ==
    CASE h = "requests" -> RequestsPerThread(c, k, t) [] h = "events" -> EventsPerThread(c, k, t)
      [] h = "ssl" -> SslPerThread(c, k, t) [] h = "durations" -> DurationsPerThread(c, k, t) [] OTHER -> MemoryPerThread(c, k, t)

Send(c, t, k) == [c EXCEPT !.inbox[t] = Append(@, k)]
\* collect_reqs_of_context: a handler at a time; the entries are in the pool of the request
CollectStep(c, t, k, h) ==
    LET d == [Asserted(c, c.col[k].entries, "status_ctx of a request that is gone") EXCEPT !.busy[t].next = @ + 1]
    IN  IF Active(c, h) THEN PerThread(d, k, t, h) ELSE d
\* and the atomic decrement after the last one
\* mutant: the thread that finds one more to go takes itself for the last
CountDownEarly(c, t, k) ==
    LET d == [c EXCEPT !.busy[t] = Idle, !.col[k].left = @ - 1]
    IN  IF c.col[k].left = 2 THEN Send(d, c.scene.origin[k], k) ELSE d
CountDown(c, t, k) ==
    LET d == [c EXCEPT !.busy[t] = Idle, !.col[k].left = @ - 1]
    IN  IF c.col[k].left = 1 THEN Send(d, c.scene.origin[k], k) ELSE d

-----------------------------------------------------------------------------
(* The collector.                                                          *)

\* h2o_mem_release_shared
ReleaseCol(c, k) == IF c.col[k].refs > 1 THEN [c EXCEPT !.col[k].refs = @ - 1] ELSE [c EXCEPT !.col[k].refs = 0, !.col[k].phase = "freed"]
\* the final function of a handler: its text starts with a comma
Final(c, h) == <<"comma", h>>
Shown(c) == SelectSeq(Handlers, LAMBDA h : Active(c, h))
\* "requests come in with a leading coma, replace if with a space"
Pieces(c) == Uncommaed([i \in DOMAIN Shown(c) |-> Final(c, Shown(c)[i])])
\* send_response
SendResponse(c, k) ==
    IF ~c.col[k].req THEN ReleaseCol(c, k)
    ELSE ReleaseCol([Asserted(c, c.col[k].phase = "open", "h2o_start_response") EXCEPT !.col[k].phase = "sent", !.col[k].pieces = Pieces(c)], k)
\* on_collect_notify, for the first message
Notified(c, t, k) ==
    IF c.col[k].left # 0 THEN [c EXCEPT !.busy[t] = [col |-> k, next |-> 1]] ELSE SendResponse(c, k)
Notify == \E t \in Threads :
    /\ st.busy[t].col = 0 /\ st.inbox[t] # <<>>
    /\ st' = Notified([st EXCEPT !.inbox[t] = Tail(@)], t, Head(st.inbox[t]))
Collect == \E t \in Threads :
    /\ st.busy[t].col # 0
    /\ st' = IF st.busy[t].next <= Len(Handlers) THEN CollectStep(st, t, st.busy[t].col, Handlers[st.busy[t].next])
             ELSE CountDown(st, t, st.busy[t].col)
\* on_req_json
Broadcast(c, k) == FoldLeft(LAMBDA d, t : IF t \in c.alive THEN Send(d, t, k) ELSE Asserted(d, FALSE, "message to a receiver that is gone"), c, c.receivers)
OnReqJson == \E k \in Cols :
    /\ st.col[k].phase = "none" /\ st.scene.origin[k] \in st.alive /\ st.busy[st.scene.origin[k]].col = 0
    /\ st' = Broadcast([st EXCEPT !.col[k] = [NoCol EXCEPT !.phase = "open", !.left = Len(st.receivers), !.refs = 2, !.entries = TRUE, !.req = TRUE,
                                              !.asked = st.alive]], k)
\* on_req_close: the request ends, or its client goes away; its pool goes with it
OnReqClose == \E k \in Cols :
    /\ st.col[k].req /\ st.busy[st.scene.origin[k]].col = 0 /\ (st.col[k].phase = "sent" \/ st.scene.closes)
    /\ st' = ReleaseCol([st EXCEPT !.col[k].req = FALSE, !.col[k].entries = FALSE], k)
\* on_context_dispose: the memmove goes from entries + i to entries + i + 1
IndexOf(c, t) == CHOOSE i \in DOMAIN c.receivers : c.receivers[i] = t
Shifted(q, i) == [j \in 1..(Len(q) - 1) |-> IF j <= i THEN q[j] ELSE q[j - 1]]
OnContextDispose == \E t \in Threads :
    /\ t \in st.scene.disposes \cap st.alive /\ st.busy[t].col = 0 /\ st.inbox[t] = <<>> /\ \A k \in Cols : st.col[k].phase \in {"none", "freed"}
    /\ st' = [Asserted(st, t \in ToSet(st.receivers), "i != self->receivers.size") EXCEPT
                !.alive = @ \ {t}, !.receivers = IF t \in ToSet(@) THEN Shifted(@, IndexOf(st, t)) ELSE @]

Start(s) ==
    [alive |-> Threads, receivers |-> SetToSortSeq(Threads, <), inbox |-> [t \in Threads |-> <<>>], busy |-> [t \in Threads |-> Idle],
     col |-> [k \in Cols |-> NoCol], scene |-> s, failed |-> {}]
Init == \E s \in Scenes : st = Start(s)
Step == Notify \/ Collect \/ OnReqJson \/ OnReqClose \/ OnContextDispose
Next == st.failed = {} /\ Step

-----------------------------------------------------------------------------
(* Properties.                                                             *)

\* No assertion of status.c fails, and no collector is used after it was freed.
NoAssertionFails == st.failed = {}

\* what a response reports has the part of every thread in it, once, however the threads interleave
Sum(k) == FoldLeft(LAMBDA n, t : n + Stat(st, t), 0, SetToSeq(st.col[k].asked))
Peak(k) == CHOOSE n \in {Stat(st, t) : t \in st.col[k].asked} : \A t \in st.col[k].asked : Stat(st, t) <= n
\* A report that is sent has the share of every thread that was asked, once
\* (on_collect_notify).
ReportIsComplete == \A k \in Cols : st.col[k].phase = "sent" =>
    /\ Active(st, "events") => st.col[k].sum = Sum(k) /\ st.col[k].peak = Peak(k)
    /\ Active(st, "ssl") => st.col[k].full = Sum(k)
    /\ Active(st, "memory") => st.col[k].chunks = Sum(k)
    /\ Active(st, "requests") => \A t \in st.col[k].asked : Len(SelectSeq(st.col[k].reqs, LAMBDA e : e[2] = t)) = st.scene.live[t]
    /\ Active(st, "durations") /\ st.scene.logger => ToSet(st.col[k].latency) = st.col[k].asked

\* "collector is also retained by the on_req_close callback": what a thread collects into outlives its use of it
CollectorOutlivesThreads == \A t \in Threads :
    st.busy[t].col # 0 /\ st.busy[t].next <= Len(Handlers) => st.col[st.busy[t].col].entries

\* both lists of the response, the elements of "requests" and the members of the object, have commas between them and only there
WellSeparated(q) == \A i \in DOMAIN q : (q[i][1] = "comma") <=> (i > 1)
\* There is a comma between two items and nowhere else, whichever threads have
\* requests (requests_status_per_thread, requests_status_final).
ResponseIsJson == \A k \in Cols : WellSeparated(st.col[k].reqs) /\ WellSeparated(st.col[k].pieces)

\* a collector that is not freed is on its way: some thread has it, or some thread has a message about it
InHand(k) == \E t \in Threads : st.busy[t].col = k \/ k \in ToSet(st.inbox[t])
\* A collection that was not sent is with some thread that will go on with it.
CollectorsEnd == \A k \in Cols : st.col[k].phase = "open" => InHand(k)
=============================================================================
