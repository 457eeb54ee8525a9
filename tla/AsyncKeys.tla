----------------------------- MODULE AsyncKeys ------------------------------
(***************************************************************************)
(* src/main.c, async_nb_*: the private key operations of a thread, sent to *)
(* the neverbleed process over one socket.  A transaction is a "job" of    *)
(* picotls or BoringSSL, a "fiber" that OpenSSL has paused, a "mute" one   *)
(* that has no response, or a "sync" one, which blocks the thread.  The    *)
(* process answers in the order it is asked; a response tells whose it is, *)
(* though the code has no way to see it.                                   *)
(***************************************************************************)
EXTENDS Integers, Sequences, FiniteSets, SequencesExt

CONSTANTS Txs,
          MaxInFlight, \* NEVERBLEED_MAX_IN_FLIGHT_TX
          Scenes       \* [kinds, half, overlap]: the kind of each transaction, whether a write may be partial, and whether
                       \* a synchronous transaction may come while the socket is writing

VARIABLE nb

\* what is supposed of the constants: transactions are of these kinds, and a synchronous one does not meet a socket that writes
ConstantsOK ==
    /\ MaxInFlight \in Nat \ {0}
    /\ \A s \in Scenes : s.overlap = FALSE /\ \A t \in Txs : s.kinds[t] \in {"job", "fiber", "mute", "sync"}

Asserted(c, ok, name) == IF ok THEN c ELSE [c EXCEPT !.failed = @ \cup {name}]
Kind(c, t) == c.scene.kinds[t]
Linked(c, t) == t \in ToSet(c.wq) \cup ToSet(c.rq)

-----------------------------------------------------------------------------
(* The queues.                                                             *)

\* async_nb_push, on the write queue
PushWrite(c, t) == [Asserted(c, ~Linked(c, t), "push: linked") EXCEPT !.wq = Append(@, t), !.st[t] = "queued"]
\* async_nb_submit_write_pending: h2o_socket_write sends what the socket takes and calls back later
Submit(c) == IF Len(c.rq) < MaxInFlight /\ c.write = "no" /\ c.wq # <<>> THEN [c EXCEPT !.write = "new"] ELSE c
\* async_nb_on_write_complete
WriteDone(c, t) ==
    IF Kind(c, t) = "mute" THEN [c EXCEPT !.st[t] = "done"]
    ELSE [c EXCEPT !.rq = Append(@, t), !.st[t] = "awaiting", !.reading = TRUE]
OnWriteComplete(c) == Submit(WriteDone([c EXCEPT !.wq = Tail(@), !.write = "no"], Head(c.wq)))

\* on_read_complete: the completion callback of the job, which finishes it (async_nb_picotls_sign called again), or
\* async_nb_notify_fd, which has the event loop resume the fiber
ReadComplete(c, t) ==
    IF Kind(c, t) = "job" THEN [Asserted(c, c.callback[t], "ctx->on_complete.func != NULL") EXCEPT !.st[t] = "done"]
    ELSE [c EXCEPT !.st[t] = "notified"]
\* async_nb_run_sync, neverbleed_transaction_read: blocks until there is a response, and takes it whoever it is for
Take(c, t) == [c EXCEPT !.resp = Tail(@), !.got[t] = Head(c.resp)]
\* one turn of the loop of async_nb_read_ready; the rest of it when the loop ends
ReadOne(c) == ReadComplete(Take([c EXCEPT !.rq = Tail(@)], Head(c.rq)), Head(c.rq))
ReadStop(c) == IF c.rq = <<>> THEN [c EXCEPT !.reading = FALSE] ELSE c
LeaveRead(c, back) == ReadStop(Submit([c EXCEPT !.loop = back]))
\* "if the neverbleed fd is read ready, continue reading transactions"
AfterOne(c, back) == IF c.rq # <<>> /\ c.resp # <<>> THEN c ELSE LeaveRead(c, back)

-----------------------------------------------------------------------------
(* What the handshakes of the thread ask for.  c.loop is where the thread  *)
(* is: "idle" in its event loop, "read" in async_nb_read_ready called by   *)
(* it, "drain", "write" and "take" in a synchronous transaction.           *)

New(c, t) == c.st[t] = "new"
\* async_nb_picotls_sign and async_nb_job_submit; the handshake then sets the callback, before it returns to the loop
Sign == \E t \in Txs :
    /\ New(nb, t) /\ Kind(nb, t) = "job" /\ nb.loop \in {"idle", "read"}
    /\ nb' = [Submit(PushWrite(nb, t)) EXCEPT !.callback[t] = TRUE]
\* async_nb_do_async_transaction, until ASYNC_pause_job
Pause == \E t \in Txs :
    New(nb, t) /\ Kind(nb, t) = "fiber" /\ nb.loop = "idle" /\ nb' = Submit(PushWrite(nb, t))
\* and after it
Resume == \E t \in Txs :
    /\ nb.st[t] = "notified" /\ nb.loop = "idle"
    /\ nb' = [Asserted(nb, ~Linked(nb, t), "fiber: linked") EXCEPT !.st[t] = "done"]
\* async_nb_transaction without a response
Mute == \E t \in Txs :
    New(nb, t) /\ Kind(nb, t) = "mute" /\ nb.loop = "idle" /\ nb' = Submit(PushWrite(nb, t))
\* async_nb_transaction, synchronously: "at first reading all pending reads"
Sync == \E t \in Txs :
    /\ New(nb, t) /\ Kind(nb, t) = "sync" /\ nb.loop = "idle" /\ (nb.scene.overlap \/ nb.wq = <<>>)
    /\ nb' = [nb EXCEPT !.st[t] = "queued", !.loop = IF nb.rq # <<>> THEN "drain" ELSE "write"]
Drain == /\ nb.loop = "drain" /\ nb.resp # <<>>
         /\ nb' = AfterOne(ReadOne(nb), IF Len(nb.rq) > 1 THEN "drain" ELSE "write")
SyncTx == CHOOSE t \in Txs : Kind(nb, t) = "sync" /\ nb.st[t] = "queued"
\* neverbleed_transaction_write on the same file descriptor, whatever the socket has written of another request
SyncWrite == /\ nb.loop = "write"
             /\ nb' = [Asserted(nb, nb.write # "half", "request inside another one") EXCEPT !.wire = Append(@, SyncTx), !.loop = "take"]
SyncRead == /\ nb.loop = "take" /\ nb.resp # <<>>
            /\ nb' = [Take(nb, SyncTx) EXCEPT !.st[SyncTx] = "done", !.loop = "idle"]

-----------------------------------------------------------------------------
(* The event loop, and the process at the other end.                       *)

\* h2o_socket_write writes at once; the rest and the callback come in later turns of the loop
Whole(c) == [c EXCEPT !.write = "whole", !.wire = Append(@, Head(c.wq))]
Write == \/ nb.write = "new" /\ nb' = Whole(nb)
         \/ nb.write = "new" /\ nb.scene.half /\ nb' = [nb EXCEPT !.write = "half"]
         \/ nb.write = "half" /\ nb.loop = "idle" /\ nb' = Whole(nb)
Written == nb.loop = "idle" /\ nb.write = "whole" /\ nb' = OnWriteComplete(nb)
ReadReady == nb.loop = "idle" /\ nb.reading /\ nb.resp # <<>> /\ nb' = [nb EXCEPT !.loop = "read"]
ReadLoop == nb.loop = "read" /\ nb.resp # <<>> /\ nb' = AfterOne(ReadOne(nb), "idle")
Answer(c, t) == IF Kind(c, t) = "mute" THEN c ELSE [c EXCEPT !.resp = Append(@, t)]
Serve == nb.wire # <<>> /\ nb' = Answer([nb EXCEPT !.wire = Tail(@)], Head(nb.wire))

\* run_loop
Start(s) ==
    [wq |-> <<>>, rq |-> <<>>, write |-> "no", reading |-> FALSE, wire |-> <<>>, resp |-> <<>>, loop |-> "idle",
     st |-> [t \in Txs |-> "new"], callback |-> [t \in Txs |-> FALSE], got |-> [t \in Txs |-> 0], scene |-> s, failed |-> {}]
Init == \E s \in Scenes : nb = Start(s)
Step == \/ Write
        \/ nb.write # "new" /\ (Sign \/ Pause \/ Resume \/ Mute \/ Sync \/ Drain \/ SyncWrite \/ SyncRead)
        \/ nb.write # "new" /\ (Written \/ ReadReady \/ ReadLoop \/ Serve)
Next == nb.failed = {} /\ Step
Spec == Init /\ [][Next]_nb

-----------------------------------------------------------------------------
(* Properties.                                                             *)

\* No assertion of main.c's async_nb functions fails, and nothing is used after
\* it was freed.
NoAssertionFails == nb.failed = {}

\* the result a handshake signs with is the one it asked for, in whatever order requests and responses cross
AnswersMatch == \A t \in Txs : nb.got[t] \in {0, t}

\* the limit that keeps the process from blocking on its responses, and with it the thread
Expected == {t \in ToSet(nb.wire \o nb.resp) : Kind(nb, t) \notin {"mute", "sync"}}
\* At most neverbleed's limit of answers is awaited at a time (main.c,
\* async_nb_submit_write_pending).
InFlightIsBounded == Cardinality(Expected) <= MaxInFlight

\* while a transaction is not done, the loop waits for the event that takes it on
WaitsForEvent ==
    nb.loop = "idle" =>
        /\ nb.wq # <<>> => nb.write # "no" \/ Len(nb.rq) >= MaxInFlight
        /\ nb.rq # <<>> => nb.reading
        /\ nb.wire \o nb.resp # <<>> => nb.reading \/ nb.write = "whole" \/ \A i \in DOMAIN nb.wire : Kind(nb, nb.wire[i]) = "mute"
=============================================================================
