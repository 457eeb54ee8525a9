------------------------------- MODULE Fastcgi -------------------------------
(***************************************************************************)
(* The FastCGI handler (lib/handler/fastcgi.c): a request written as       *)
(* records to an application, and the records of its response turned into  *)
(* a response of the server.                                               *)
(*                                                                         *)
(* The application's records are drawn from the scene, one or two in one   *)
(* read.  A STDOUT record tells what of the header it holds and how many   *)
(* bytes of the body follow.  `got` are the bytes of the body received,    *)
(* `sent` those that were passed on; `len` is the content-length.          *)
(***************************************************************************)
EXTENDS Integers, Sequences, FiniteSets, SequencesExt

CONSTANTS
    MaxRecord,      \* the longest record: 65535
    MaxReads,       \* bound on the reads from the application
    ChunkSize,      \* req->preferred_chunk_size
    Scenes

VARIABLE fc

-----------------------------------------------------------------------------

Asserted(c, ok, name) == IF ok THEN c ELSE [c EXCEPT !.failed = @ \cup {name}]
Can(event) == event \in fc.scene.events
Unknown == -1       \* SIZE_MAX
Least(a, b) == IF a < b THEN a ELSE b

-----------------------------------------------------------------------------
(* The request.  An element is the header of a record, or a block of its   *)
(* content, with its size.                                                 *)

Header(n) == [head |-> TRUE, size |-> n]
Block(n) == [head |-> FALSE, size |-> n]

\* annotate_params: vecs[slot] is kept for the header of the record being filled
RECURSIVE Annotate(_, _, _, _)
AnnotateEnd(vecs, slot, recsize) ==
    IF recsize # 0 THEN Append([vecs EXCEPT ![slot] = Header(recsize)], Header(0)) ELSE [vecs EXCEPT ![slot] = Header(0)]
Annotate(vecs, index, recsize, slot) ==
    IF index > Len(vecs) THEN AnnotateEnd(vecs, slot, recsize)
    ELSE LET size == vecs[index].size
             full == [vecs EXCEPT ![slot] = Header(MaxRecord)]
             room == MaxRecord - recsize
         IN  IF size < room THEN Annotate(vecs, index + 1, recsize + size, slot)
             ELSE IF size = room
             THEN Annotate(SubSeq(full, 1, index) \o <<Header(0)>> \o SubSeq(full, index + 1, Len(full)), index + 2, 0, index + 1)
             ELSE Annotate(SubSeq(full, 1, index - 1) \o <<Block(room), Header(0), Block(size - room)>>
                             \o SubSeq(full, index + 1, Len(full)),
                           index + 2, 0, index + 1)

\* the STDIN records of build_request
RECURSIVE Stdin(_)
Stdin(left) ==
    IF left = 0 THEN <<Header(0)>>
    ELSE <<Header(Least(left, MaxRecord)), Block(Least(left, MaxRecord))>> \o Stdin(left - Least(left, MaxRecord))
\* build_request, without the record that begins it
BuildRequest(params, entity) ==
    [params |-> Annotate(<<Header(0)>> \o [i \in DOMAIN params |-> Block(params[i])], 2, 0, 1), stdin |-> Stdin(entity)]

-----------------------------------------------------------------------------
(* State *)

\* on_req
NewGenerator(scene) ==
    [scene |-> scene, connecting |-> TRUE, sock |-> "none", writing |-> FALSE, timer |-> "connect", wire |-> [params |-> <<>>, stdin |-> <<>>],
     headers |-> FALSE, parts |-> 0, left |-> Unknown, len |-> Unknown, receiving |-> 0, sending |-> 0, inflight |-> FALSE, flying |-> 0,
     live |-> TRUE, out |-> "none", reads |-> 0, got |-> 0, sent |-> 0, ended |-> FALSE, failed |-> {}]

\* set_timeout
SetTimeout(c) == [c EXCEPT !.timer = "io"]
\* close_generator
CloseGenerator(c) ==
    [c EXCEPT !.timer = "none", !.connecting = FALSE, !.sock = IF @ = "none" THEN @ ELSE "closed", !.writing = FALSE, !.live = FALSE]

\* h2o_send
Send(c, bytes, state) ==
    [Asserted(c, c.out = "idle", "h2o_send") EXCEPT !.out = state, !.sent = @ + bytes]

\* h2o_doublebuffer_prepare: the receiving buffer becomes the sending one when that is empty
Prepare(c) ==
    LET d == IF c.sending = 0 THEN [c EXCEPT !.sending = c.receiving, !.receiving = 0] ELSE c
        n == Least(d.sending, ChunkSize)
    IN  [Asserted(d, ~c.inflight, "h2o_doublebuffer_prepare") EXCEPT !.flying = n, !.inflight = n # 0]

\* do_send
SendPrepared(c) ==
    IF c.sock = "none" /\ c.flying = c.sending /\ c.receiving = 0
    THEN Send(c, c.flying, IF c.left \in {0, Unknown} THEN "final" ELSE "error")
    ELSE IF c.flying = 0 THEN c
    ELSE Send(c, c.flying, "sending")
DoSend(c) == SendPrepared(Prepare(c))

\* send_eos_and_close
Released(c, keepalive) ==
    [Asserted(c, keepalive => ~c.writing, "h2o_socket_export") EXCEPT !.sock = "none", !.writing = FALSE, !.timer = "none"]
SendEosAndClose(c, keepalive) ==
    LET d == Released(c, c.scene.keepalive /\ keepalive)
    IN  IF d.inflight THEN d ELSE DoSend(d)
\* errorclose
ErrorClose(c) ==
    IF c.headers THEN SendEosAndClose(c, FALSE)
    ELSE [Asserted(CloseGenerator(c), c.out = "none", "h2o_send_error_503") EXCEPT !.out = "refused"]

-----------------------------------------------------------------------------
(* Records of the response *)

\* append_content
Kept(c, len) == IF c.left = Unknown THEN len ELSE Least(c.left, len)
AppendContent(c, len) ==
    [c EXCEPT !.receiving = @ + Kept(c, len), !.left = IF c.left = Unknown THEN Unknown ELSE @ - Kept(c, len)]

\* handle_stdin_record, for a record that completes the header: what follows it in the record
\* is appended, or stays in the receiving buffer when the header was collected there
StartResponse(c, rec) ==
    [Asserted(c, c.out = "none", "h2o_start_response") EXCEPT !.headers = TRUE, !.left = rec.len, !.len = rec.len, !.out = "idle"]
HeaderComplete(c, rec) ==
    IF c.parts = 0 THEN AppendContent(StartResponse(c, rec), rec.body)
    ELSE [StartResponse(c, rec) EXCEPT !.receiving = rec.body]
HandleStdinRecord(c, rec) ==
    LET d == [c EXCEPT !.got = @ + rec.body, !.ended = @ \/ (rec.type = "out" /\ rec.head = "none" /\ rec.body = 0)]
    IN  IF c.headers THEN AppendContent(d, rec.body)
        ELSE IF rec.head = "part" THEN [d EXCEPT !.parts = @ + 1]
        ELSE HeaderComplete(d, rec)

\* the loop of on_read: goes on, or ends at EOS_Received, or at Error
RECURSIVE HandleRecords(_, _)
HandleRecords(c, recs) ==
    IF recs = <<>> THEN [c |-> c, end |-> "none"]
    ELSE LET rec == Head(recs)
         IN  CASE rec.type = "err" -> HandleRecords(c, Tail(recs))
               [] rec.type = "end" -> [c |-> c, end |-> IF c.headers THEN "keep" ELSE "error"]
               [] rec.type = "other" -> [c |-> c, end |-> IF c.headers THEN "close" ELSE "error"]
               [] rec.type = "out" ->
                    IF ~c.headers /\ rec.head = "bad" THEN [c |-> c, end |-> "error"]
                    ELSE IF ~c.headers /\ rec.head = "none" THEN HandleRecords(c, Tail(recs))
                    ELSE HandleRecords(HandleStdinRecord(c, rec), Tail(recs))

\* on_read after the loop; before: whether the header had been sent
SendIfNecessary(c, before) ==
    IF ~c.headers THEN c
    ELSE IF ~before /\ c.receiving = 0 THEN [Send(c, 0, "sending") EXCEPT !.inflight = TRUE, !.flying = 0]
    ELSE IF ~c.inflight THEN DoSend(c)
    ELSE c
AfterRecords(r, before) ==
    CASE r.end = "none" -> SetTimeout(SendIfNecessary(r.c, before))
      [] r.end = "keep" -> SendEosAndClose([r.c EXCEPT !.ended = TRUE], TRUE)
      [] r.end = "close" -> SendEosAndClose(r.c, FALSE)
      [] r.end = "error" -> ErrorClose(r.c)

-----------------------------------------------------------------------------
(* Actions *)

\* on_connect
OnConnect ==
    /\ fc.connecting
    /\ fc' = SetTimeout([fc EXCEPT !.connecting = FALSE, !.sock = "open", !.writing = TRUE,
                                   !.wire = BuildRequest(fc.scene.params, fc.scene.entity)])
OnConnectError ==
    /\ fc.connecting /\ Can("refused")
    /\ fc' = ErrorClose([fc EXCEPT !.connecting = FALSE])
\* on_send_complete; an error is left to on_read
OnSendComplete ==
    /\ fc.writing
    /\ fc' = SetTimeout([fc EXCEPT !.writing = FALSE])
OnRead(recs) ==
    /\ fc.sock = "open" /\ fc.reads < MaxReads
    /\ fc' = AfterRecords(HandleRecords([fc EXCEPT !.reads = @ + 1], recs), fc.headers)
OnReadError ==
    /\ fc.sock = "open" /\ Can("closed")
    /\ fc' = ErrorClose(fc)
\* on_connect_timeout, on_rw_timeout
OnTimeout ==
    /\ fc.timer # "none" /\ Can("timeout")
    /\ fc' = ErrorClose([fc EXCEPT !.timer = "none"])
\* do_proceed: h2o_doublebuffer_consume, do_send
DoProceed ==
    /\ fc.out = "sending"
    /\ fc' = DoSend([Asserted(fc, fc.inflight, "h2o_doublebuffer_consume") EXCEPT !.out = "idle", !.sending = @ - fc.flying,
                                                                               !.flying = 0, !.inflight = FALSE])
\* do_stop, and the disposal of the generator
DoStop ==
    /\ fc.live /\ (fc.out \in {"final", "error"} \/ Can("drop"))
    /\ fc' = [CloseGenerator(fc) EXCEPT !.out = IF @ \in {"final", "error"} THEN @ ELSE "dropped"]

Batches == UNION {[1 .. n -> fc.scene.records] : n \in 1 .. 2}
Init == \E scene \in Scenes : fc = NewGenerator(scene)
Step ==
    \/ OnConnect \/ OnConnectError \/ OnSendComplete
    \/ \E recs \in Batches : OnRead(recs)
    \/ OnReadError \/ OnTimeout \/ DoProceed \/ DoStop
Next == fc.failed = {} /\ Step

-----------------------------------------------------------------------------
(* Properties *)

\* The records written are the parameters and the entity and nothing else: each header is
\* followed by as many bytes as it says, none is too long, and the only empty record is the
\* one that ends a stream.
RECURSIVE WellFormed(_, _)
WellFormed(v, open) ==
    IF v = <<>> THEN FALSE
    ELSE IF Head(v).head
    THEN /\ open = 0
         /\ IF Head(v).size = 0 THEN Len(v) = 1 ELSE Head(v).size <= MaxRecord /\ WellFormed(Tail(v), Head(v).size)
    ELSE Head(v).size \in 1 .. open /\ WellFormed(Tail(v), open - Head(v).size)
Bytes(v) == FoldSeq(LAMBDA e, sum : sum + (IF e.head THEN 0 ELSE e.size), 0, v)
\* The records of a request carry all of its parameters and its body, each
\* stream ends with an empty record, and no record is too long.
RequestIsWellFormed ==
    fc.sock # "none" =>
        /\ WellFormed(fc.wire.params, 0) /\ WellFormed(fc.wire.stdin, 0)
        /\ Bytes(fc.wire.params) = FoldSeq(LAMBDA n, sum : sum + n, 0, fc.scene.params)
        /\ Bytes(fc.wire.stdin) = fc.scene.entity

\* No more of the body is passed on than was received, nor than the content-length, and what
\* is called complete is complete.
BodyIsIntact ==
    fc.failed = {} =>
        /\ fc.sent <= fc.got
        /\ fc.len # Unknown => fc.sent <= fc.len
        /\ fc.out = "final" => fc.sent = (IF fc.len = Unknown THEN fc.got ELSE fc.len)

\* A body of the announced length is not reported as broken.
CompleteIsNotAnError == fc.out = "error" => fc.got < fc.len

\* A response that the application did not end, of a length not announced, is not passed
\* off as complete.
TruncationIsReported == fc.out = "final" /\ fc.len = Unknown => fc.ended

\* A response that was not ended is going on: data to come or to be sent.
ResponseIsDriven ==
    fc.live /\ fc.failed = {} /\ fc.out \in {"none", "idle"} =>
        fc.connecting \/ (fc.sock = "open" /\ fc.timer # "none")

\* No assertion of fastcgi.c fails when upstream connections are not kept.
NoAssertionFails == fc.failed = {}
=============================================================================
