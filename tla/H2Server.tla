------------------------------ MODULE H2Server ------------------------------
(***************************************************************************)
(* The HTTP/2 server connection of h2o (lib/http2/connection.c,            *)
(* lib/http2/stream.c, include/h2o/http2_internal.h): frames, streams from *)
(* their HEADERS to their disposal, request bodies, the admission of       *)
(* requests, responses, server push, writes and closing.                   *)
(*                                                                         *)
(* The connection is one record `h2`; a C function is an operator from the *)
(* connection before the call to the one after it.  on_read handles any    *)
(* number of frames (phase "parse") and do_emit_writereq serves any number *)
(* of streams (phase "emit"); nothing else runs in between.  The tree that *)
(* orders the streams is in H2Scheduler: here a stream is scheduled or     *)
(* not.  Byte counts are units; the connection-level windows and the       *)
(* latency optimisation only decide how many streams a write serves.       *)
(***************************************************************************)
EXTENDS Integers, Sequences, FiniteSets, SequencesExt

CONSTANTS
    Pulls, Pushes,     \* stream IDs
    MaxRequests,       \* http2.max_concurrent_requests_per_connection
    MaxStreaming,      \* http2.max_concurrent_streaming_requests_per_connection
    MaxPriority,       \* http2.max_streams_for_priority
    MaxEntity,         \* max_request_entity_size
    SoftMax,           \* H2O_HTTP2_DEFAULT_OUTBUF_SOFT_MAX_SIZE
    DosDelay,          \* http2.dos_delay is not zero
    ShutdownWaits,     \* http2.graceful_shutdown_timeout is not zero
    Forwards,          \* h2o_req_can_stream_request, per stream
    AtOnce,            \* streams whose handler answers within the call
    Scenes             \* what the client and the process may do

VARIABLE h2

Streams == Pulls \cup Pushes
None == 0

\* What a header block can be to handle_incoming_request.
Kinds == {"get", "post", "sized", "connect", "connect_end", "expect_forward", "expect_unknown", "expect_100",
          "bad_char", "bad_pseudo", "hpack_error"}
EndsStream(kind) == kind \in {"get", "connect_end"}

StateOrder == <<"idle", "recv_headers", "recv_body", "req_pending", "send_headers", "send_body", "body_final", "end">>
Rank(state) == CHOOSE i \in DOMAIN StateOrder : StateOrder[i] = state
BodyOrder == <<"none", "before", "open", "close_queued", "delivered">>
BodyRank(b) == CHOOSE i \in DOMAIN BodyOrder : BodyOrder[i] = b
ConnOrder == <<"open", "half_closed", "closing">>

\* h2o_http2_stream_open
NewStream ==
    [reg |-> FALSE, state |-> "idle", slot |-> "priority", link |-> "none",
     \* request body: buffer, units in it, units lent to the handler (-1: none)
     hasBuf |-> FALSE, body |-> "none", buf |-> 0, entity |-> -1, received |-> 0, length |-> -1,
     streamed |-> FALSE, proceed |-> FALSE, write |-> FALSE, tunnel |-> FALSE, called |-> FALSE,
     \* response
     data |-> 0, send |-> "progress", active |-> FALSE, window |-> TRUE, promised |-> FALSE,
     blocked |-> FALSE, penal |-> FALSE, delayedRst |-> FALSE, early |-> FALSE,
     \* handler: "none", "working" (owes a response), "waiting" (for proceed), "done"
     gen |-> "none"]

Counters == [open |-> 0, half |-> 0, sending |-> 0]

\* create_conn
NewConn(scene) ==
    [st |-> [s \in Streams |-> NewStream], used |-> {}, frames |-> 0, phase |-> "idle",
     state |-> "open", alive |-> TRUE, list |-> "active", sock |-> TRUE,
     num |-> [priority |-> Counters, pull |-> Counters, push |-> Counters],
     nBlocked |-> 0, nStreaming |-> 0, nTunnel |-> 0,
     maxOpen |-> 0, maxProcessed |-> 0, pushMax |-> 0, pushStop |-> FALSE,
     expect |-> "preface", unparsed |-> [id |-> None, kind |-> "none"],
     pending |-> <<>>, toProceed |-> <<>>, early |-> <<>>, earlyData |-> FALSE, replay |-> {},
     buf |-> 0, inFlight |-> 0, connWindow |-> TRUE, notify |-> FALSE, writeTimer |-> FALSE, reading |-> TRUE,
     timer |-> FALSE, timerCb |-> FALSE, gracefulTimer |-> FALSE, gracefulCb |-> "null",
     anyRequest |-> FALSE, budget |-> MaxRequests, dos |-> FALSE, scene |-> scene, failed |-> {}]

Asserted(c, ok, name) == IF ok THEN c ELSE [c EXCEPT !.failed = @ \cup {name}]
Without(seq, x) == SelectSeq(seq, LAMBDA y : y # x)

\* the order of connection states
Below(c, state) ==
    \E i, j \in DOMAIN ConnOrder : ConnOrder[i] = c.state /\ ConnOrder[j] = state /\ i < j
IsClosing(c) == ~Below(c, "closing")
IsPush(s) == s \in Pushes

-----------------------------------------------------------------------------
(* Lists, counters, states *)

\* h2o_linklist_insert / unlink of a stream's _link
LinkTo(c, s, list) ==
    LET t == [c EXCEPT !.st[s].link = list]
    IN  CASE list = "pending" -> [t EXCEPT !.pending = Append(@, s)]
          [] list = "proceed" -> [t EXCEPT !.toProceed = Append(@, s)]
          [] OTHER -> [t EXCEPT !.early = Append(@, s)]
Unlink(c, s) ==
    [c EXCEPT !.st[s].link = "none", !.pending = Without(@, s), !.toProceed = Without(@, s), !.early = Without(@, s)]
IsLinked(c, s) == c.st[s].link # "none"

\* request_gathered_write
RequestGatheredWrite(c) ==
    LET ok == Asserted(c, ~IsClosing(c), "write while closing")
    IN  IF c.inFlight = 0 /\ ~c.notify /\ ~c.writeTimer THEN [ok EXCEPT !.writeTimer = TRUE] ELSE ok

\* h2o_http2_conn_request_write
RequestWrite(c) ==
    IF IsClosing(c) THEN c
    ELSE RequestGatheredWrite([c EXCEPT !.reading = @ /\ c.buf + c.inFlight < SoftMax])

\* a frame is put into the write buffer, and the write requested
Queue(c) == [c EXCEPT !.buf = IF @ < SoftMax THEN @ + 1 ELSE @]
Enqueue(c) == RequestWrite(Queue(c))

\* enqueue_goaway
EnqueueGoaway(c) == IF IsClosing(c) THEN c ELSE [Enqueue(c) EXCEPT !.state = "half_closed"]

\* stream_send_error
StreamSendError(c) == Enqueue(Asserted(c, ~IsClosing(c), "rst while closing"))

\* h2o_http2_stream_set_blocked_by_server
SetBlocked(c, s, on) ==
    [Asserted(c, c.st[s].blocked # on, "blocked_by_server") EXCEPT
        !.st[s].blocked = on, !.nBlocked = IF on THEN @ + 1 ELSE @ - 1]
Block(c, s) == IF c.st[s].blocked THEN c ELSE SetBlocked(c, s, TRUE)
Unblock(c, s) == IF c.st[s].blocked THEN SetBlocked(c, s, FALSE) ELSE c

\* the connection moves to the idle or to the active list, unless the timer of a
\* graceful shutdown runs
UpdateConnList(c) ==
    LET inflight == c.num["pull"].open + c.num["pull"].half + c.num["push"].open + c.num["push"].half
    IN  IF c.gracefulTimer THEN c
        ELSE [c EXCEPT !.list = IF c.anyRequest /\ inflight = 0 THEN "idle" ELSE "active"]

\* h2o_http2_stream_set_state
Counted(c, s, new) ==
    LET st == c.st[s]
        mine == IF IsPush(s) THEN "push" ELSE "pull"
        sending == st.state \in {"send_body", "body_final"}
    IN  CASE new = "recv_headers" ->
                [Asserted(c, st.state = "idle", "recv_headers") EXCEPT
                    !.num[st.slot].open = @ - 1, !.num[mine].open = @ + 1, !.st[s].slot = mine]
          [] new = "send_headers" ->
                [Asserted(c, st.state = "req_pending", "send_headers") EXCEPT !.num[st.slot].half = @ + 1]
          [] new = "send_body" ->
                [Asserted(c, st.state = "send_headers", "send_body") EXCEPT !.num[st.slot].sending = @ + 1]
          [] new = "body_final" -> Asserted(c, st.state = "send_body", "body_final")
          [] new = "end" ->
                Unblock([Asserted(c, st.state # "end", "end twice") EXCEPT
                            !.num[st.slot].open = @ - 1,
                            !.num[st.slot].half = IF st.state = "send_headers" \/ sending THEN @ - 1 ELSE @,
                            !.num[st.slot].sending = IF sending THEN @ - 1 ELSE @,
                            !.st[s].slot = "none"], s)
          [] OTHER -> c
SetState(c, s, new) ==
    IF c.st[s].slot = "none" THEN Asserted(c, FALSE, "state of an ended stream")
    ELSE UpdateConnList([Counted(c, s, new) EXCEPT !.st[s].state = new])

\* set_req_body_state
SetBody(c, s, new) ==
    LET st == c.st[s]
        back == new = "delivered" /\ st.streamed
    IN  [Asserted(Asserted(c, BodyRank(st.body) < BodyRank(new), "req_body.state"),
                  new = "delivered" => ~st.proceed, "delivered: proceed_req") EXCEPT
            !.st[s].body = new,
            !.nStreaming = IF back THEN @ - 1 ELSE @,
            !.nTunnel = IF back /\ st.tunnel THEN @ - 1 ELSE @]

\* `req.proceed_req = NULL` and the end of the request body
Delivered(c, s) == SetBody([c EXCEPT !.st[s].proceed = FALSE], s, "delivered")

\* update_idle_timeout
UpdateIdleTimeout(c) ==
    IF c.inFlight # 0 THEN Asserted(c, c.timer, "write timeout")
    ELSE IF ~c.earlyData /\ c.nBlocked # 0 THEN [c EXCEPT !.timer = FALSE]
    ELSE [c EXCEPT !.timer = TRUE, !.timerCb = TRUE]

-----------------------------------------------------------------------------
(* Responses *)

\* h2o_http2_conn_register_for_proceed_callback
RegisterForProceed(c, s) ==
    LET st == c.st[s]
        toSend == st.data # 0 \/ Rank(st.state) >= Rank("body_final")
    IN  RequestWrite(IF ~toSend THEN LinkTo(c, s, "proceed")
                     ELSE IF ~st.window THEN c
                     ELSE [Asserted(c, ~IsLinked(c, s), "activate: linked") EXCEPT !.st[s].active = TRUE])

\* request_write_and_close
LinkForProceed(c, s) == IF IsLinked(c, s) THEN c ELSE LinkTo(c, s, "proceed")
RequestWriteAndClose(c, s) ==
    RequestWrite(LinkForProceed([SetState(c, s, "end") EXCEPT !.st[s].active = FALSE], s))

\* h2o_http2_stream_send_push_promise
SendPushPromise(c, s) ==
    [Queue(Asserted(c, ~c.st[s].promised, "promise_sent")) EXCEPT !.st[s].promised = TRUE]

\* send_headers: a push whose response is an error (or is fresh in the client's
\* cache) is cancelled
CancelPush(c, s) ==
    IF ~c.st[s].promised THEN LinkTo(SetState(c, s, "end"), s, "proceed")
    ELSE Enqueue([LinkTo(SetState(c, s, "end"), s, "proceed") EXCEPT !.st[s].penal = TRUE])
SendHeaders(c, s) ==
    LET t == IF IsPush(s) /\ ~c.st[s].promised THEN SendPushPromise(c, s) ELSE c
    IN  SetState(Enqueue(t), s, "send_body")

\* h2o_http2_conn_register_for_replay
RegisterForReplay(c, s) ==
    IF c.earlyData THEN LinkTo(c, s, "early") ELSE [c EXCEPT !.replay = @ \cup {s}]

\* The ways a handler answers: a piece of the body, the end of it with and
\* without data, an error in the middle, an error response (which cancels a
\* push), "refused by the upstream", and 425.
Answers == {"piece", "last", "empty", "abort", "error", "refused", "too_early"}
SendState(answer) ==
    CASE answer = "piece" -> "progress" [] answer = "abort" -> "error" [] OTHER -> "final"

\* finalostream_send: the states up to the HEADERS, the body
Pend(c, s) == IF c.st[s].state = "recv_body" THEN SetState(c, s, "req_pending") ELSE c
Begin(c, s) == IF c.st[s].state = "req_pending" THEN SetState(c, s, "send_headers") ELSE c
Finalize(c, s, answer) == IF answer = "piece" THEN c ELSE SetState(c, s, "body_final")
SendFirst(c, s, answer) ==
    CASE answer = "refused" -> RequestWriteAndClose(Queue([c EXCEPT !.st[s].penal = TRUE]), s)
      [] answer = "error" /\ IsPush(s) -> CancelPush(c, s)
      [] answer = "empty" \/ (answer = "error" /\ ~IsPush(s)) -> RequestWriteAndClose(SendHeaders(c, s), s)
      [] OTHER -> RegisterForProceed(
                    [Finalize(SendHeaders(c, s), s, answer) EXCEPT !.st[s].data = IF answer = "abort" THEN 0 ELSE 1], s)
SendMore(c, s, answer) ==
    RegisterForProceed([Finalize(c, s, answer) EXCEPT !.st[s].data = IF answer \in {"piece", "last"} THEN 1 ELSE 0], s)
SendAnswer(c, s, answer) ==
    LET state == c.st[s].state
    IN  CASE state = "end" -> c
          [] state \in {"idle", "recv_headers"} -> Asserted(c, FALSE, "cannot be in a receiving state")
          [] state \in {"recv_body", "req_pending", "send_headers"} -> SendFirst(Begin(Pend(c, s), s), s, answer)
          [] OTHER -> SendMore(c, s, answer)
FinalSend(c, s, answer) ==
    LET st == c.st[s]
        ok == Asserted(Asserted(c, st.send = "progress", "send_state"), st.data = 0, "_data")
        early == Asserted(ok, Rank(st.state) <= Rank("send_headers"), "too early")
    IN  IF answer = "too_early" THEN RegisterForReplay(Unblock(early, s), s)
        ELSE SendAnswer([Unblock(ok, s) EXCEPT !.st[s].send = SendState(answer)], s, answer)

\* the handler's turn: it answers at once, or later
Handle(c, s) ==
    IF s \in AtOnce THEN FinalSend([c EXCEPT !.st[s].called = TRUE, !.st[s].gen = "waiting"], s, "piece")
    ELSE [c EXCEPT !.st[s].called = TRUE, !.st[s].gen = "working", !.st[s].early = c.earlyData,
                   !.st[s].write = @ \/ (c.st[s].tunnel /\ c.st[s].proceed)]

\* h2o_send_error_*: the response is sent at once
SendErrorResponse(c, s) == FinalSend([c EXCEPT !.st[s].gen = "done"], s, "last")

-----------------------------------------------------------------------------
(* Requests *)

\* can_run_requests
CanRunRequests(c) == c.num["pull"].half + c.num["push"].half < MaxRequests

\* process_request
StartStreaming(c, s) ==
    Enqueue([Asserted(c, c.st[s].body \notin {"none", "delivered"}, "process: body") EXCEPT
                !.nStreaming = @ + 1, !.st[s].streamed = TRUE, !.nTunnel = IF c.st[s].tunnel THEN @ + 1 ELSE @])
ProcessRequest(c, s) ==
    LET waits == Rank(c.st[s].state) < Rank("send_headers")
        begun == IF c.st[s].proceed THEN StartStreaming(c, s)
                 ELSE IF waits THEN SetState(SetState(c, s, "req_pending"), s, "send_headers") ELSE c
    IN  Handle([begun EXCEPT !.maxProcessed = IF ~IsPush(s) /\ @ < s THEN s ELSE @], s)

Eligible(c, s) == ~(c.st[s].proceed /\ c.nStreaming - c.nTunnel >= MaxStreaming)

\* run_pending_requests
RECURSIVE RunPending(_)
RunPending(c) ==
    LET ready == SelectSeq(c.pending, LAMBDA s : Eligible(c, s))
    IN  IF c.dos \/ ready = <<>> \/ ~CanRunRequests(c) THEN c
        ELSE RunPending(ProcessRequest(Unlink(c, Head(ready)), Head(ready)))

\* execute_or_enqueue_request_core
EnqueueRequestCore(c, s) == UpdateIdleTimeout(RunPending(LinkTo(c, s, "pending")))

\* h2o_http2_conn_unregister_stream: the budget of resets, the lists, the state
EndBody(c, s) == IF c.st[s].body \in {"before", "open", "close_queued"} THEN Delivered(c, s) ELSE c
Budget(c, penal) ==
    LET budget == IF penal THEN (IF c.budget > 0 THEN c.budget - 1 ELSE 0)
                  ELSE (IF c.budget < MaxRequests THEN c.budget + 1 ELSE c.budget)
    IN  [c EXCEPT !.budget = budget, !.dos = @ \/ (penal /\ budget = 0 /\ DosDelay)]
EndStream(c, s) ==
    LET st == c.st[s]
        ok == CASE st.state \in {"idle", "recv_headers"} -> Asserted(c, ~IsLinked(c, s), "unregister: linked")
                [] st.state = "req_pending" -> Asserted(c, IsLinked(c, s), "unregister: not linked")
                [] OTHER -> c
    IN  IF st.state # "end" THEN SetState(Unlink(ok, s), s, "end") ELSE Unlink(ok, s)
RunNext(c) == IF IsClosing(c) THEN c ELSE UpdateIdleTimeout(RunPending(c))
UnregisterStream(c, s) ==
    RunNext([EndStream(Budget(Unblock(EndBody(c, s), s), c.st[s].penal), s) EXCEPT
                !.st[s] = NewStream, !.replay = @ \ {s}])

\* h2o_http2_stream_close
StreamClose(c, s) == UnregisterStream(c, s)

\* h2o_http2_stream_reset
StreamReset(c, s) ==
    LET st == c.st[s]
        waits == Rank(st.state) > Rank("req_pending") /\ IsLinked(c, s)
        ended == IF st.state = "end" THEN c ELSE SetState(c, s, "end")
    IN  IF waits THEN [ended EXCEPT !.st[s].data = 0] ELSE StreamClose(c, s)

\* reset_stream_if_disregarded
Disregarded(c, s) == ~IsPush(s) /\ s > c.maxOpen

\* execute_or_enqueue_request
EnqueueRequest(c, s) ==
    LET ok == Asserted(c, c.st[s].state \in {"recv_headers", "req_pending"}, "enqueue: state")
    IN  IF Disregarded(c, s) THEN StreamReset(ok, s)
        ELSE EnqueueRequestCore(Block(SetState(ok, s, "req_pending"), s), s)

\* write_streaming_body; `accepts` is what the handler's write_req returns
AfterWrite(c, s, accepts) ==
    IF ~accepts THEN StreamReset(StreamSendError(c), s)
    ELSE IF c.st[s].body = "delivered" /\ c.st[s].state = "end" THEN StreamClose(c, s)
    ELSE c
WriteStreamingBody(c, s, accepts) ==
    LET st == c.st[s]
        ok == Asserted(c, st.entity = -1, "write: entity")
        known == Asserted(ok, st.body \in {"before", "open", "close_queued"}, "write: state")
        sane == Asserted(known, st.body \in {"before", "open"} => st.buf # 0, "write: nothing")
    IN  AfterWrite([(IF st.body = "close_queued" THEN Delivered(sane, s) ELSE sane) EXCEPT !.st[s].entity = st.buf],
                   s, accepts)

\* handle_request_body_chunk: the chunk is counted, the end is noted, and the
\* handler gets what there is
Chunk(c, s, len) ==
    [(IF c.st[s].body = "before" THEN SetBody(c, s, "open") ELSE Asserted(c, c.st[s].body = "open", "chunk: state"))
        EXCEPT !.st[s].received = @ + len]
WrongLength(st, isEnd) ==
    st.received > MaxEntity
    \/ (st.length # -1 /\ (IF isEnd THEN st.received # st.length ELSE st.received > st.length))
EndPend(c, s) ==
    IF Rank(c.st[s].state) >= Rank("req_pending") THEN c
    ELSE IF c.st[s].called THEN SetState(SetState(c, s, "req_pending"), s, "send_headers")
    ELSE SetState(c, s, "req_pending")
CloseBody(c, s) == IF c.st[s].write THEN SetBody(c, s, "close_queued") ELSE Delivered(c, s)
Lend(c, s) == [c EXCEPT !.st[s].entity = c.st[s].buf]
\* what is done with the buffered body; was: the stream before the chunk
Submit(c, s, was, isEnd, accepts) ==
    LET isFirst == was.body = "before"
    IN  IF was.streamed
        THEN IF ~was.write THEN Lend(c, s)
             ELSE IF was.entity = -1 THEN WriteStreamingBody(c, s, accepts)
             ELSE c
        ELSE IF isFirst /\ ~isEnd /\ s \in Forwards
             THEN EnqueueRequestCore([Lend(c, s) EXCEPT !.st[s].proceed = TRUE], s)
        ELSE IF isFirst /\ ~isEnd THEN Enqueue(Lend(c, s))
        ELSE IF isEnd /\ ~was.proceed THEN EnqueueRequest(Lend(c, s), s)
        ELSE Lend(c, s)
AddChunk(c, s, was, len, isEnd, accepts) ==
    IF WrongLength(c.st[s], isEnd) THEN StreamReset(StreamSendError(c), s)
    ELSE IF Disregarded(c, s) THEN StreamReset(Block(c, s), s)
    ELSE Submit([(IF isEnd THEN CloseBody(EndPend(Block(c, s), s), s) ELSE Block(c, s)) EXCEPT !.st[s].buf = @ + len],
                s, was, isEnd, accepts)
HandleBodyChunk(c, s, len, isEnd, accepts) == AddChunk(Chunk(c, s, len), s, c.st[s], len, isEnd, accepts)

\* send_invalid_request_error, and the 417 of an unknown expectation
AnswerWithError(c, s) == SendErrorResponse(SetState(SetState(c, s, "req_pending"), s, "send_headers"), s)

\* the label ProcessImmediately of handle_incoming_request
ProcessImmediately(c, s) ==
    ProcessRequest(SetBody(SetState([c EXCEPT !.st[s].entity = 0, !.st[s].proceed = TRUE], s, "recv_body"), s, "open"), s)

\* the label SendRSTStream of handle_incoming_request
SendRst(c, s) == StreamReset(StreamSendError([c EXCEPT !.st[s].penal = TRUE]), s)

\* handle_incoming_request; a connection error leaves `err` behind
HandleIncomingRequest(c0, s, kind) ==
    LET c == Asserted(c0, c0.st[s].state = "recv_headers", "incoming: state")
        told == IF kind = "expect_100" THEN Enqueue(c) ELSE c
    IN  CASE kind = "hpack_error" -> [c EXCEPT !.phase = "error"]
          [] kind = "bad_pseudo" -> SendRst(c, s)
          [] kind \in {"bad_char", "connect_end", "expect_unknown"} -> AnswerWithError(c, s)
          [] kind = "connect" -> ProcessImmediately([c EXCEPT !.st[s].tunnel = TRUE], s)
          [] kind = "expect_forward" -> ProcessImmediately(c, s)
          [] kind = "get" -> EnqueueRequest(c, s)
          [] OTHER -> SetBody(SetState([told EXCEPT !.st[s].length = IF kind = "sized" THEN 1 ELSE -1],
                                       s, "recv_body"), s, "before")

-----------------------------------------------------------------------------
(* Closing *)

\* close_connection_now
Closed(c) ==
    LET counts == c.nBlocked = 0 /\ c.nStreaming = 0 /\ c.nTunnel = 0 /\ \A k \in DOMAIN c.num : c.num[k] = Counters
        lists == c.pending = <<>> /\ c.toProceed = <<>>
    IN  [NewConn(c.scene) EXCEPT !.alive = FALSE, !.state = "closing",
            !.failed = Asserted(Asserted(c, counts, "close: counters"), lists, "close: lists").failed]
CloseNow(c) ==
    Closed(FoldLeft(StreamClose, Asserted([c EXCEPT !.state = "closing"], ~c.writeTimer, "close: write timer"),
                    SetToSortSeq({s \in Streams : c.st[s].reg}, <)))

\* close_connection
CloseConnection(c) ==
    IF c.inFlight # 0 \/ c.writeTimer THEN [c EXCEPT !.state = "closing", !.phase = "idle"] ELSE CloseNow(c)

\* the error branch of parse_input
ConnectionError(c) == CloseConnection([EnqueueGoaway(c) EXCEPT !.phase = "idle"])

-----------------------------------------------------------------------------
(* Frames *)

\* update_stream_output_window, when the window opens
OpenWindow(c, s) ==
    LET st == c.st[s]
        waits == st.data # 0 \/ st.state = "body_final"
    IN  IF st.window THEN c
        ELSE IF waits THEN [Asserted(c, ~IsLinked(c, s), "window: linked") EXCEPT
                                !.st[s].window = TRUE, !.st[s].active = TRUE]
        ELSE [c EXCEPT !.st[s].window = TRUE]

\* h2o_http2_stream_open, h2o_http2_conn_register_stream
StreamOpen(c, s) ==
    [c EXCEPT !.st[s] = [NewStream EXCEPT !.reg = TRUE], !.num["priority"].open = @ + 1, !.used = @ \cup {s}]

\* h2o_http2_stream_prepare_for_request
PrepareForRequest(c, s) ==
    LET ok == Asserted(c, ~IsClosing(c), "prepare: closing")
        max == IF IsPush(s) THEN [ok EXCEPT !.pushMax = IF @ < s THEN s ELSE @]
               ELSE IF c.state = "open" THEN [ok EXCEPT !.maxOpen = IF @ < s THEN s ELSE @]
               ELSE ok
    IN  [SetState(max, s, "recv_headers") EXCEPT !.st[s].window = TRUE]

Fail(c) == [c EXCEPT !.phase = "error"]

\* handle_headers_frame
HandleHeaders(c, s, kind, complete, accepts) ==
    LET st == c.st[s]
        opened == IF st.reg THEN c ELSE StreamOpen([c EXCEPT !.anyRequest = TRUE], s)
        ready == [PrepareForRequest(opened, s) EXCEPT !.st[s].hasBuf = ~EndsStream(kind)]
        rest == [id |-> s, kind |-> kind]
        usable == st.reg /\ st.body \in {"before", "open"} /\ ~st.tunnel
    IN  IF s <= c.maxOpen
        THEN IF ~usable \/ ~EndsStream(kind) THEN Fail(c)          \* a trailer must end the stream
             ELSE IF ~complete THEN [c EXCEPT !.expect = "continuation", !.unparsed = rest]
             ELSE HandleBodyChunk(c, s, 0, TRUE, accepts)
        ELSE IF complete THEN HandleIncomingRequest(ready, s, kind)
        ELSE [ready EXCEPT !.expect = "continuation", !.unparsed = rest]

\* expect_continuation_of_headers
HandleContinuation(c, s, last, accepts) ==
    LET st == c.st[s]
        kind == c.unparsed.kind
        t == [c EXCEPT !.expect = "default", !.unparsed = [id |-> None, kind |-> "none"]]
    IN  IF ~st.reg \/ st.state \notin {"recv_headers", "recv_body"} THEN Fail(c)
        ELSE IF last = "more" THEN c
        ELSE IF last = "too_large" THEN StreamReset(StreamSendError(c), s)
        ELSE IF st.state = "recv_headers" THEN HandleIncomingRequest(t, s, kind)
        ELSE HandleBodyChunk(t, s, 0, TRUE, accepts)

\* handle_data_frame
HandleData(c, s, len, isEnd, accepts) ==
    LET st == c.st[s]
    IN  IF ~st.reg THEN (IF s <= c.maxOpen THEN StreamSendError(c) ELSE Fail(c))
        ELSE IF st.body \notin {"before", "open"} THEN SendRst(c, s)
        ELSE HandleBodyChunk(c, s, len, isEnd, accepts)

\* is_idle_stream_id
IsIdleStreamId(c, s) == (IF IsPush(s) THEN c.pushMax ELSE c.maxOpen) < s

\* handle_priority_frame
HandlePriority(c, s) ==
    IF c.st[s].reg \/ IsPush(s) \/ s <= c.maxOpen THEN c
    ELSE IF c.num["priority"].open >= MaxPriority THEN Fail(c)
    ELSE StreamOpen(c, s)

\* handle_rst_stream_frame
HandleRst(c, s) ==
    IF IsIdleStreamId(c, s) THEN Fail(c)
    ELSE IF ~c.st[s].reg THEN c
    ELSE StreamReset([c EXCEPT !.st[s].penal = TRUE], s)

\* resume_send
ResumeSend(c) == IF c.connWindow THEN RequestGatheredWrite(c) ELSE c

\* handle_settings_frame: an acknowledgement, or settings that open or close the
\* windows of all streams; resume_send
HandleSettings(c, how) ==
    LET live == SetToSortSeq({s \in Streams : c.st[s].reg}, <)
        acked == Enqueue(c)
    IN  CASE how = "ack" -> c
          [] how = "same" -> acked
          [] how = "shrink" ->
                ResumeSend([acked EXCEPT !.st = [s \in Streams |->
                    IF acked.st[s].reg THEN [acked.st[s] EXCEPT !.window = FALSE] ELSE acked.st[s]]])
          [] how = "grow" -> ResumeSend(FoldLeft(OpenWindow, acked, live))

\* handle_window_update_frame; how is "ok", "bad" (a zero increment) or "overflow"
HandleWindowUpdate(c, s, how) ==
    LET st == c.st[s]
        reset == IF st.reg THEN StreamReset([c EXCEPT !.st[s].penal = TRUE], s) ELSE c
    IN  IF how = "bad" THEN StreamSendError(reset)
        ELSE IF IsIdleStreamId(c, s) THEN Fail(c)
        ELSE IF ~st.reg THEN ResumeSend(c)
        ELSE IF how = "overflow" THEN StreamSendError(reset)
        ELSE ResumeSend(OpenWindow(c, s))

\* handle_goaway_frame, handle_ping_frame
HandleGoaway(c) == [c EXCEPT !.pushStop = TRUE]
HandlePing(c) == Enqueue(c)

-----------------------------------------------------------------------------
(* Entry points *)

Can(event) == event \in h2.scene.events

\* h2o_http2_accept, or h2o_http2_handle_upgrade (stream 1 is opened, and the
\* connection waits for the 101 response to be written)
InitialConn(scene) ==
    LET c == NewConn(scene)
        up == PrepareForRequest(StreamOpen([c EXCEPT !.sock = FALSE], 1), 1)
    IN  IF "upgrade" \in scene.events THEN up
        ELSE UpdateIdleTimeout([c EXCEPT !.earlyData = "early" \in scene.events])

Init == \E scene \in Scenes : h2 = InitialConn(scene)

Idle == h2.alive /\ h2.phase = "idle" /\ h2.sock

\* on_upgrade_complete
UpgradeComplete ==
    /\ h2.alive /\ ~h2.sock
    /\ \/ h2' = CloseNow([h2 EXCEPT !.sock = TRUE])
       \/ h2' = EnqueueRequest(Enqueue([h2 EXCEPT !.sock = TRUE]), 1)

\* on_read: requests answered 425 are run again once the handshake is over
OnRead ==
    /\ Idle /\ h2.reading /\ ~IsClosing(h2) /\ h2.frames < h2.scene.frames
    /\ LET run(c, s) == Handle([Block(Unlink(c, s), s) EXCEPT !.st[s].send = "progress"], s)
       IN  h2' = [(IF h2.earlyData THEN h2 ELSE FoldLeft(run, h2, h2.early)) EXCEPT !.phase = "parse"]

OnReadError ==
    /\ Idle /\ h2.reading
    /\ h2' = CloseConnection([h2 EXCEPT !.reading = FALSE])

\* one round of parse_input
Frame(c) ==
    /\ h2.alive /\ h2.phase = "parse" /\ ~IsClosing(h2) /\ h2.frames < h2.scene.frames
    /\ LET t == [c EXCEPT !.frames = h2.frames + 1]
       IN  h2' = IF t.phase = "error" THEN ConnectionError(t) ELSE t

\* expect_preface
ReceivePreface == h2.expect = "preface" /\ Frame([Enqueue(h2) EXCEPT !.expect = "default"])
ReceiveBadPreface ==
    /\ h2.expect = "preface" /\ Can("bad") /\ h2.phase = "parse" /\ h2.frames < h2.scene.frames /\ h2.alive
    /\ h2' = CloseConnection([h2 EXCEPT !.phase = "idle"])

\* expect_default
Default == h2.expect = "default"
ReceiveHeaders(s, kind, complete, accepts) ==
    /\ Default /\ s \in h2.scene.streams /\ kind \in h2.scene.kinds
    /\ complete \/ Can("continuation")
    /\ Frame(HandleHeaders(h2, s, kind, complete, accepts))
ReceiveContinuation(last, accepts) ==
    /\ h2.expect = "continuation"
    /\ Frame(HandleContinuation(h2, h2.unparsed.id, last, accepts))
ReceiveData(s, len, isEnd, accepts) ==
    /\ Default /\ s \in h2.scene.streams /\ (len # 0 \/ isEnd)
    /\ Frame(HandleData(h2, s, len, isEnd, accepts))
ReceiveRst(s) == Default /\ Can("rst") /\ Frame(HandleRst(h2, s))
ReceivePriority(s) == Default /\ Can("priority") /\ Frame(HandlePriority(h2, s))
ReceiveSettings(how) == Default /\ Can("settings") /\ Frame(HandleSettings(h2, how))
ReceiveWindowUpdate(s, how) == Default /\ Can("window") /\ Frame(HandleWindowUpdate(h2, s, how))
ReceiveConnWindowUpdate == Default /\ Can("window") /\ Frame(ResumeSend([h2 EXCEPT !.connWindow = TRUE]))
ReceiveGoaway == Default /\ Can("goaway") /\ Frame(HandleGoaway(h2))
ReceivePing == Default /\ Can("ping") /\ Frame(HandlePing(h2))
\* a frame that cannot be decoded or is not allowed; one of an unknown type
ReceiveBadFrame == h2.expect # "preface" /\ Can("bad") /\ Frame(Fail(h2))
ReceiveUnknownFrame == Default /\ Can("ping") /\ Frame(h2)

\* the end of on_read: a scheduled write is made at once
FinishRead ==
    /\ h2.alive /\ h2.phase = "parse"
    /\ LET t == UpdateIdleTimeout(h2)
       IN  h2' = IF t.writeTimer THEN [t EXCEPT !.writeTimer = FALSE, !.phase = "emit"]
                 ELSE [t EXCEPT !.phase = "idle"]

\* emit_writereq, on_notify_write
EmitWritereq == Idle /\ h2.writeTimer /\ h2' = [h2 EXCEPT !.writeTimer = FALSE, !.phase = "emit"]
OnNotifyWrite ==
    /\ Idle /\ h2.notify
    /\ \/ h2' = [h2 EXCEPT !.notify = FALSE, !.phase = "emit"]
       \/ Can("write_error") /\ h2' = CloseNow([h2 EXCEPT !.notify = FALSE])

\* emit_writereq_of_openref, h2o_http2_stream_send_pending_data: all data is
\* sent, or the window of the stream or of the connection is used up before;
\* reading the data may fail
SendPendingData(c, s, outcome) ==
    LET st == c.st[s]
        all == [Queue(c) EXCEPT !.st[s].data = 0, !.st[s].penal = @ \/ st.send = "error"]
    IN  IF ~st.window THEN c
        ELSE CASE outcome = "blocked" -> [Queue(c) EXCEPT !.st[s].window = FALSE]
               [] outcome = "conn_blocked" -> [Queue(c) EXCEPT !.connWindow = FALSE]
               [] outcome = "read_error" -> SetState([Queue(c) EXCEPT !.st[s].data = 0, !.st[s].send = "error"], s, "end")
               [] OTHER -> IF st.state = "body_final" THEN SetState(all, s, "end") ELSE all
Reschedule(c, s) ==
    LET st == c.st[s]
        more == st.data # 0 \/ st.state = "body_final"
    IN  IF more /\ st.window THEN c
        ELSE IF more THEN [c EXCEPT !.st[s].active = FALSE]
        ELSE LinkTo([c EXCEPT !.st[s].active = FALSE], s, "proceed")
EmitStream(s, outcome) ==
    LET st == h2.st[s]
        ok == Asserted(h2, st.data # 0 \/ Rank(st.state) >= Rank("body_final"), "emit: nothing")
    IN  /\ h2.alive /\ h2.phase = "emit" /\ ~IsClosing(h2) /\ st.active /\ h2.connWindow
        /\ outcome \in {"blocked", "conn_blocked"} => Can("window") /\ st.data # 0 /\ st.window
        /\ outcome = "read_error" => Can("write_error") /\ st.data # 0 /\ st.window
        /\ h2' = Reschedule(SendPendingData(ok, s, outcome), s)

\* the rest of do_emit_writereq: every scheduled stream was served, the write
\* buffer is full or the connection's window is
FinishEmit ==
    LET t == IF h2.buf = 0 THEN h2
             ELSE [h2 EXCEPT !.inFlight = h2.buf, !.buf = 0, !.timer = TRUE]
        c == [Asserted(t, h2.inFlight = 0, "emit: in flight") EXCEPT !.phase = "idle"]
        drained == c.num["pull"].open + c.num["push"].open = 0
    IN  /\ h2.alive /\ h2.phase = "emit"
        /\ h2.buf # 0 \/ IsClosing(h2) \/ ~h2.connWindow \/ \A s \in Streams : ~h2.st[s].active
        /\ h2' = IF c.state = "open" \/ (c.state = "half_closed" /\ ~drained) THEN c ELSE CloseConnection(c)

\* h2o_http2_stream_proceed; a handler that answers within the call has nothing
\* more to say
StreamProceed(c, s) ==
    LET st == c.st[s]
    IN  IF st.state = "end" THEN (IF st.body \in {"none", "delivered"} THEN StreamClose(c, s) ELSE c)
        ELSE LET b == Block(c, s)
             IN  IF s \in AtOnce THEN FinalSend([b EXCEPT !.st[s].gen = "done"], s, "last")
                 ELSE [b EXCEPT !.st[s].gen = "working"]

RECURSIVE ProceedAll(_)
ProceedAll(c) ==
    IF c.toProceed = <<>> THEN c
    ELSE LET s == Head(c.toProceed)
             t == Unlink(Asserted(c, c.st[s].data = 0, "proceed: data"), s)
             rst == IF c.st[s].state = "end" /\ c.st[s].delayedRst
                    THEN StreamSendError([t EXCEPT !.st[s].delayedRst = FALSE]) ELSE t
         IN  ProceedAll(StreamProceed(rst, s))

\* on_write_complete
ResumeReading(c) == [c EXCEPT !.reading = @ \/ (~IsClosing(c) /\ c.buf < SoftMax)]
NextWrite(c) ==
    IF c.state # "open" THEN [c EXCEPT !.phase = "emit"]
    ELSE [c EXCEPT !.notify = c.buf # 0 \/ \E s \in Streams : c.st[s].active]
OnWriteComplete ==
    LET flushed == [Asserted(h2, h2.inFlight # 0, "write complete") EXCEPT !.inFlight = 0]
        proceeded == IF IsClosing(h2) THEN flushed ELSE ProceedAll(flushed)
    IN  /\ Idle /\ h2.inFlight # 0
        /\ \/ Can("write_error") /\ h2' = CloseNow(h2)
           \/ h2' = NextWrite(ResumeReading([UpdateIdleTimeout(proceeded) EXCEPT !.writeTimer = FALSE]))

\* on_idle_timeout, which also limits the time of a write
OnIdleTimeout ==
    LET c == Asserted([h2 EXCEPT !.timer = FALSE], h2.timerCb, "timer without callback")
    IN  /\ Idle /\ h2.timer /\ Can("timeout")
        /\ h2' = IF h2.inFlight # 0 THEN CloseNow(c) ELSE CloseConnection(EnqueueGoaway(c))

\* on_dos_process_delay
OnDosDelay == Idle /\ h2.dos /\ h2' = RunPending([h2 EXCEPT !.dos = FALSE])

\* initiate_graceful_shutdown: an idle connection is closed, or the process stops
InitiateGracefulShutdown ==
    /\ h2.alive /\ h2.phase = "idle" /\ Can("shutdown") /\ h2.list # "shutdown"
    /\ LET ok == Asserted(h2, h2.gracefulCb = "null", "shutdown callback")
           c == [Asserted(ok, h2.sock \/ h2.state # "open", "no socket yet") EXCEPT !.list = "shutdown"]
       IN  h2' = [(IF c.state = "open" THEN Enqueue(c) ELSE c) EXCEPT !.gracefulCb = "resend", !.gracefulTimer = TRUE]

\* graceful_shutdown_resend_goaway, graceful_shutdown_close_straggler
GracefulShutdownTimeout ==
    LET c == [h2 EXCEPT !.gracefulTimer = FALSE]
        goaway == EnqueueGoaway(c)
    IN  /\ Idle /\ h2.gracefulTimer
        /\ h2' = IF h2.gracefulCb = "straggler" THEN CloseConnection(c)
                 ELSE IF c.state # "open" THEN c
                 ELSE IF ShutdownWaits THEN [goaway EXCEPT !.gracefulCb = "straggler", !.gracefulTimer = TRUE]
                 ELSE goaway

\* the TLS handshake completes
HandshakeCompletes == Idle /\ h2.earlyData /\ h2' = [h2 EXCEPT !.earlyData = FALSE]

Alive(s) == Idle /\ h2.st[s].reg

\* h2o_replay_request_deferred
ReplayDeferred(s) ==
    /\ Alive(s) /\ s \in h2.replay
    /\ h2' = Handle([h2 EXCEPT !.replay = @ \ {s}, !.st[s].send = "progress"], s)

\* the handler answers
HandlerAnswers(s, answer) ==
    /\ Alive(s) /\ h2.st[s].gen = "working" /\ answer \in h2.scene.answers
    /\ h2.st[s].state \in {"send_body", "body_final"} => answer \in {"piece", "last", "empty", "abort"}
    /\ answer = "too_early" => h2.st[s].early /\ h2.st[s].state # "end"    \* the upstream that failed answers nothing
    /\ h2' = FinalSend([h2 EXCEPT !.st[s].gen = IF answer = "piece" THEN "waiting" ELSE "done"], s, answer)

\* the handler takes the body of a streamed request (the upstream is connected)
HandlerTakesBody(s) ==
    /\ Alive(s) /\ h2.st[s].gen = "working" /\ Rank(h2.st[s].state) < Rank("send_body") /\ h2.st[s].streamed /\ h2.st[s].proceed /\ ~h2.st[s].write
    /\ h2' = [h2 EXCEPT !.st[s].write = TRUE]

\* proceed_request: the handler has consumed what it was lent, so it takes the
\* next chunk as well
ProceedRequest(s, err, room) ==
    LET st == h2.st[s]
        used == [h2 EXCEPT !.st[s].buf = @ - (IF st.entity > 0 THEN st.entity ELSE 0), !.st[s].entity = -1]
        gone == Delivered(used, s)
        reset == LET t == [StreamSendError(gone) EXCEPT !.st[s].active = FALSE]
                 IN  StreamReset(IF IsLinked(t, s) THEN t ELSE LinkTo(t, s, "proceed"), s)
        credit == Enqueue(used)
        free == IF st.blocked /\ room THEN UpdateIdleTimeout(SetBlocked(credit, s, FALSE)) ELSE credit
    IN  /\ Alive(s) /\ st.streamed /\ st.write /\ st.entity >= 0 /\ st.proceed
        /\ err = "eos" => Rank(st.state) >= Rank("send_body")     \* the response has been received
        /\ h2' = IF err # "none"
                 THEN IF IsClosing(h2) THEN gone
                      ELSE IF err = "eos" /\ st.state # "end" THEN [gone EXCEPT !.st[s].delayedRst = TRUE]
                      ELSE reset
                 ELSE IF st.body = "open"
                      THEN IF used.st[s].buf # 0 THEN WriteStreamingBody(free, s, TRUE) ELSE free
                 ELSE WriteStreamingBody(Asserted(used, st.entity # 0, "written"), s, TRUE)

\* push_path
Promise(c, s) ==
    IF c.st[s].reg /\ ~c.st[s].promised /\ c.st[s].state # "end" THEN SendPushPromise(c, s) ELSE c
PushPath(src, s) ==
    /\ Alive(src) /\ Can("push") /\ h2.st[src].gen = "working"
    /\ ~IsClosing(h2) /\ ~h2.pushStop /\ s \notin h2.used /\ h2.pending = <<>> /\ CanRunRequests(h2)
    /\ h2' = Promise(EnqueueRequest(PrepareForRequest(StreamOpen(h2, s), s), s), s)

Step ==
    \/ UpgradeComplete \/ OnRead \/ OnReadError \/ FinishRead
    \/ ReceivePreface \/ ReceiveBadPreface
    \/ \E s \in Pulls, kind \in Kinds, complete, accepts \in BOOLEAN : ReceiveHeaders(s, kind, complete, accepts)
    \/ \E last \in {"more", "last", "too_large"}, accepts \in BOOLEAN : ReceiveContinuation(last, accepts)
    \/ \E s \in Pulls, len \in 0 .. 1, isEnd, accepts \in BOOLEAN : ReceiveData(s, len, isEnd, accepts)
    \/ \E s \in Streams : ReceiveRst(s) \/ ReceivePriority(s)
    \/ \E how \in {"ack", "same", "shrink", "grow"} : ReceiveSettings(how)
    \/ \E s \in Streams, how \in {"ok", "bad", "overflow"} : ReceiveWindowUpdate(s, how)
    \/ ReceiveConnWindowUpdate \/ ReceiveGoaway \/ ReceivePing \/ ReceiveBadFrame \/ ReceiveUnknownFrame
    \/ EmitWritereq \/ OnNotifyWrite \/ FinishEmit \/ OnWriteComplete
    \/ \E s \in Streams, outcome \in {"all", "blocked", "conn_blocked", "read_error"} : EmitStream(s, outcome)
    \/ OnIdleTimeout \/ OnDosDelay \/ InitiateGracefulShutdown \/ GracefulShutdownTimeout \/ HandshakeCompletes
    \/ \E s \in Streams : ReplayDeferred(s) \/ HandlerTakesBody(s)
    \/ \E s \in Streams, answer \in Answers : HandlerAnswers(s, answer)
    \/ \E s \in Streams, err \in {"none", "eos", "error"}, room \in BOOLEAN : ProceedRequest(s, err, room)
    \/ \E src \in Pulls, s \in Pushes : PushPath(src, s)

\* a failed assertion ends the process
Next == h2.failed = {} /\ Step

-----------------------------------------------------------------------------
(* Properties *)

Registered == {s \in Streams : h2.st[s].reg}
Where(P(_)) == Cardinality({s \in Registered : P(h2.st[s])})

\* "written": a CONNECT whose stream ends before there is a tunnel is written with
\* an empty body; "shutdown callback": with a timeout of zero a second request to
\* shut down finds the callback of the first; "no socket yet", "timer without
\* callback": a shutdown, and a timeout, while the connection is being upgraded
KnownFailures == {"written", "shutdown callback", "no socket yet", "timer without callback"}
\* No assertion of http2/connection.c and http2/stream.c fails, but the known
\* ones.
NoAssertionFails == h2.failed # {} => h2.failed \cap KnownFailures # {}

\* Every counter of the connection is the number of streams it stands for; the
\* limits on concurrent requests and the idle timeout rest on them.
CountersAreExact ==
    h2.failed = {} =>
    /\ h2.nBlocked = Where(LAMBDA st : st.blocked)
    /\ h2.nStreaming = Where(LAMBDA st : st.streamed /\ st.body # "delivered")
    /\ h2.nTunnel = Where(LAMBDA st : st.streamed /\ st.tunnel /\ st.body # "delivered")
    /\ \A k \in DOMAIN h2.num :
        /\ h2.num[k].open = Where(LAMBDA st : st.slot = k)
        /\ h2.num[k].half = Where(LAMBDA st : st.slot = k /\ st.state \in {"send_headers", "send_body", "body_final"})
        /\ h2.num[k].sending = Where(LAMBDA st : st.slot = k /\ st.state \in {"send_body", "body_final"})

Waiting == h2.alive /\ h2.phase = "idle" /\ h2.sock /\ h2.failed = {}
WriteScheduled == h2.inFlight # 0 \/ h2.writeTimer \/ h2.notify

\* an ended stream that nothing will close
Forgotten(s) ==
    h2.st[s].state = "end" /\ h2.st[s].link # "proceed" /\ h2.st[s].body \in {"none", "delivered"}

\* a response that arrived while every other stream was blocked by the server
\* (so that the timer was stopped) and that the client's window holds back:
\* finalostream_send does not start the timer
HeldByClient(s) == ~h2.st[s].window /\ (h2.st[s].data # 0 \/ h2.st[s].state = "body_final")

Working(s) == h2.st[s].gen = "working" \/ s \in h2.replay

\* push_path leaves the promise in the buffer for a response to come
PromiseWaits == \E s \in Registered : h2.st[s].gen = "working" /\ h2.used \cap Pushes # {}

\* The connection never gets stuck between two callbacks: output is on its way
\* to the socket, reading resumes when the output is gone, a request that may
\* run is run (at the latest when another stream closes), and a connection that
\* waits for its client has a timeout.
ConnectionNeverStuck ==
    Waiting /\ ~IsClosing(h2) =>
    /\ h2.buf # 0 => WriteScheduled \/ PromiseWaits
    /\ (h2.connWindow /\ \E s \in Registered : h2.st[s].active) => WriteScheduled
    /\ h2.reading \/ WriteScheduled
    /\ h2.pending # <<>> => h2.dos \/ \E s \in Registered : h2.st[s].called
    /\ h2.timer \/ h2.nBlocked # 0 \/ WriteScheduled \/ \E s \in Registered : Forgotten(s) \/ HeldByClient(s) \/ Working(s)
    /\ \A s \in Registered : h2.st[s].state = "body_final" /\ h2.st[s].window => h2.st[s].active

\* A closing connection is closed: something is left that closes it.
ClosingCloses == Waiting /\ IsClosing(h2) => WriteScheduled

\* A stream that has ended is disposed of: it waits for its last bytes to be
\* written, or for the end of the request body ("the stream will be closed when
\* the read side is done", h2o_http2_stream_proceed).
EndedStreamsClose == Waiting => ~\E s \in Registered : Forgotten(s)
=============================================================================
