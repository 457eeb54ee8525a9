------------------------------ MODULE H3Server ------------------------------
(***************************************************************************)
(* The HTTP/3 server connection of h2o (h2o/lib/http3/server.c): request   *)
(* streams from their first byte to their destruction, the admission of    *)
(* request bodies, the delayed processing of requests, responses, tunnels  *)
(* and datagram flows, and graceful shutdown.                              *)
(*                                                                         *)
(* The connection is one record `h3`.  A C function that takes the         *)
(* connection or a stream of it is an operator from the connection before  *)
(* the call to the one after it; an action is one entry point (a callback  *)
(* of quicly, a timer, a call of the generator).  The transport and the    *)
(* generator (the handler that answers the request) are the environment.   *)
(* Frames are units: a HEADERS frame is named by what its header block     *)
(* asks for, a DATA frame carries one byte.                                *)
(***************************************************************************)
EXTENDS Integers, Sequences, SequencesExt, FiniteSets, TLC

CONSTANTS
    Levels,         \* H2O_ABSPRIO_NUM_URGENCY_LEVELS; level Levels is "nothing is active"
    Streams,        \* request streams, numbered in the order of their IDs
    MaxStreaming,   \* max_concurrent_streaming_requests_per_connection
    Forwards,       \* h2o_req_can_stream_request: streams whose handler can stream
    ShutdownWaits,  \* http3.graceful_shutdown_timeout is not zero
    Scenes          \* what the client, the network and the process may do, see Scene

\* The environments that are explored: the streams opened, the kinds of header
\* block, the frames per stream, the response vectors in the send buffer, and
\* the other events that happen.

VARIABLE h3

-----------------------------------------------------------------------------
(* The request scheduler: two lists per urgency level, the streams blocked *)
(* by connection-level flow control, and the cached smallest urgency that  *)
(* has an active node.  A scheduler is the record [high, low, blocked,     *)
(* smallest]; a node is the stream, with its priority and call count       *)
(* passed along as `node`.                                                 *)

Urgencies == 0 .. Levels - 1

\* req_scheduler_init
InitScheduler ==
    [high |-> [u \in Urgencies |-> <<>>], low |-> [u \in Urgencies |-> <<>>],
     blocked |-> <<>>, smallest |-> Levels]

Without(list, s) == SelectSeq(list, LAMBDA x : x # s)

IsLinked(sched, s) ==
    \/ \E u \in Urgencies : s \in ToSet(sched.high[u]) \cup ToSet(sched.low[u])
    \/ s \in ToSet(sched.blocked)

\* h2o_linklist_unlink of the node, whichever list it is on.
Unlink(sched, s) ==
    [sched EXCEPT !.high = [u \in Urgencies |-> Without(@[u], s)],
                  !.low = [u \in Urgencies |-> Without(@[u], s)],
                  !.blocked = Without(@, s)]

\* The list is kept in the order of stream IDs: the node goes behind the last
\* entry that precedes it (req_scheduler_compare_stream_id).
InsertById(list, s) ==
    SelectSeq(list, LAMBDA x : x < s) \o <<s>> \o SelectSeq(list, LAMBDA x : x > s)

\* req_scheduler_activate
Activate(sched, s, node) ==
    LET u == node.urgency
        un == Unlink(sched, s)
        linked == IF ~node.incremental \/ node.calls = 0
                  THEN [un EXCEPT !.high[u] = InsertById(@, s)]
                  ELSE [un EXCEPT !.low[u] = Append(@, s)]
    IN  [linked EXCEPT !.smallest = IF u < @ THEN u ELSE @]

\* The first level at or above `changed` with an active node.
SearchFrom(sched, changed) ==
    LET busy == {u \in changed .. Levels - 1 : sched.high[u] # <<>> \/ sched.low[u] # <<>>}
    IN  IF busy = {} THEN Levels ELSE CHOOSE u \in busy : \A v \in busy : u <= v

\* req_scheduler_update_smallest_urgency_post_removal
PostRemoval(sched, changed) ==
    IF sched.smallest < changed THEN sched
    ELSE [sched EXCEPT !.smallest = SearchFrom(sched, changed)]

\* req_scheduler_deactivate
Deactivate(sched, s, node) == PostRemoval(Unlink(sched, s), node.urgency)

\* req_scheduler_conn_blocked
ConnBlocked(sched, s, node) ==
    LET un == Unlink(sched, s)
    IN  PostRemoval([un EXCEPT !.blocked = Append(@, s)], node.urgency)

\* req_scheduler_setup_for_next: an incremental stream goes to the end of the
\* round robin, any other keeps its place.
SetupForNext(sched, s, node) ==
    IF node.incremental THEN Activate(sched, s, node) ELSE sched

\* req_scheduler_unblock_conn_blocked: every blocked node is activated, in order.
UnblockConnBlocked(sched, nodes) ==
    FoldLeft(LAMBDA acc, s : Activate(acc, s, nodes[s]), sched, sched.blocked)

\* The stream scheduler_do_send serves next.
FirstActive(sched) ==
    LET u == sched.smallest
    IN  IF sched.high[u] # <<>> THEN Head(sched.high[u]) ELSE Head(sched.low[u])

\* What the cached urgency stands for: no level below it has an active node,
\* and the level it names has one (else the assertion of scheduler_do_send
\* fails on an empty list, or active streams are never served).
SmallestIsExact(sched) == sched.smallest = SearchFrom(sched, 0)

-----------------------------------------------------------------------------
(* Streams and the connection.                                             *)

\* What a header block can be to handle_input_expect_headers.
Kinds ==
    {"get", "sized", "malformed", "bad_char", "bad_pseudo", "qpack_error", "too_large", "huge_entity",
     "connect", "connect_udp", "expect_100", "expect_forward", "expect_unknown"}

States == <<"recv_headers", "before_block", "blocked", "unblocked", "req_pending",
            "send_headers", "send_body", "close_wait">>
Rank(st) == CHOOSE i \in DOMAIN States : States[i] = st

NoStream == 0

\* struct st_h2o_http3_server_stream_t at stream_open_cb; `quic` says whether
\* the transport knows the stream ("idle", "open", "gone").
NewStream ==
    [quic |-> "idle", state |-> "recv_headers",
     \* receive side: buffered frames, frames so far, the input handler
     buf |-> <<>>, frames |-> 0, recv |-> "open", stop |-> FALSE, input |-> "headers",
     readBlocked |-> FALSE, body |-> 0, hasBody |-> FALSE, received |-> 0, length |-> -1,
     \* send side: vectors queued and emitted, data declared lost, FIN
     size |-> 0, sent |-> 0, lost |-> FALSE, open |-> TRUE, finSent |-> FALSE,
     proceed |-> FALSE, proceeding |-> FALSE,
     \* scheduler node
     node |-> [urgency |-> 0, incremental |-> FALSE, calls |-> 0], prioritized |-> FALSE,
     \* request: processed, streaming, tunnel, its flow, disposal
     called |-> FALSE, streaming |-> FALSE, tunnel |-> FALSE, flow |-> NoStream, disposed |-> FALSE,
     writeReq |-> FALSE, forward |-> FALSE, owed |-> FALSE, turn |-> FALSE, final |-> FALSE]

InitConn(scene) ==
    [st |-> [s \in Streams |-> NewStream], cnt |-> [x \in ToSet(States) |-> 0],
     blocked |-> <<>>, streaming |-> <<>>, pending |-> <<>>, respBlocked |-> <<>>,
     timer |-> FALSE, run |-> "off", progress |-> FALSE,
     nStreaming |-> 0, nTunnel |-> 0, flows |-> [f \in Streams |-> NoStream],
     sched |-> InitScheduler, saturated |-> FALSE, settings |-> "none",
     quic |-> "connected", conn |-> "idle", goaway |-> 0, shutdownCb |-> "null", shutdownTimer |-> FALSE,
     failed |-> {}, scene |-> scene]

\* assert(ok) of the code: a failure is recorded under its name.
Asserted(c, ok, name) == IF ok THEN c ELSE [c EXCEPT !.failed = @ \cup {name}]

-----------------------------------------------------------------------------
(* Lists, counters and states *)

StreamLinked(c, s) == s \in ToSet(c.blocked) \cup ToSet(c.streaming) \cup ToSet(c.pending)

UnlinkStream(c, s) ==
    [c EXCEPT !.blocked = Without(@, s), !.streaming = Without(@, s), !.pending = Without(@, s)]

\* request_run_delayed
RequestRunDelayed(c) == [c EXCEPT !.timer = TRUE]

HasRoom(c) == c.cnt["unblocked"] + c.nStreaming < MaxStreaming

\* check_run_blocked
CheckRunBlocked(c) ==
    IF HasRoom(c) /\ c.blocked # <<>> THEN RequestRunDelayed(c) ELSE c

\* pre_dispose_request: the body buffer, request streaming, the datagram flow
\* and the tunnel count are released.
ReleaseStreaming(c, s) ==
    CheckRunBlocked([Asserted(c, c.nStreaming # 0, "streaming count") EXCEPT
                        !.st[s].streaming = FALSE, !.nStreaming = @ - 1])
ReleaseFlow(c, s) ==
    [c EXCEPT !.flows = [f \in DOMAIN @ |-> IF f = c.st[s].flow THEN NoStream ELSE @[f]],
              !.nTunnel = IF c.st[s].tunnel THEN @ - 1 ELSE @]


PreDisposeRequest(c, s) ==
    LET body == [c EXCEPT !.st[s].hasBody = FALSE, !.st[s].body = 0]
        streams == c.st[s].streaming /\ ~c.st[s].tunnel
    IN  ReleaseFlow(IF streams THEN ReleaseStreaming(body, s) ELSE body, s)

\* h2o_dispose_request: the generator is stopped.
DisposeRequest(c, s) ==
    [c EXCEPT !.st[s].disposed = TRUE, !.st[s].owed = FALSE, !.st[s].turn = FALSE]

\* set_state
Leave(c, s) == [c EXCEPT !.cnt[c.st[s].state] = @ - 1]
CloseWait(c, s, inGenerator) ==
    IF inGenerator THEN PreDisposeRequest(UnlinkStream(c, s), s)
    ELSE DisposeRequest(PreDisposeRequest(UnlinkStream(c, s), s), s)
Enter(c, s, state, inGenerator) ==
    CASE state = "blocked" -> Asserted(c, c.blocked # <<>> /\ Last(c.blocked) = s, "not registered")
      [] state = "close_wait" -> CloseWait(c, s, inGenerator)
      [] OTHER -> c
SetState(c, s, state, inGenerator) ==
    Enter([Leave(c, s) EXCEPT !.st[s].state = state, !.cnt[state] = @ + 1], s, state, inGenerator)

\* quicly_stream_can_send: anything to send / something to send without
\* connection-level credit (a retransmission).
CanSend(st) == st.lost \/ st.sent < st.size \/ (~st.open /\ ~st.finSent)
CanSendBlocked(st) == st.lost
Capped(c, st) == c.saturated /\ ~CanSendBlocked(st)

\* scheduler_update_state, for a request stream
UpdateState(c, s) ==
    LET st == c.st[s]
    IN  IF st.proceeding THEN c
        ELSE [c EXCEPT !.sched =
                IF ~CanSend(st) THEN Deactivate(@, s, st.node)
                ELSE IF Capped(c, st) THEN ConnBlocked(@, s, st.node)
                ELSE Activate(@, s, st.node)]

\* quicly_request_stop, quicly_reset_stream
RequestStop(c, s) == [c EXCEPT !.st[s].stop = TRUE]
ResetStream(c, s) ==
    UpdateState([c EXCEPT !.st[s].open = FALSE, !.st[s].finSent = TRUE, !.st[s].lost = FALSE,
                          !.st[s].sent = c.st[s].size], s)

\* shutdown_stream
ShutdownSend(c, s, inGenerator, onlyIfOpen) ==
    LET st == c.st[s]
        keeps == onlyIfOpen /\ ~st.open
        reset == ~keeps /\ ~(~st.open /\ st.finSent)
    IN  IF keeps /\ Rank(st.state) >= Rank("send_body") THEN c
        ELSE SetState(IF reset THEN ResetStream(c, s) ELSE c, s, IF keeps THEN "send_body" ELSE "close_wait", inGenerator)
ShutdownStream(c, s, inGenerator, onlyIfOpen) ==
    LET sane == Asserted(c, c.st[s].state # "close_wait", "shutdown twice")
    IN  ShutdownSend(UnlinkStream(IF c.st[s].recv = "reset" THEN sane ELSE RequestStop(sane, s), s),
                     s, inGenerator, onlyIfOpen)

\* h2o_quic_close_connection
CloseConnection(c) == [c EXCEPT !.quic = "closing"]

-----------------------------------------------------------------------------
(* Responses *)

\* finalize_do_send
FinalizeDoSend(c, s) == UpdateState(c, s)

\* write_response: one vector for the HEADERS frame.
WriteResponse(c, s) == [c EXCEPT !.st[s].size = @ + 1]

\* shutdown_by_generator
ShutdownByGenerator(c, s) ==
    LET shut == [c EXCEPT !.st[s].open = FALSE]
    IN  IF c.st[s].size # 0 THEN shut
        ELSE SetState(RequestStop(shut, s), s, "close_wait", TRUE)

\* finalize_do_send_setup_udp_tunnel: is the response ready, and the connection.
SetupUdpTunnel(c, s, sendState) ==
    LET st == c.st[s]
        registered == [c EXCEPT !.flows[st.flow] = s]
    IN  IF ~st.forward \/ sendState # "in_progress"
        THEN [ready |-> TRUE, c |-> [c EXCEPT !.st[s].flow = NoStream]]
        ELSE IF st.flow = NoStream THEN [ready |-> TRUE, c |-> c]
        ELSE IF c.settings = "none"
        THEN [ready |-> FALSE, c |-> [registered EXCEPT !.respBlocked = Append(@, s)]]
        ELSE [ready |-> TRUE, c |-> registered]

\* do_send: `chunks` vectors of body (0 or 1), with their DATA frame header.
SendBody(c, s, chunks, sendState) ==
    LET full == [c EXCEPT !.st[s].size = @ + chunks]
    IN  FinalizeDoSend(IF sendState = "final" THEN ShutdownByGenerator(full, s) ELSE full, s)
SendHeaders(c, s, chunks, sendState) == SendBody(SetState(WriteResponse(c, s), s, "send_body", TRUE), s, chunks, sendState)
DoSend(c, s, chunks, sendState) ==
    LET begun == [c EXCEPT !.st[s].proceed = FALSE, !.st[s].turn = FALSE]
        tunnel == SetupUdpTunnel(begun, s, sendState)
    IN  CASE c.st[s].state = "send_headers" ->
                IF tunnel.ready THEN SendHeaders(tunnel.c, s, chunks, sendState) ELSE tunnel.c
          [] c.st[s].state = "send_body" -> SendBody(Asserted(begun, c.st[s].open, "send after final"), s, chunks, sendState)
          [] c.st[s].state = "close_wait" -> begun
          [] OTHER -> Asserted(begun, FALSE, "logic flaw")

\* do_send_informational
DoSendInformational(c, s) == FinalizeDoSend(WriteResponse(c, s), s)

\* h2o_process_request: the generator gets its turn; in streaming mode it owes
\* a call of proceed_req for the body it was handed, if it installs write_req.
ProcessRequest(c, s, installs) ==
    [c EXCEPT !.st[s].called = TRUE, !.st[s].turn = TRUE,
              !.st[s].writeReq = installs, !.st[s].owed = installs,
              !.st[s].forward = installs /\ c.st[s].tunnel]

-----------------------------------------------------------------------------
(* Input *)

\* handle_input_expect_headers_send_http_error: h2o_send_error_* answers at once.
SendHttpError(c, s) ==
    LET stopped == IF c.st[s].recv = "open" THEN RequestStop(c, s) ELSE c
    IN  DoSend(SetState(stopped, s, "send_headers", FALSE), s, 1, "final")

\* handle_input_expect_headers_process_request_immediately
ProcessImmediately(c, s) ==
    ProcessRequest(SetState([c EXCEPT !.st[s].hasBody = TRUE, !.st[s].readBlocked = TRUE],
                            s, "send_headers", FALSE), s, TRUE)

\* handle_input_expect_headers_process_connect; the flow of an extended
\* CONNECT is derived from the stream ID.
ProcessConnect(c, s, kind) ==
    ProcessImmediately([c EXCEPT !.st[s].tunnel = TRUE, !.nTunnel = @ + 1,
                                 !.st[s].flow = IF kind = "connect_udp" THEN s ELSE NoStream], s)

\* handle_input_expect_headers, on the HEADERS frame
ExpectHeaders(c, s, kind) ==
    LET parsed == [c EXCEPT !.st[s].input = "data", !.st[s].length = IF kind = "sized" THEN 1 ELSE -1]
        prioritized == IF kind \in {"connect", "connect_udp"} /\ ~parsed.st[s].prioritized
                       THEN [parsed EXCEPT !.st[s].node.incremental = TRUE] ELSE parsed
        received == SetState(prioritized, s, "before_block", FALSE)
    IN  CASE kind = "too_large" -> ShutdownStream(c, s, FALSE, FALSE)
          [] kind \in {"qpack_error", "bad_pseudo"} -> CloseConnection(parsed)
          [] kind = "malformed" -> ShutdownStream(parsed, s, FALSE, FALSE)
          [] kind \in {"bad_char", "huge_entity"} -> SendHttpError(parsed, s)
          [] kind \in {"connect", "connect_udp"} -> ProcessConnect(prioritized, s, kind)
          [] kind = "expect_unknown" -> SendHttpError(received, s)
          [] kind = "expect_forward" /\ s \in Forwards ->
                ProcessImmediately([received EXCEPT !.st[s].streaming = TRUE, !.nStreaming = @ + 1], s)
          [] kind \in {"expect_100", "expect_forward"} -> DoSendInformational(received, s)
          [] OTHER -> received

\* handle_input_expect_data and handle_input_expect_data_payload
ExpectData(c, s, frame, inGenerator) ==
    CASE frame = "headers" ->
            IF c.st[s].tunnel THEN CloseConnection(c) ELSE [c EXCEPT !.st[s].input = "trailers"]
      [] frame = "data" ->
            IF c.st[s].length # -1 /\ c.st[s].length - c.st[s].received < 1
            THEN ShutdownStream(c, s, inGenerator, FALSE)
            ELSE [c EXCEPT !.st[s].hasBody = TRUE, !.st[s].body = @ + 1, !.st[s].received = @ + 1]
      [] OTHER -> c

\* handle_input_post_trailers
PostTrailers(c, s, frame) == IF frame \in {"headers", "data"} THEN CloseConnection(c) ELSE c

\* One call of recvbuf.handle_input.
HandleInput(c, s, frame, inGenerator) ==
    CASE c.st[s].input = "headers" ->
            CASE frame \in Kinds -> ExpectHeaders(c, s, frame)
              [] frame = "data" -> CloseConnection(c)
              [] OTHER -> c
      [] c.st[s].input = "data" ->
            ExpectData(c, s, IF frame \in Kinds THEN "headers" ELSE frame, inGenerator)
      [] OTHER -> PostTrailers(c, s, IF frame \in Kinds THEN "headers" ELSE frame)

Interrupted(c, s) ==
    c.quic # "connected" \/ c.st[s].state = "close_wait" \/ c.st[s].readBlocked \/ c.st[s].stop

Consumed(c, s) == [c |-> c, over |-> Interrupted(c, s)]

\* The loop of handle_buffered_input over the received frames: it stops on an
\* error, when the stream is closed, or when reading gets blocked.
ConsumeFrames(c, s, inGenerator) ==
    FoldLeft(LAMBDA acc, frame :
                IF acc.over THEN acc
                ELSE Consumed(HandleInput([acc.c EXCEPT !.st[s].buf = Tail(@)], s, frame, inGenerator), s),
             [c |-> c, over |-> FALSE], c.st[s].buf).c

\* handle_buffered_input, once the frames are consumed: the request is complete.
RequestComplete(c, s, inGenerator) ==
    LET st == c.st[s]
        delayed == RequestRunDelayed(IF StreamLinked(c, s) THEN c ELSE [c EXCEPT !.streaming = Append(@, s)])
        sane == Asserted(c, st.state \in {"recv_headers", "before_block", "unblocked"}, "unexpected state")
        queued == SetState(sane, s, "req_pending", inGenerator)
    IN  CASE st.length # -1 /\ st.length # st.received -> ShutdownStream(c, s, inGenerator, FALSE)
          [] st.writeReq -> delayed
          [] ~st.writeReq /\ ~st.called /\ Rank(st.state) < Rank("send_headers") ->
                RequestRunDelayed([queued EXCEPT !.pending = Append(@, s)])
          [] OTHER -> c

\* handle_buffered_input; `had`: there was something to consume
AfterFrames(c, s, had, inGenerator) ==
    LET st == c.st[s]
        blocked == [c EXCEPT !.st[s].readBlocked = TRUE, !.blocked = Append(@, s)]
    IN  CASE c.quic # "connected" \/ st.state = "close_wait" \/ (had /\ st.readBlocked) -> c
          [] OTHER ->
               CASE st.recv # "open" ->
                      IF st.buf = <<>> /\ st.input \in {"data", "trailers"}
                      THEN RequestComplete(c, s, inGenerator)
                      ELSE ShutdownStream(c, s, inGenerator, FALSE)
                 [] st.recv = "open" /\ st.state = "before_block" /\ st.body >= 1 ->
                      CheckRunBlocked(SetState(blocked, s, "blocked", inGenerator))
                 [] st.recv = "open" /\ st.writeReq /\ st.body # 0 ->
                      RequestRunDelayed(IF StreamLinked(c, s) THEN c ELSE [c EXCEPT !.streaming = Append(@, s)])
                 [] OTHER -> c
HandleBufferedInput(c, s, inGenerator) ==
    IF c.st[s].state = "close_wait" THEN c
    ELSE AfterFrames(ConsumeFrames(c, s, inGenerator), s, c.st[s].buf # <<>>, inGenerator)

-----------------------------------------------------------------------------
(* Actions: callbacks of the transport *)

On(event) == event \in h3.scene.events

Live(s) == h3.st[s].quic = "open" /\ h3.quic = "connected" /\ h3.run = "off"

\* stream_open_cb
StreamOpened(c, s) ==
    IF c.st[s].quic # "idle" THEN c
    ELSE [c EXCEPT !.st[s].quic = "open", !.cnt["recv_headers"] = @ + 1, !.conn = "active"]

\* on_receive: the frame (and the end of the stream) is buffered and handled.
OnReceive(s, frame, fin) ==
    LET c == StreamOpened(h3, s)
        st == c.st[s]
        got == [c EXCEPT !.st[s].buf = IF frame = "nothing" THEN @ ELSE Append(@, frame),
                         !.st[s].frames = @ + 1, !.st[s].recv = IF fin THEN "eos" ELSE @]
    IN  /\ h3.quic = "connected" /\ h3.run = "off"
        /\ st.quic = "open" /\ st.recv = "open" /\ st.frames < h3.scene.frames
        /\ st.frames = 0 => frame # "nothing"
        /\ frame = "nothing" => fin
        /\ frame = "unknown" => On("unknown")
        /\ h3' = IF st.readBlocked \/ st.stop \/ st.state = "close_wait" THEN got
                 ELSE HandleBufferedInput(got, s, FALSE)

\* on_receive_reset
OnReceiveReset(s) ==
    /\ On("reset") /\ Live(s) /\ h3.st[s].recv = "open"
    /\ h3' = IF h3.st[s].state = "close_wait" THEN [h3 EXCEPT !.st[s].recv = "reset"]
             ELSE ShutdownStream([h3 EXCEPT !.st[s].recv = "reset"], s, FALSE, TRUE)

\* on_send_stop: STOP_SENDING from the client (quicly resets the send side).
OnSendStop(s) ==
    /\ On("stop") /\ Live(s) /\ h3.st[s].state # "close_wait" /\ ~(~h3.st[s].open /\ h3.st[s].finSent)
    /\ h3' = ShutdownStream(ResetStream(h3, s), s, FALSE, FALSE)

\* on_send_shift: the first n vectors are acknowledged.
OnSendShift(s, n) ==
    LET st == h3.st[s]
        shifted == [h3 EXCEPT !.st[s].size = @ - n, !.st[s].sent = @ - n]
    IN  /\ Live(s) /\ st.state # "close_wait" /\ n \in 1 .. st.sent /\ ~st.lost
        /\ h3' = IF st.size > n THEN shifted
                 ELSE IF st.open
                 THEN Asserted(shifted, Rank(st.state) \in Rank("before_block") .. Rank("send_headers") \/ st.proceed,
                             "nothing left, not proceeding")
                 ELSE SetState(RequestStop(shifted, s), s, "close_wait", FALSE)

\* quicly declares emitted data lost and tells the scheduler.
OnLost(s) ==
    /\ On("loss") /\ Live(s) /\ h3.st[s].sent > 0 /\ ~h3.st[s].lost /\ h3.st[s].state # "close_wait"
    /\ h3' = UpdateState([h3 EXCEPT !.st[s].lost = TRUE], s)

\* scheduler_do_send, for the stream at the head: emission (on_send_emit,
\* with retain_sendvecs), the synchronous h2o_proceed_response that lets the
\* generator answer with `reply`, and the rescheduling.
AfterEmission(c, s) ==
    LET st == c.st[s]
    IN  [c EXCEPT !.sched =
            IF ~CanSend(st) THEN Deactivate(@, s, st.node)
            ELSE IF Capped(c, st) THEN ConnBlocked(@, s, st.node)
            ELSE SetupForNext(@, s, st.node)]

OnSendEmit(c, s) ==
    LET st == c.st[s]
        proceeds == st.state = "send_body" /\ st.open /\ ~st.proceed /\ st.size > 0
    IN  [c EXCEPT !.st[s].sent = st.size, !.st[s].lost = FALSE, !.st[s].finSent = ~st.open,
                  !.st[s].node.calls = IF @ = 0 THEN 1 ELSE @,
                  !.st[s].proceed = @ \/ proceeds, !.st[s].proceeding = proceeds]

SchedulerDoSend(reply) ==
    /\ h3.quic = "connected" /\ h3.run = "off" /\ h3.sched.smallest < Levels
    /\ LET s == FirstActive(h3.sched)
           emitted == OnSendEmit(h3, s)
           asked == emitted.st[s].proceeding
           given == CASE reply = "later" -> [emitted EXCEPT !.st[s].turn = asked]
                      [] reply = "more" -> DoSend(emitted, s, 1, "in_progress")
                      [] reply = "end" -> DoSend([emitted EXCEPT !.st[s].final = TRUE], s, 0, "final")
       IN  IF Capped(h3, h3.st[s])
           THEN /\ reply = "later"
                /\ h3' = [h3 EXCEPT !.sched = ConnBlocked(@, s, h3.st[s].node)]
           ELSE /\ ~asked => reply = "later"
                /\ h3.st[s].size < h3.scene.vectors
                /\ h3' = AfterEmission([given EXCEPT !.st[s].proceeding = FALSE], s)

\* scheduler_can_send: connection-level credit comes and goes.
SchedulerCanSend ==
    /\ On("saturate") /\ h3.quic = "connected" /\ h3.run = "off"
    /\ h3' = IF h3.saturated
             THEN [h3 EXCEPT !.saturated = FALSE,
                             !.sched = UnblockConnBlocked(@, [s \in Streams |-> h3.st[s].node])]
             ELSE [h3 EXCEPT !.saturated = TRUE]

\* on_stream_destroy
StreamDestroyed(c, s) ==
    LET st == c.st[s]
        gone == UnlinkStream([c EXCEPT !.cnt[st.state] = @ - 1, !.sched = Deactivate(@, s, st.node),
                                       !.respBlocked = Without(@, s)], s)
        disposed == DisposeRequest(IF st.state = "close_wait" THEN gone ELSE PreDisposeRequest(gone, s), s)
        others == {t \in Streams \ {s} : c.st[t].quic = "open"}
    IN  [disposed EXCEPT !.st[s].quic = "gone",
                         !.conn = IF others = {} THEN "idle" ELSE @]

OnStreamDestroy(s) ==
    /\ Live(s) /\ h3.st[s].state = "close_wait" /\ h3.st[s].recv # "open"
    /\ ~h3.st[s].open /\ h3.st[s].finSent
    /\ h3' = StreamDestroyed(h3, s)

\* handle_control_stream_frame, SETTINGS: the responses that waited for it go out.
ReceiveSettings ==
    /\ On("settings") /\ h3.quic = "connected" /\ h3.run = "off" /\ h3.settings = "none"
    /\ h3' = FoldLeft(LAMBDA c, s : DoSend([c EXCEPT !.respBlocked = Without(@, s)], s, 0, "in_progress"),
                      [h3 EXCEPT !.settings = "received"], h3.respBlocked)

\* handle_control_stream_frame, PRIORITY_UPDATE: handle_priority_update_frame
\* and handle_priority_change; it may open the stream.
ReceivePriorityUpdate(s, u, i) ==
    LET c == StreamOpened(h3, s)
        st == c.st[s]
        linked == IsLinked(c.sched, s)
        off == IF linked THEN Deactivate(c.sched, s, st.node) ELSE c.sched
        node == [st.node EXCEPT !.urgency = u, !.incremental = i]
    IN  /\ On("priority") /\ h3.quic = "connected" /\ h3.run = "off" /\ h3.settings # "none"
        /\ st.quic = "open" /\ ~st.prioritized
        /\ h3' = [c EXCEPT !.st[s].prioritized = TRUE, !.st[s].node = node,
                           !.sched = IF linked THEN Activate(off, s, node) ELSE off]

\* datagram_frame_receive_cb
ReceiveDatagram(f) ==
    /\ On("datagram") /\ h3.quic = "connected" /\ h3.run = "off" /\ h3.flows[f] # NoStream
    /\ h3' = Asserted(h3, h3.st[h3.flows[f]].forward, "datagram without a handler")

-----------------------------------------------------------------------------
(* Actions: the timers of the connection *)

\* run_delayed, one step of its loop: promote a blocked stream, then submit
\* what the streamed requests received, then process the complete requests;
\* again while there was progress.  Nothing but the generator runs meanwhile.
RunDelayed ==
    /\ h3.run = "off" /\ h3.timer /\ h3.quic # "gone"
    /\ h3' = [h3 EXCEPT !.timer = FALSE, !.run = "promote", !.progress = FALSE]

IfConnected(c) == IF c.quic # "connected" THEN [c EXCEPT !.run = "off"] ELSE c

RunPromote(installs) ==
    LET s == Head(h3.blocked)
        sane == Asserted(h3, h3.st[s].state = "blocked" /\ h3.st[s].readBlocked, "promoted stream")
        c == [sane EXCEPT !.blocked = Tail(@), !.run = "submit", !.progress = TRUE]
        unblocked == SetState([c EXCEPT !.st[s].readBlocked = FALSE], s, "unblocked", FALSE)
    IN  /\ h3.run = "promote"
        /\ IF ~(HasRoom(h3) /\ h3.blocked # <<>>)
           THEN h3' = [h3 EXCEPT !.run = "submit"] /\ installs
           ELSE IF s \in Forwards
           THEN h3' = ProcessRequest(SetState([c EXCEPT !.st[s].streaming = TRUE, !.nStreaming = @ + 1],
                                              s, "send_headers", FALSE), s, installs)
           ELSE /\ installs
                /\ h3' = IfConnected(HandleBufferedInput(unblocked, s, FALSE))

RunSubmit(ok) ==
    LET s == Head(h3.streaming)
        st == h3.st[s]
        sane == Asserted(h3, st.called /\ st.writeReq /\ st.hasBody /\ ~st.readBlocked
                           /\ (st.body # 0 \/ st.recv # "open"), "submitted stream")
        c == [sane EXCEPT !.streaming = Tail(@), !.st[s].readBlocked = TRUE, !.progress = TRUE]
    IN  /\ h3.run = "submit"
        /\ IF h3.streaming = <<>> THEN ok /\ h3' = [h3 EXCEPT !.run = "process"]
           ELSE h3' = IF ok THEN [c EXCEPT !.st[s].owed = TRUE] ELSE ShutdownStream(c, s, FALSE, TRUE)

RunProcess ==
    LET s == Head(h3.pending)
        st == h3.st[s]
        sane == Asserted(h3, st.state = "req_pending" /\ ~st.called /\ ~st.readBlocked, "processed stream")
        c == [sane EXCEPT !.pending = Tail(@), !.progress = TRUE]
    IN  /\ h3.run = "process"
        /\ h3' = IF h3.pending # <<>>
                 THEN ProcessRequest(SetState(c, s, "send_headers", FALSE), s, FALSE)
                 ELSE [h3 EXCEPT !.run = IF h3.progress THEN "promote" ELSE "off", !.progress = FALSE]

\* initiate_graceful_shutdown: only connections not yet shutting down get it.
InitiateGracefulShutdown ==
    /\ On("shutdown") /\ h3.quic = "connected" /\ h3.run = "off" /\ h3.conn # "shutdown"
    /\ h3' = [Asserted(h3, h3.shutdownCb = "null", "shutdown callback") EXCEPT
                !.conn = "shutdown", !.shutdownCb = "resend", !.goaway = 1, !.shutdownTimer = TRUE]

\* graceful_shutdown_resend_goaway, graceful_shutdown_close_straggler
GracefulShutdownTimer ==
    /\ h3.shutdownTimer /\ h3.run = "off" /\ h3.quic # "gone"
    /\ h3' = IF h3.shutdownCb = "straggler"
             THEN [CloseConnection(h3) EXCEPT !.shutdownTimer = FALSE, !.shutdownCb = "null"]
             ELSE IF h3.quic # "connected" THEN [h3 EXCEPT !.shutdownTimer = FALSE]
             ELSE [h3 EXCEPT !.goaway = 2, !.shutdownTimer = ShutdownWaits,
                             !.shutdownCb = IF ShutdownWaits THEN "straggler" ELSE "null"]

\* The connection ends: quicly destroys every stream, then on_h3_destroy runs
\* and checks that nothing is left.
OnH3Destroy ==
    LET open == SetToSortSeq({s \in Streams : h3.st[s].quic = "open"}, <)
        c == FoldLeft(StreamDestroyed, h3, open)
    IN  /\ h3.quic # "gone" /\ h3.run = "off"
        /\ h3' = [Asserted(c, /\ \A x \in ToSet(States) : c.cnt[x] = 0
                            /\ c.nStreaming = 0 /\ c.nTunnel = 0
                            /\ c.blocked = <<>> /\ c.streaming = <<>> /\ c.pending = <<>>
                            /\ c.respBlocked = <<>> /\ c.sched.blocked = <<>>
                            /\ c.sched.smallest = Levels, "left over") EXCEPT
                    !.quic = "gone", !.timer = FALSE, !.shutdownTimer = FALSE]

-----------------------------------------------------------------------------
(* Actions: the generator *)

\* The generator answers when it has its turn (outside of SchedulerDoSend).
GeneratorSend(s, chunks, sendState) ==
    /\ h3.st[s].turn /\ ~h3.st[s].disposed /\ h3.quic # "gone" /\ h3.st[s].quic = "open" /\ h3.st[s].size < h3.scene.vectors
    /\ sendState = "in_progress" => (chunks = 1 \/ h3.st[s].state = "send_headers")
    /\ h3' = DoSend([h3 EXCEPT !.st[s].final = sendState = "final"], s, chunks, sendState)

\* proceed_request_streaming: the generator consumed the body it was given, or
\* failed to send it (failed).
ProceedRequestStreaming(s, failed) ==
    LET st == h3.st[s]
        sane == Asserted(h3, /\ st.hasBody
                           /\ (failed \/ ~StreamLinked(h3, s))
                           /\ (h3.nStreaming # 0 \/ st.tunnel), "proceed")
        c == [sane EXCEPT !.st[s].owed = FALSE]
        over == failed \/ (st.recv # "open" /\ (st.recv = "reset" \/ st.buf = <<>>))
        tidy == CheckRunBlocked([c EXCEPT !.st[s].writeReq = FALSE, !.st[s].forward = FALSE,
                                          !.st[s].streaming = FALSE,
                                          !.nStreaming = IF st.tunnel THEN @ ELSE @ - 1])
        kept == IF over THEN tidy ELSE c
    IN  /\ st.owed /\ st.state # "close_wait" /\ h3.quic # "gone" /\ st.quic = "open"
        /\ h3' = IF failed \/ (over /\ st.recv = "reset") THEN ShutdownStream(tidy, s, TRUE, TRUE)
                 ELSE HandleBufferedInput([kept EXCEPT !.st[s].body = 0, !.st[s].readBlocked = FALSE], s, TRUE)

-----------------------------------------------------------------------------
Init == \E scene \in Scenes : h3 = InitConn(scene)

\* Frames the client sends; "nothing" is the end of the stream on its own.
Frames == h3.scene.requests \cup {"data", "unknown", "nothing"}

TransportStep(s) ==
    \/ \E f \in Frames, fin \in BOOLEAN : OnReceive(s, f, fin)
    \/ OnReceiveReset(s)
    \/ OnSendStop(s)
    \/ \E n \in 1 .. 3 : OnSendShift(s, n)
    \/ OnLost(s)
    \/ OnStreamDestroy(s)
    \/ \E u \in Urgencies, i \in BOOLEAN : ReceivePriorityUpdate(s, u, i)
    \/ ReceiveDatagram(s)

GeneratorStep(s) ==
    \/ \E n \in 0 .. 1, f \in {"in_progress", "final"} : GeneratorSend(s, n, f)
    \/ \E failed \in BOOLEAN : ProceedRequestStreaming(s, failed)

ConnectionStep ==
    \/ \E r \in {"later", "more", "end"} : SchedulerDoSend(r)
    \/ SchedulerCanSend
    \/ ReceiveSettings
    \/ RunDelayed
    \/ \E b \in BOOLEAN : RunPromote(b)
    \/ \E b \in BOOLEAN : RunSubmit(b)
    \/ RunProcess
    \/ InitiateGracefulShutdown
    \/ GracefulShutdownTimer
    \/ OnH3Destroy

\* a failed assertion ends the process
Next == h3.failed = {} /\ (ConnectionStep \/ \E s \in h3.scene.streams : TransportStep(s) \/ GeneratorStep(s))

Spec == Init /\ [][Next]_h3

-----------------------------------------------------------------------------
(* Properties *)

\* datagram_frame_receive_cb asserts a hook that is gone before the flow is; a
\* second request to shut down finds the callback of the first
KnownFailures == {"datagram without a handler", "shutdown callback"}

\* No assertion of server.c (other than the known ones) fails: streams are on the list their state calls
\* for, counts never go below what is given back, a stream is shut down once,
\* and nothing is left when the connection is destroyed.
NoAssertionFails == h3.failed # {} => h3.failed \cap KnownFailures # {}

\* The counts the admission of request bodies is decided by are those of the
\* streams: a request that ends, in whatever way, gives its place back.
AdmissionCountsMatch ==
    /\ h3.nStreaming = Cardinality({s \in Streams : h3.st[s].streaming /\ ~h3.st[s].tunnel})
    /\ \A x \in ToSet(States) :
         h3.cnt[x] = Cardinality({s \in Streams : h3.st[s].quic = "open" /\ h3.st[s].state = x})

\* While a request waits to be admitted and there is room for it, the delayed
\* processing is scheduled: a blocked request is not forgotten.
BlockedRequestsRun ==
    h3.quic = "connected" /\ h3.run = "off" /\ h3.blocked # <<>> /\ HasRoom(h3) => h3.timer

\* The scheduler knows exactly the streams that have something to send, and its
\* cached urgency is the smallest active one.
SchedulerIsExact ==
    h3.quic # "gone" =>
      /\ SmallestIsExact(h3.sched)
      /\ \A s \in Streams : h3.st[s].quic = "open" => (IsLinked(h3.sched, s) <=> CanSend(h3.st[s]))

\* A datagram flow leads to a stream that exists and whose request still has
\* its forwarding hook, as the assertion of datagram_frame_receive_cb says.
FlowsHaveHandler ==
    h3.quic = "connected" =>
      \A f \in Streams : h3.flows[f] # NoStream =>
        h3.st[h3.flows[f]].quic = "open" /\ h3.st[h3.flows[f]].forward
=============================================================================
