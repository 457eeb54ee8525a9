----------------------------- MODULE Http2Client -----------------------------
(***************************************************************************)
(* The HTTP/2 client (lib/common/http2client.c): one connection to an      *)
(* upstream, the requests multiplexed over it, their users (of which       *)
(* lib/core/proxy.c is the one modelled by `user`) and the upstream.       *)
(*                                                                         *)
(* Body bytes are units.  Frames for the upstream are kept as what they    *)
(* change there: what a stream has `out`, and the window it was granted.   *)
(* A callback of the event loop that works through a list (the frames of a *)
(* read, the streams that were sent) is in progress while `phase` is not   *)
(* "idle"; nothing else happens meanwhile.                                 *)
(***************************************************************************)
EXTENDS Integers, Sequences, FiniteSets, SequencesExt

CONSTANTS
    Requests,       \* stream identifiers, in the order they are used
    InitialWindow,  \* the window a stream and the connection start with, for sending
    ConnWindow,     \* the window of the connection, for receiving
    MaxBuffer,      \* max_buffer_size
    MaxUnits,       \* bound on the units of a body, either way
    MaxFrame,       \* max_frame_size of the upstream
    Scenes

VARIABLE hc

-----------------------------------------------------------------------------

Asserted(c, ok, name) == IF ok THEN c ELSE [c EXCEPT !.failed = @ \cup {name}]
Can(event) == event \in hc.scene.events
NoLength == -1

\* setup_stream
NewStream ==
    [st |-> "none", req |-> "head", res |-> "head", hasBuf |-> FALSE, buf |-> 0, win |-> 0, proceed |-> FALSE, own |-> FALSE,
     timer |-> FALSE, forbidden |-> FALSE, left |-> NoLength, body |-> 0, inWin |-> MaxBuffer,
     \* the user: whether it holds the client, what it has given, what it was told
     user |-> "none", given |-> 0, reqDone |-> FALSE, resDone |-> FALSE,
     \* the upstream: what it was sent, how far it answered, and the window it knows of
     seen |-> FALSE, out |-> 0, ended |-> FALSE, answer |-> "head", sent |-> 0, peerWin |-> MaxBuffer]
\* create_connection, and what send_client_preface puts into the buffer
NewConn(scene) ==
    [scene |-> scene, state |-> "none", streams |-> [i \in Requests |-> NewStream], linked |-> FALSE, io |-> FALSE, keepalive |-> FALSE,
     defer |-> FALSE, buf |-> FALSE, inflight |-> FALSE, writing |-> "no", sending |-> <<>>, sentStreams |-> <<>>,
     initial |-> InitialWindow, win |-> InitialWindow, inWin |-> ConnWindow, peerWin |-> ConnWindow,
     granted |-> [i \in Requests \cup {0} |-> 0], flying |-> [i \in Requests \cup {0} |-> 0],
     reader |-> "settings", unparsed |-> <<>>, phase |-> "idle", told |-> {}, failed |-> {}]

S(c, i) == c.streams[i]
Live(c) == {i \in Requests : S(c, i).st = "live"}
Linked(c, i) == \E list \in {c.sending, c.sentStreams} : Contains(list, i)

-----------------------------------------------------------------------------
(* Writing *)

\* request_write
RequestWrite(c) ==
    IF c.state = "closing" \/ c.writing # "no" THEN c ELSE [c EXCEPT !.defer = TRUE]

\* enqueue_window_update, for the connection
UpdateConnWindow(c) ==
    IF c.inWin * 2 >= ConnWindow THEN c
    ELSE RequestWrite([c EXCEPT !.buf = TRUE, !.granted[0] = @ + (ConnWindow - c.inWin), !.inWin = ConnWindow])
\* do_update_window
UpdateWindow(c, i) ==
    LET desired == MaxBuffer - S(c, i).body IN
    IF S(c, i).inWin * 2 >= desired THEN Asserted(c, desired >= 0, "bufsize")
    ELSE RequestWrite([c EXCEPT !.buf = TRUE, !.granted[i] = @ + (desired - S(c, i).inWin), !.streams[i].inWin = desired])

\* stream_send_error
SendError(c) == RequestWrite([Asserted(c, c.state # "closing", "stream_send_error") EXCEPT !.buf = TRUE])

\* stream_emit_pending_data.  The buffer of the connection takes any number of frames.
MinOf(a, b) == IF a < b THEN a ELSE b
PayloadSize(c, i) ==
    IF c.win <= 0 \/ S(c, i).win <= 0 THEN 0 ELSE MinOf(MinOf(MinOf(c.win, S(c, i).win), MaxFrame), S(c, i).buf)
EmitData(c, i, n, end) ==
    IF n = 0 /\ ~end THEN c
    ELSE [c EXCEPT !.buf = TRUE, !.win = @ - n, !.streams[i].win = @ - n, !.streams[i].buf = @ - n,
                   !.streams[i].out = @ + n, !.streams[i].ended = end]
EmitPendingData(c, i, n) == EmitData(c, i, n, ~S(c, i).proceed /\ n = S(c, i).buf)

\* do_emit_writereq
AfterEmit(c, i) ==
    IF S(c, i).buf = 0 THEN [c EXCEPT !.sentStreams = Append(@, i)]
    ELSE IF S(c, i).win > 0 /\ ~S(c, i).own THEN [c EXCEPT !.sending = Append(@, i)]
    ELSE c
EmitStream(c, i) ==
    AfterEmit(IF S(c, i).hasBuf /\ ~S(c, i).own THEN EmitPendingData(c, i, PayloadSize(c, i)) ELSE c, i)
EmitStreams(c, pending) == FoldLeft(EmitStream, [c EXCEPT !.sending = <<>>], pending)
SocketWrite(c) ==
    IF ~c.buf THEN c
    ELSE [c EXCEPT !.buf = FALSE, !.inflight = TRUE, !.writing = "write", !.io = TRUE,
                   !.flying = c.granted, !.granted = [i \in DOMAIN @ |-> 0],
                   !.streams = [i \in Requests |-> [@[i] EXCEPT !.seen = @ \/ i \in Live(c)]]]
DoEmitWritereq(c) == SocketWrite(EmitStreams(Asserted(c, ~c.inflight, "buf_in_flight"), c.sending))

-----------------------------------------------------------------------------
(* Streams and the connection, closed *)

\* unregister_stream
Unregister(c, i) == [Asserted(c, S(c, i).st = "live", "unregister_stream") EXCEPT !.streams[i].st = "gone"]
KeepaliveIfIdle(c) ==
    IF Live(c) # {} THEN c ELSE [Asserted(c, ~c.keepalive, "keepalive_timeout is linked") EXCEPT !.keepalive = TRUE]
\* close_stream
CloseStream(c, i) ==
    KeepaliveIfIdle([Unregister(c, i) EXCEPT !.streams[i].timer = FALSE, !.streams[i].hasBuf = FALSE, !.streams[i].buf = 0,
                                             !.sending = SelectSeq(@, LAMBDA j : j # i),
                                             !.sentStreams = SelectSeq(@, LAMBDA j : j # i)])
\* close_response
CloseResponse(c, i) ==
    LET d == [Asserted(c, S(c, i).res # "closed", "close_response") EXCEPT !.streams[i].res = "closed"]
    IN  IF S(c, i).req = "closed" THEN CloseStream(d, i) ELSE d

\* The user is told that the exchange is over: it no longer holds the client, and must
\* not be told again.
Told(c, i) == [Asserted(c, S(c, i).user = "holds", "callback after the end") EXCEPT !.streams[i].user = "detached"]
\* call_callback_with_error
CallbackWithError(c, i) ==
    IF S(c, i).res # "closed" THEN Told(c, i)
    ELSE IF S(c, i).proceed THEN Told([c EXCEPT !.streams[i].proceed = FALSE], i)
    ELSE c
\* call_stream_callbacks_with_error
AllCallbacks(c) == FoldLeft(CallbackWithError, c, SetToSeq(Live(c)))

\* close_connection_now
CloseStreams(c) == FoldLeft(CloseStream, c, SetToSeq(Live(c)))
CloseNow(c) ==
    [Asserted(CloseStreams(c), CloseStreams(c).sending \o CloseStreams(c).sentStreams = <<>>, "close_connection_now") EXCEPT
        !.state = "freed", !.linked = FALSE, !.io = FALSE, !.keepalive = FALSE, !.defer = FALSE, !.buf = FALSE,
        !.inflight = FALSE, !.writing = "no", !.unparsed = <<>>, !.phase = "idle"]
\* close_connection_if_necessary
CloseIfNecessary(c) ==
    IF c.state = "closing" \/ (c.state = "half" /\ Live(c) = {}) THEN CloseNow(c) ELSE c
\* close_connection
CloseConnection(c) ==
    IF c.inflight \/ c.defer THEN [c EXCEPT !.state = "closing"] ELSE CloseNow([c EXCEPT !.state = "closing"])
\* enqueue_goaway
EnqueueGoaway(c) ==
    IF c.state = "closing" THEN c ELSE [RequestWrite([c EXCEPT !.buf = TRUE]) EXCEPT !.state = "half", !.linked = FALSE]

\* stream_send_error, call_callback_with_error and close_stream
StreamError(c, i) == CloseStream(CallbackWithError(SendError(c), i), i)
\* without the callback
ResetStream(c, i) == CloseStream(SendError(c), i)
\* what parse_input does with an error of the connection
ConnError(c) == CloseConnection(AllCallbacks(EnqueueGoaway(c)))

-----------------------------------------------------------------------------
(* The user *)

\* The callbacks of proxy.c: it lets go of the client when request and response are
\* both done.
UserDone(c, i) == IF S(c, i).reqDone /\ S(c, i).resDone THEN [c EXCEPT !.streams[i].user = "detached"] ELSE c
UserEos(c, i) ==
    UserDone([Asserted(c, S(c, i).user = "holds", "callback after the end") EXCEPT !.streams[i].resDone = TRUE], i)

\* register_stream, and on_connection_ready once on_connect has returned
Register(c, i) ==
    [c EXCEPT !.streams[i].st = "live", !.streams[i].user = "holds", !.streams[i].win = c.initial, !.keepalive = FALSE, !.io = TRUE]
SendHeaders(c, i, whole, streamed, own) ==
    RequestWrite([c EXCEPT !.buf = TRUE, !.sending = Append(@, i),
                           !.streams[i].req = IF whole > 0 \/ streamed THEN "body" ELSE "closed",
                           !.streams[i].ended = ~(whole > 0 \/ streamed),
                           !.streams[i].hasBuf = whole > 0 \/ streamed,
                           !.streams[i].buf = whole, !.streams[i].given = whole,
                           !.streams[i].proceed = streamed, !.streams[i].reqDone = ~streamed,
                           !.streams[i].own = own /\ (whole > 0 \/ streamed),
                           !.streams[i].forbidden = c.scene.head])
\* h2o_httpclient__h2_on_connect on a new socket: create_connection, send_client_preface
Open(c) == IF c.state = "none" THEN RequestWrite([c EXCEPT !.state = "open", !.linked = TRUE, !.buf = TRUE]) ELSE c
OnConnect(i) ==
    /\ hc.state = "none" \/ (hc.state = "open" /\ hc.linked)
    /\ hc.phase = "idle"
    /\ i \in hc.scene.requests /\ S(hc, i).st = "none" /\ \A j \in Requests : j < i => S(hc, j).st # "none"
    /\ \E b \in hc.scene.bodies :
          hc' = SendHeaders(Register(Open(hc), i), i, b.whole, b.streamed, hc.scene.own)
\* on_connect gives up: close_stream before anything was sent
OnConnectRefused(i) ==
    /\ Can("refuse")
    /\ hc.phase = "idle" /\ (hc.state = "none" \/ (hc.state = "open" /\ hc.linked))
    /\ i \in hc.scene.requests /\ S(hc, i).st = "none" /\ \A j \in Requests : j < i => S(hc, j).st # "none"
    /\ hc' = CloseStream([Register(Open(hc), i) EXCEPT !.streams[i].user = "detached"], i)

\* do_write_req
WriteReq(c, i, n, end) ==
    RequestWrite([Asserted(Asserted(c, S(c, i).proceed, "proceed_req"), ~Linked(c, i), "sending_link") EXCEPT
        !.streams[i].proceed = ~end, !.streams[i].hasBuf = TRUE, !.streams[i].buf = @ + n, !.streams[i].given = @ + n,
        !.streams[i].reqDone = end, !.sending = Append(@, i)])
UserWrites(c, i, n, end) == UserDone(WriteReq(c, i, n, end), i)
\* do_cancel
DoCancel(c, i) == ResetStream([c EXCEPT !.streams[i].user = "detached"], i)

\* The user provides more of the body after proceed_req was called.
Chunks(i) == {b \in [n : {0, 1}, end : BOOLEAN] : (b.n = 1 \/ b.end) /\ S(hc, i).given + b.n <= MaxUnits}
UserWrite(i) ==
    /\ hc.phase = "idle" /\ S(hc, i).user = "holds" /\ S(hc, i).proceed /\ i \in hc.told
    /\ \E b \in Chunks(i) : hc' = UserWrites([hc EXCEPT !.told = @ \ {i}], i, b.n, b.end)
UserCancel(i) ==
    /\ Can("cancel") /\ hc.phase = "idle" /\ S(hc, i).user = "holds"
    /\ hc' = DoCancel(hc, i)
\* The user takes what was received and calls update_window.
UserRead(i) ==
    /\ hc.phase = "idle" /\ S(hc, i).user = "holds" /\ ~S(hc, i).resDone /\ S(hc, i).body > 0
    /\ hc' = UpdateWindow([hc EXCEPT !.streams[i].body = 0], i)

-----------------------------------------------------------------------------
(* Frames from the upstream *)

\* on_head.  kind: "100", "103", "final", "forbidden" (204 or 304), "invalid" or
\* "101"; how the user answers: "more" or "null".
Continue100(c, i) ==
    LET d == [c EXCEPT !.streams[i].own = FALSE]
    IN  IF S(c, i).hasBuf /\ ~Linked(c, i) THEN RequestWrite([d EXCEPT !.sending = Append(@, i)]) ELSE d
HeadAnswered(c, i, end, answer) ==
    IF end THEN CloseResponse(UserEos(c, i), i)
    ELSE IF answer = "null" THEN ResetStream(Told(c, i), i)
    ELSE [Asserted(c, S(c, i).user = "holds", "callback after the end") EXCEPT !.streams[i].res = "body"]
OnHead(c, i, head, end, answer) ==
    CASE head.kind \in {"101", "invalid"} -> StreamError(c, i)
      [] head.kind = "100" /\ S(c, i).own -> Continue100(c, i)
      [] head.kind \in {"100", "103"} /\ ~(head.kind = "100" /\ S(c, i).own) ->
            IF answer = "null" THEN ResetStream(Told(c, i), i) ELSE c
      [] OTHER ->
            HeadAnswered([c EXCEPT !.streams[i].forbidden = @ \/ head.kind = "forbidden",
                                   !.streams[i].left = head.length], i, end, answer)
\* on_trailers
OnTrailers(c, i, head, answer) ==
    IF head.kind = "invalid" THEN StreamError(c, i)
    ELSE IF answer = "null" THEN ResetStream(Told(Asserted(c, S(c, i).res = "body", "on_trailers"), i), i)
    ELSE CloseResponse(UserEos(Asserted(c, S(c, i).res = "body", "on_trailers"), i), i)
OnHeaderBlock(c, i, head, end, answer) ==
    IF i \notin Live(c) THEN c
    ELSE IF S(c, i).res = "body" THEN OnTrailers(c, i, head, answer)
    ELSE OnHead(c, i, head, end, answer)

\* handle_headers_frame
HandleHeaders(c, i, head, end, whole, answer) ==
    LET d == [c EXCEPT !.streams[i].timer = FALSE] IN
    IF i \in Live(c) /\ S(c, i).res = "body" /\ ~end THEN ConnError(d)
    ELSE IF ~whole THEN [d EXCEPT !.reader = "continuation", !.unparsed = <<i, head, end>>]
    ELSE OnHeaderBlock(d, i, head, end, answer)
\* expect_continuation_of_headers
HandleContinuation(c, answer) ==
    LET i == c.unparsed[1] IN
    IF i \in Live(c) /\ S(c, i).res = "closed" THEN ConnError(c)
    ELSE OnHeaderBlock([c EXCEPT !.reader = "default", !.unparsed = <<>>], i, c.unparsed[2], c.unparsed[3], answer)

\* handle_data_frame
UnknownData(c, n) == UpdateConnWindow([c EXCEPT !.inWin = @ - n])
BodyTaken(c, i, takes) == IF takes THEN [c EXCEPT !.streams[i].body = 0] ELSE c
MoreBody(c, i) == UpdateWindow(UpdateConnWindow(c), i)
KeepData(c, i, n, end, answer) ==
    LET d == [c EXCEPT !.streams[i].left = IF @ = NoLength THEN @ ELSE @ - n, !.streams[i].body = @ + n,
                       !.inWin = @ - n, !.streams[i].inWin = @ - n]
    IN  IF answer = "null" THEN ResetStream(Told(d, i), i)
        ELSE IF end THEN CloseResponse(UserEos(BodyTaken(d, i, TRUE), i), i)
        ELSE MoreBody(BodyTaken(Asserted(d, S(d, i).user = "holds", "callback after the end"), i, answer = "takes"), i)
HandleData(c, i, n, end, answer) ==
    IF i \notin Live(c) THEN UnknownData(c, n)
    ELSE IF \/ S(c, i).res # "body"
            \/ S(c, i).forbidden /\ n > 0
            \/ S(c, i).left # NoLength /\ n > S(c, i).left
            \/ S(c, i).body + n > MaxBuffer
         THEN StreamError(c, i)
    ELSE KeepData(c, i, n, end, answer)

\* handle_rst_stream_frame
HandleReset(c, i) == IF i \in Live(c) THEN CloseStream(CallbackWithError(c, i), i) ELSE c

\* update_stream_output_window
UpdateOutput(c, i, delta) ==
    LET d == [c EXCEPT !.streams[i].win = @ + delta]
    IN  IF S(d, i).win > 0 /\ S(d, i).buf > 0 /\ ~Linked(d, i) THEN [d EXCEPT !.sending = Append(@, i)] ELSE d
WriteIfRoom(c) == IF c.win > 0 THEN RequestWrite(c) ELSE c
\* handle_settings_frame
UpdateAll(c, delta) == FoldLeft(LAMBDA d, i : UpdateOutput(d, i, delta), c, SetToSeq(Live(c)))
HandleSettings(c, initial) ==
    LET d == RequestWrite([c EXCEPT !.buf = TRUE, !.initial = initial, !.reader = "default"])
    IN  IF initial = c.initial THEN d ELSE WriteIfRoom(UpdateAll(d, initial - c.initial))
\* handle_ping_frame
HandlePing(c) == RequestWrite([c EXCEPT !.buf = TRUE])
\* handle_goaway_frame
HandleGoaway(c, last) ==
    [FoldLeft(LAMBDA d, i : CloseStream(CallbackWithError(d, i), i), c, SetToSeq({i \in Live(c) : i > last})) EXCEPT !.linked = FALSE]
\* handle_window_update_frame.  An increment of zero is an error of the stream or of the
\* connection.
HandleWindowUpdate(c, i, n) ==
    IF i = 0 THEN IF n = 0 THEN ConnError(c) ELSE WriteIfRoom([c EXCEPT !.win = @ + n])
    ELSE IF n = 0 THEN IF i \in Live(c) THEN StreamError(c, i) ELSE SendError(c)
    ELSE WriteIfRoom(IF i \in Live(c) THEN UpdateOutput(c, i, n) ELSE c)

-----------------------------------------------------------------------------
(* The socket *)

\* on_read: parse_input takes the frames one by one, then a deferred write is done at
\* once.
OnRead ==
    /\ hc.phase = "idle" /\ hc.state = "open"
    /\ hc' = [hc EXCEPT !.phase = "read", !.io = FALSE]
ReadDone(c) ==
    [(IF c.defer THEN DoEmitWritereq([c EXCEPT !.defer = FALSE]) ELSE c) EXCEPT !.io = TRUE, !.phase = "idle"]
OnReadEnd ==
    /\ hc.phase = "read"
    /\ hc' = ReadDone(hc)
OnReadError ==
    /\ Can("io") /\ hc.phase = "idle" /\ hc.state = "open"
    /\ hc' = CloseConnection(AllCallbacks([hc EXCEPT !.io = FALSE]))

\* The upstream.  It keeps to the windows, and its responses are in order, unless the
\* scene says otherwise.
Reading == hc.phase = "read" /\ hc.state # "closing"
Answers == IF Can("null") THEN {"takes", "keeps", "null"} ELSE {"takes", "keeps"}
Known(i) == S(hc, i).seen
PeerSends(i, answer, n) ==
    [hc EXCEPT !.streams[i].answer = answer, !.streams[i].sent = @ + n, !.streams[i].peerWin = @ - n, !.peerWin = @ - n]

RecvSettings ==
    /\ Reading /\ hc.reader \in {"settings", "default"}
    /\ \E w \in hc.scene.windows : (w = hc.initial => hc.reader = "settings") /\ hc' = HandleSettings(hc, w)
RecvHeaders(i) ==
    /\ Reading /\ hc.reader = "default" /\ Known(i)
    /\ \E head \in hc.scene.heads, end \in BOOLEAN, whole \in IF Can("continuation") THEN BOOLEAN ELSE {TRUE}, answer \in Answers :
          /\ S(hc, i).answer = "head" \/ (S(hc, i).answer = "body" /\ end /\ Can("trailers"))
          /\ head.kind \in {"100", "103", "101"} => ~end /\ S(hc, i).answer = "head"
          /\ hc' = HandleHeaders(PeerSends(i, IF end THEN "done" ELSE IF head.kind \in {"100", "103"} THEN "head" ELSE "body", 0),
                                 i, head, end, whole, answer)
RecvContinuation ==
    /\ Reading /\ hc.reader = "continuation"
    /\ \E answer \in Answers : hc' = HandleContinuation(hc, answer)
RecvData(i) ==
    /\ Reading /\ hc.reader = "default" /\ Known(i) /\ S(hc, i).answer = "body"
    /\ \E n \in 0 .. 2, end \in BOOLEAN, answer \in Answers :
          /\ n > 0 \/ end
          /\ S(hc, i).sent + n <= MaxUnits /\ n <= S(hc, i).peerWin /\ n <= hc.peerWin
          /\ hc' = HandleData(PeerSends(i, IF end THEN "done" ELSE "body", n), i, n, end, answer)
RecvReset(i) ==
    /\ Can("reset") /\ Reading /\ hc.reader = "default" /\ Known(i) /\ S(hc, i).answer # "reset"
    /\ hc' = HandleReset(PeerSends(i, "reset", 0), i)
RecvPing ==
    /\ Can("ping") /\ Reading /\ hc.reader = "default"
    /\ hc' = HandlePing(hc)
RecvGoaway ==
    /\ Can("goaway") /\ Reading /\ hc.reader = "default" /\ hc.linked
    /\ \E last \in {0} \cup Requests : hc' = HandleGoaway(hc, last)
RecvWindowUpdate ==
    /\ Can("window") /\ Reading /\ hc.reader = "default"
    /\ \E i \in {0} \cup Live(hc), n \in IF Can("bad") THEN {0, 1} ELSE {1} :
          /\ (IF i = 0 THEN hc.win ELSE S(hc, i).win) + n <= InitialWindow
          /\ hc' = HandleWindowUpdate(hc, i, n)
\* PUSH_PROMISE, CONTINUATION out of place, a frame that cannot be decoded
RecvBad ==
    /\ Can("bad") /\ Reading
    /\ hc' = ConnError(hc)

\* on_write_complete
OnWriteError ==
    /\ Can("io") /\ hc.phase = "idle" /\ hc.writing = "write"
    /\ hc' = CloseNow(IF hc.state = "closing" THEN hc ELSE AllCallbacks(hc))
OnWriteComplete ==
    /\ hc.phase = "idle" /\ hc.writing = "write"
    /\ LET c == [hc EXCEPT !.writing = "no", !.io = FALSE, !.phase = "sent",
                           !.peerWin = @ + hc.flying[0],
                           !.streams = [i \in Requests |-> [@[i] EXCEPT !.peerWin = @ + hc.flying[i]]],
                           !.flying = [i \in DOMAIN @ |-> 0]]
       IN  hc' = CloseIfNecessary(Asserted(c, hc.inflight, "buf_in_flight"))
\* the streams of sent_streams, one by one; proceed_req may write or cancel at once
RequestSent(c, i) ==
    IF S(c, i).st = "live" /\ ~S(c, i).proceed /\ ~Linked(c, i)
    THEN [Asserted(c, ~S(c, i).timer, "_timeout is linked") EXCEPT !.streams[i].req = "closed", !.streams[i].timer = TRUE]
    ELSE c
OnStreamSent ==
    /\ hc.phase = "sent" /\ hc.sentStreams # <<>>
    /\ LET i == Head(hc.sentStreams)
           c == [hc EXCEPT !.sentStreams = Tail(@)]
       IN  IF S(hc, i).own /\ S(hc, i).req = "body"
           THEN hc' = [Asserted(c, ~S(c, i).timer, "_timeout is linked") EXCEPT !.streams[i].timer = TRUE]
           ELSE IF ~S(hc, i).proceed THEN hc' = RequestSent(c, i)
           ELSE \/ hc' = RequestSent([c EXCEPT !.told = @ \cup {i}], i)
                \/ \E b \in Chunks(i) : hc' = RequestSent(UserWrites(c, i, b.n, b.end), i)
                \/ Can("cancel") /\ hc' = RequestSent(DoCancel(c, i), i)
\* Mutant of NextWrite: streams that wait for their turn are not looked at.
NextWriteBufOnly(c) ==
    IF ~c.buf THEN CloseIfNecessary(c) ELSE [c EXCEPT !.defer = FALSE, !.writing = "notify"]
NextWrite(c) ==
    IF ~c.buf /\ c.sending = <<>> THEN CloseIfNecessary(Asserted(c, ~c.defer, "defer_timeout"))
    ELSE IF c.state = "open" THEN [c EXCEPT !.defer = FALSE, !.writing = "notify"]
    ELSE CloseIfNecessary(DoEmitWritereq([c EXCEPT !.defer = FALSE]))
OnAllSent ==
    /\ hc.phase = "sent" /\ hc.sentStreams = <<>>
    /\ hc' = NextWrite([hc EXCEPT !.inflight = FALSE, !.phase = "idle"])
\* on_notify_write
OnNotifyWrite ==
    /\ hc.phase = "idle" /\ hc.writing = "notify"
    /\ \/ hc' = CloseIfNecessary(DoEmitWritereq([hc EXCEPT !.writing = "no"]))
       \/ Can("io") /\ hc' = CloseNow(AllCallbacks(hc))

-----------------------------------------------------------------------------
(* Timers *)

\* emit_writereq
OnDefer ==
    /\ hc.phase = "idle" /\ hc.defer
    /\ hc' = DoEmitWritereq([hc EXCEPT !.defer = FALSE])
\* do_stream_timeout
StreamTimeout(c, i) == CloseStream(CallbackWithError(c, i), i)
OnStreamTimeout(i) ==
    /\ Can("timeout") /\ hc.phase = "idle" /\ S(hc, i).timer
    /\ hc' = StreamTimeout(hc, i)
OnIoTimeout ==
    /\ Can("timeout") /\ hc.phase = "idle" /\ hc.io
    /\ hc' = CloseNow(FoldLeft(StreamTimeout, hc, SetToSeq(Live(hc))))
OnKeepaliveTimeout ==
    /\ Can("timeout") /\ hc.phase = "idle" /\ hc.keepalive
    /\ hc' = CloseConnection(RequestWrite(EnqueueGoaway(hc)))

-----------------------------------------------------------------------------

Init == \E scene \in Scenes : hc = NewConn(scene)
Step ==
    \/ OnRead \/ OnReadEnd \/ OnReadError
    \/ RecvSettings \/ RecvContinuation \/ RecvPing \/ RecvGoaway \/ RecvWindowUpdate \/ RecvBad
    \/ OnWriteError \/ OnWriteComplete \/ OnStreamSent \/ OnAllSent \/ OnNotifyWrite
    \/ OnDefer \/ OnIoTimeout \/ OnKeepaliveTimeout
    \/ \E i \in Requests : \/ OnConnect(i) \/ OnConnectRefused(i) \/ UserWrite(i) \/ UserCancel(i) \/ UserRead(i)
                           \/ RecvHeaders(i) \/ RecvData(i) \/ RecvReset(i) \/ OnStreamTimeout(i)
Next == hc.failed = {} /\ Step
Spec == Init /\ [][Next]_hc

-----------------------------------------------------------------------------
(* Properties *)

\* the user of a request is told of its end a second time
KnownFailures == {"callback after the end"}
\* No assertion of the client fails, and no user is called back after the end of its
\* exchange.
NoAssertionFails == hc.failed \subseteq KnownFailures

\* A user never holds a client that was freed.
NoDanglingClient == \A i \in Requests : S(hc, i).user = "holds" => S(hc, i).st = "live" /\ hc.state # "freed"

\* What can be written is going to be: there is a write in progress, or one is scheduled.
Driven == hc.defer \/ hc.writing # "no" \/ hc.phase # "idle"
\* A connection with a frame or a stream ready to be sent has its output
\* scheduled (request_write, on_notify_write).
OutputIsScheduled ==
    hc.state = "open" /\ hc.failed = {} =>
        /\ hc.buf => Driven
        /\ (\E i \in Requests : Contains(hc.sending, i) /\ hc.win > 0) => Driven
        /\ hc.sentStreams # <<>> => hc.inflight

\* The body of a request is sent once, in full, and ends with what the user gave.
RequestIsIntact ==
    \A i \in Live(hc) :
        /\ S(hc, i).out + S(hc, i).buf = S(hc, i).given
        /\ S(hc, i).ended => S(hc, i).out = S(hc, i).given /\ ~S(hc, i).proceed

\* The windows that the upstream was granted are the ones the client counts.
Granted(i) == hc.granted[i] + hc.flying[i]
\* The two ends agree on the window of a stream: what was granted is on its way
\* or was taken.
WindowsAgree ==
    hc.state \in {"open"} =>
        \A i \in Live(hc) : /\ hc.peerWin + Granted(0) = hc.inWin
                            /\ S(hc, i).answer # "reset" => S(hc, i).peerWin + Granted(i) = S(hc, i).inWin

\* A stream whose user has taken everything is not left with a closed window.
WindowReopens ==
    hc.state = "open" /\ hc.phase = "idle" =>
        \A i \in Live(hc) :
            S(hc, i).res = "body" /\ S(hc, i).body = 0 => S(hc, i).inWin > 0 /\ hc.inWin > 0

\* A connection that is closing is going to be closed.
ClosingCloses == hc.state = "closing" => hc.defer \/ hc.writing # "no" \/ hc.phase # "idle" \/ hc.io

\* The timer for the first byte of the response is not running once it was received.
FirstByteTimerEnds == \A i \in Live(hc) : S(hc, i).timer => S(hc, i).res = "head"
\* A stream that is over on both sides is closed.
EndedStreamsClose == \A i \in Live(hc) : ~(S(hc, i).req = "closed" /\ S(hc, i).res = "closed")
\* While the client waits for the upstream a timer is running.
UpstreamIsTimed ==
    hc.state = "open" /\ hc.phase = "idle" =>
        \A i \in Live(hc) : S(hc, i).ended /\ S(hc, i).res # "closed" => S(hc, i).timer \/ hc.io \/ Driven
=============================================================================
