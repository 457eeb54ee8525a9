----------------------------- MODULE Http3Client -----------------------------
(***************************************************************************)
(* The HTTP/3 client (lib/common/http3client.c): one connection to an      *)
(* upstream, from the lookup of its address on, and the requests on it.    *)
(*                                                                         *)
(* The response is a sequence of pieces: a frame, the header of a DATA     *)
(* frame ("data", of one unit) and its payload ("unit"), or the beginning  *)
(* of a frame ("part").  QUIC is the environment: it delivers the pieces   *)
(* in order, acknowledges, resets, stops and closes.  on_receive works     *)
(* through what it is given one handle_input at a time while `cur` is not  *)
(* NoRequest; nothing else happens meanwhile.  `user` is the part of       *)
(* lib/core/proxy.c that holds a client.                                   *)
(***************************************************************************)
EXTENDS Integers, Sequences, FiniteSets, SequencesExt

CONSTANTS
    Requests,
    MaxPieces,      \* bound on the pieces of a response
    MaxChunks,      \* bound on the parts of a request body
    Scenes

VARIABLE h3c

-----------------------------------------------------------------------------

NoRequest == 0
Asserted(c, ok, name) == IF ok THEN c ELSE [c EXCEPT !.failed = @ \cup {name}]
Can(event) == event \in h3c.scene.events

\* h2o_httpclient__connect_h3.  `send` and `recv` are the sides of the QUIC stream.
NewRequest ==
    [st |-> "none", quic |-> FALSE, proceed |-> FALSE, inflight |-> FALSE, unsent |-> FALSE, send |-> "open", recv |-> "open",
     res |-> "head", handler |-> "none", left |-> 0, onBody |-> FALSE,
     user |-> "none", reqDone |-> TRUE, resDone |-> FALSE, chunks |-> 0, pieces |-> 0, asked |-> FALSE]
\* create_connection
NewConn(scene) ==
    [scene |-> scene, conn |-> "none", timer |-> FALSE, linked |-> FALSE, settings |-> FALSE, pending |-> <<>>,
     reqs |-> [i \in Requests |-> NewRequest], cur |-> NoRequest, input |-> <<>>, fin |-> FALSE, err |-> FALSE, failed |-> {}]

R(c, i) == c.reqs[i]
OnStream(c) == {i \in Requests : R(c, i).quic}

-----------------------------------------------------------------------------
(* The user of a client *)

\* told of the end of the response, of an error (from which on the client is not its
\* own any more), or asked for more of the request
Told(c, i) == [Asserted(c, R(c, i).user = "holds", "callback after the end") EXCEPT !.reqs[i].user = "detached"]
UserDone(c, i) == IF R(c, i).reqDone /\ R(c, i).resDone THEN [c EXCEPT !.reqs[i].user = "detached"] ELSE c
ToldEos(c, i) ==
    UserDone([Asserted(c, R(c, i).user = "holds", "callback after the end") EXCEPT !.reqs[i].resDone = TRUE], i)
\* call_proceed_req: a user that has let go of the client ignores it
CallProceedReq(c, i, err) ==
    IF R(c, i).user # "holds" THEN [c EXCEPT !.reqs[i].inflight = FALSE]
    ELSE IF err THEN Told([c EXCEPT !.reqs[i].inflight = FALSE], i)
    ELSE [c EXCEPT !.reqs[i].inflight = FALSE, !.reqs[i].asked = TRUE]

-----------------------------------------------------------------------------
(* Requests, ended *)

\* destroy_request
DestroyRequest(c, i) ==
    [Asserted(c, ~R(c, i).quic, "destroy_request") EXCEPT !.reqs[i].st = "gone", !.pending = SelectSeq(@, LAMBDA j : j # i)]
\* detach_stream
DetachStream(c, i) == [c EXCEPT !.reqs[i].quic = FALSE]
\* close_stream
CloseStream(c, i) ==
    DetachStream([c EXCEPT !.reqs[i].send = IF @ = "done" THEN @ ELSE "reset", !.reqs[i].recv = IF @ = "done" THEN @ ELSE "stopped"], i)
\* notify_response_error.  Once the head was reported on_body is called, whether the
\* user gave one or not.
NotifyResponseError(c, i) ==
    [CASE R(c, i).res = "head" -> Told(c, i)
       [] R(c, i).res = "body" -> Told(Asserted(c, R(c, i).onBody, "on_body is NULL"), i)
       [] OTHER -> c
     EXCEPT !.reqs[i].res = "closed"]
\* call_on_body
CallOnBody(c, i, errstr) ==
    LET d == Asserted(c, R(c, i).res = "body", "call_on_body") IN
    CASE errstr = "no" -> Asserted(d, R(c, i).user = "holds", "callback after the end")
      [] errstr = "eos" -> [ToldEos(d, i) EXCEPT !.reqs[i].res = "closed"]
      [] errstr = "error" -> [Told(d, i) EXCEPT !.reqs[i].res = "closed"]

\* on_stream_destroy
OnStreamDestroy(c, i) == DestroyRequest(DetachStream(NotifyResponseError(c, i), i), i)
DestroyStreams(c) == FoldLeft(OnStreamDestroy, c, SetToSeq(OnStream(c)))
\* quicly lets go of a stream that is over on both sides
StreamIsOver(c, i) == R(c, i).send \in {"done"} /\ R(c, i).recv = "done"
Reap(c, i) == IF R(c, i).quic /\ StreamIsOver(c, i) THEN OnStreamDestroy(c, i) ELSE c

\* start_request
StartRequest(c, i) ==
    IF c.scene.refuse THEN DestroyRequest([c EXCEPT !.reqs[i].user = "detached"], i)
    ELSE IF c.scene.noStream THEN DestroyRequest(NotifyResponseError(c, i), i)
    ELSE [Asserted(c, ~R(c, i).quic, "start_request") EXCEPT
            !.reqs[i].st = "live", !.reqs[i].quic = TRUE, !.reqs[i].handler = "headers", !.reqs[i].unsent = TRUE,
            !.reqs[i].proceed = c.scene.streamed, !.reqs[i].inflight = c.scene.streamed, !.reqs[i].reqDone = ~c.scene.streamed,
            !.reqs[i].send = IF c.scene.streamed THEN "open" ELSE "shut"]
\* start_pending_requests
StartPending(c) == FoldLeft(StartRequest, [c EXCEPT !.pending = <<>>], c.pending)

\* report_pending_requests_error
\* Mutant of PendingError: a request that was never started goes without a word.
PendingErrorSilent(c, i) == DestroyRequest(c, i)
PendingError(c, i) == DestroyRequest(Told(c, i), i)
ReportPending(c) == FoldLeft(PendingError, [c EXCEPT !.linked = FALSE], c.pending)
\* destroy_connection, and the streams that go with it
DestroyConnection(c) == [DestroyStreams(ReportPending(c)) EXCEPT !.conn = "gone", !.timer = FALSE]

-----------------------------------------------------------------------------
(* The connection *)

\* h2o_httpclient__connect_h3
Connect(i) ==
    /\ h3c.cur = NoRequest /\ i \in h3c.scene.requests /\ R(h3c, i).st = "none"
    /\ h3c.conn = "none" \/ h3c.linked
    /\ \A j \in Requests : j < i => R(h3c, j).st # "none"
    /\ LET c == IF h3c.conn = "none" THEN [h3c EXCEPT !.conn = "resolving", !.linked = TRUE, !.timer = TRUE] ELSE h3c
           d == [c EXCEPT !.reqs[i].st = "pending", !.reqs[i].user = "holds"]
       IN  h3c' = IF d.settings THEN StartRequest(d, i) ELSE [d EXCEPT !.pending = Append(@, i)]
\* on_getaddr and start_connect; with a session ticket, requests are sent at once
OnGetaddr ==
    /\ h3c.cur = NoRequest /\ h3c.conn = "resolving"
    /\ \/ h3c' = [Asserted(h3c, h3c.timer, "start_connect") EXCEPT !.conn = "connecting"]
       \/ Can("early") /\ h3c' = StartPending([Asserted(h3c, h3c.timer, "start_connect") EXCEPT !.conn = "connecting"])
       \/ Can("unreachable") /\ h3c' = DestroyConnection(h3c)
OnConnectTimeout ==
    /\ Can("timeout") /\ h3c.cur = NoRequest /\ h3c.timer
    /\ h3c' = DestroyConnection(h3c)
\* h2o_httpclient_http3_notify_connection_update
NotifyUpdate ==
    /\ h3c.cur = NoRequest /\ h3c.conn = "connecting"
    /\ h3c' = [h3c EXCEPT !.conn = "connected", !.timer = FALSE]
\* the connection starts to close: what waits is told, and so are the streams
NotifyClosing ==
    /\ Can("close") /\ h3c.cur = NoRequest /\ h3c.conn \in {"connecting", "connected"}
    /\ h3c' = DestroyStreams(ReportPending([h3c EXCEPT !.conn = "closing", !.timer = FALSE]))
OnTransportClose ==
    /\ h3c.cur = NoRequest /\ h3c.conn = "closing"
    /\ h3c' = DestroyConnection(h3c)
\* handle_control_stream_frame: SETTINGS, and a GOAWAY that is ignored
RecvSettings ==
    /\ h3c.cur = NoRequest /\ h3c.conn = "connected" /\ ~h3c.settings
    /\ h3c' = StartPending([h3c EXCEPT !.settings = TRUE])
\* another frame where SETTINGS is due, or a second SETTINGS: h2o_quic_close_connection
RecvBadControl ==
    /\ Can("close") /\ h3c.cur = NoRequest /\ h3c.conn = "connected"
    /\ h3c' = DestroyStreams(ReportPending([h3c EXCEPT !.conn = "closing"]))

-----------------------------------------------------------------------------
(* Sending *)

\* do_write_req
WriteReq(c, i, end) ==
    LET d == Asserted(c, ~R(c, i).inflight, "bytes_inflight") IN
    IF ~R(c, i).quic THEN DestroyRequest(d, i)
    ELSE IF R(c, i).send # "open" THEN d
    ELSE [d EXCEPT !.reqs[i].inflight = TRUE, !.reqs[i].unsent = TRUE, !.reqs[i].send = IF end THEN "shut" ELSE "open"]
UserWrites(c, i, end) ==
    WriteReq(UserDone([c EXCEPT !.reqs[i].reqDone = end, !.reqs[i].asked = FALSE, !.reqs[i].chunks = @ + 1], i), i, end)
UserWrite(i) ==
    /\ h3c.cur = NoRequest /\ R(h3c, i).user = "holds" /\ R(h3c, i).asked /\ ~R(h3c, i).reqDone
    /\ \E end \in BOOLEAN : (end \/ R(h3c, i).chunks < MaxChunks) /\ h3c' = UserWrites(h3c, i, end)
\* cancel_request
UserCancel(i) ==
    /\ Can("cancel") /\ h3c.cur = NoRequest /\ R(h3c, i).user = "holds"
    /\ LET c == [h3c EXCEPT !.reqs[i].user = "detached"]
       IN  h3c' = DestroyRequest(IF R(c, i).quic THEN CloseStream(c, i) ELSE c, i)

\* on_send_emit, which has sent everything
OnSendEmit(i) ==
    /\ h3c.cur = NoRequest /\ R(h3c, i).quic /\ R(h3c, i).unsent
    /\ LET c == [h3c EXCEPT !.reqs[i].unsent = FALSE]
       IN  h3c' = IF R(c, i).inflight THEN CallProceedReq(c, i, FALSE) ELSE c
\* on_send_shift of the last byte
OnSendShift(i) ==
    /\ h3c.cur = NoRequest /\ R(h3c, i).quic /\ ~R(h3c, i).unsent /\ R(h3c, i).send = "shut"
    /\ h3c' = Reap([h3c EXCEPT !.reqs[i].send = "done"], i)
\* on_send_stop
Stopped(c, i) == IF R(c, i).inflight THEN CallProceedReq(c, i, TRUE) ELSE c
StoppedReceive(c, i) ==
    IF R(c, i).recv = "done" THEN c ELSE NotifyResponseError([c EXCEPT !.reqs[i].recv = "stopped"], i)
OnSendStop(i) ==
    /\ Can("stop") /\ h3c.cur = NoRequest /\ R(h3c, i).quic /\ R(h3c, i).send # "done"
    /\ h3c' = DestroyRequest(DetachStream(StoppedReceive(Stopped([h3c EXCEPT !.reqs[i].send = "reset"], i), i), i), i)

-----------------------------------------------------------------------------
(* Receiving *)

\* on_receive is called with the pieces that have become available
Batches == UNION {[1 .. n -> h3c.scene.pieces] : n \in 0 .. 2}
\* A DATA frame has one unit of payload, and only the last piece may be incomplete.
\* Unless the scene says otherwise there is one head, first, and the response does not
\* end with a frame that is skipped.
InOrder(i, s, fin) ==
    LET before(k) == R(h3c, i).handler # "headers" \/ \E j \in 1 .. k - 1 : s[j] = "headers" IN
    /\ \A k \in 1 .. Len(s) : /\ s[k] \in {"headers", "info", "invalid"} => ~before(k)
                              /\ s[k] = "data" => before(k)
    /\ fin /\ s # <<>> => Last(s) # "other"
WellFormed(i, s) ==
    LET t == <<IF R(h3c, i).left > 0 THEN "data" ELSE "none">> \o s
    IN  \A k \in 2 .. Len(t) : /\ (t[k] = "unit") = (t[k - 1] = "data")
                               /\ t[k - 1] # "part"
OnReceive(i) ==
    /\ h3c.cur = NoRequest /\ h3c.settings /\ R(h3c, i).quic /\ R(h3c, i).recv = "open"
    /\ \E s \in Batches, fin \in BOOLEAN :
          /\ s # <<>> \/ fin
          /\ R(h3c, i).pieces + Len(s) <= MaxPieces /\ WellFormed(i, s) /\ (Can("odd") \/ InOrder(i, s, fin))
          /\ h3c' = [h3c EXCEPT !.cur = i, !.input = s, !.fin = fin, !.err = FALSE,
                                !.reqs[i].pieces = @ + Len(s), !.reqs[i].recv = IF fin THEN "done" ELSE "open"]

\* a call of handle_input returns: an error ends the loop, as does the end of the input
ReturnErr(c) == [c EXCEPT !.err = TRUE, !.input = <<"stop">>]
Consume(c, n) == [c EXCEPT !.input = SubSeq(@, n + 1, Len(@))]

\* handle_input_data_payload
PayloadBytes(c, i) == IF R(c, i).left > 0 /\ c.input # <<>> /\ Head(c.input) = "unit" THEN 1 ELSE 0
PayloadErrstr(c, i) ==
    IF c.input # <<>> \/ ~c.fin THEN "no" ELSE IF R(c, i).left = 0 THEN "eos" ELSE "error"
PayloadDone(c, i) ==
    CallOnBody([c EXCEPT !.reqs[i].handler = IF R(c, i).left = 0 THEN "expect" ELSE "payload"], i, PayloadErrstr(c, i))
HandleDataPayload(c, i) ==
    PayloadDone([Consume(c, PayloadBytes(c, i)) EXCEPT !.reqs[i].left = @ - PayloadBytes(c, i)], i)

\* handle_input_expect_data_frame
HandleExpectData(c, i) ==
    LET d == Asserted(c, R(c, i).left = 0, "bytes_left_in_data_frame") IN
    IF c.input = <<>> THEN IF c.fin THEN HandleDataPayload(d, i) ELSE d
    ELSE CASE Head(c.input) = "part" /\ ~c.fin -> [d EXCEPT !.input = <<"stop">>]
           [] Head(c.input) = "part" /\ c.fin -> ReturnErr(CallOnBody(d, i, "error"))
           [] Head(c.input) = "data" -> HandleDataPayload([Consume(d, 1) EXCEPT !.reqs[i].left = 1], i)
           [] OTHER -> Consume(d, 1)

\* handle_input_expect_headers
OnHead(c, i, end) ==
    LET d == [c EXCEPT !.reqs[i].res = "body"] IN
    IF end THEN ToldEos([d EXCEPT !.reqs[i].onBody = FALSE], i)
    ELSE IF c.scene.bodyless THEN ReturnErr([d EXCEPT !.reqs[i].user = "detached", !.reqs[i].onBody = FALSE])
    ELSE [Asserted(d, R(c, i).user = "holds", "callback after the end") EXCEPT !.reqs[i].onBody = TRUE, !.reqs[i].handler = "expect"]
HandleExpectHeaders(c, i) ==
    IF c.input = <<>> \/ Head(c.input) = "part"
    THEN IF c.fin THEN NotifyResponseError(c, i) ELSE [c EXCEPT !.input = <<"stop">>]
    ELSE CASE Head(c.input) = "headers" -> OnHead(Consume(c, 1), i, Len(c.input) = 1 /\ c.fin)
           [] Head(c.input) = "invalid" -> ReturnErr(NotifyResponseError(Consume(c, 1), i))
           [] Head(c.input) = "info" ->
                IF Len(c.input) = 1 /\ c.fin THEN NotifyResponseError(Consume(c, 1), i) ELSE Consume(c, 1)
           [] Head(c.input) = "data" -> ReturnErr(Consume(c, 1))
           [] OTHER -> Consume(c, 1)

HandleInput(c, i) ==
    CASE R(c, i).handler = "headers" -> HandleExpectHeaders(c, i)
      [] R(c, i).handler = "expect" -> HandleExpectData(c, i)
      [] R(c, i).handler = "payload" -> HandleDataPayload(c, i)

\* the end of on_receive
ReceiveError(c, i) ==
    IF R(c, i).send # "open" THEN DestroyRequest(CloseStream(c, i), i)
    ELSE IF R(c, i).inflight THEN DestroyRequest(CallProceedReq(CloseStream(c, i), i, TRUE), i)
    ELSE CloseStream(c, i)
Received(c, i) ==
    IF R(c, i).recv = "done" THEN IF R(c, i).send = "done" THEN DestroyRequest(DetachStream(c, i), i) ELSE c
    ELSE IF c.err THEN ReceiveError(NotifyResponseError(c, i), i)
    ELSE c
\* on_receive_process_bytes: again until the input is used up.  A call that leaves it
\* as it was would be made for ever.
LoopEnds(c) == c.input = <<>> \/ c.input = <<"stop">>
Loop(before, c, i) ==
    IF LoopEnds(c) THEN [Received(c, i) EXCEPT !.cur = NoRequest, !.input = <<>>, !.fin = FALSE, !.err = FALSE]
    ELSE Asserted(c, Len(c.input) < Len(before), "handle_input makes no progress")
ProcessBytes ==
    /\ h3c.cur # NoRequest
    /\ h3c' = Loop(h3c.input, HandleInput(h3c, h3c.cur), h3c.cur)

\* on_receive_reset
OnReceiveReset(i) ==
    /\ Can("reset") /\ h3c.cur = NoRequest /\ R(h3c, i).quic /\ R(h3c, i).recv = "open"
    /\ h3c' = DestroyRequest(CloseStream(NotifyResponseError(h3c, i), i), i)

-----------------------------------------------------------------------------

Init == \E scene \in Scenes : h3c = NewConn(scene)
Step ==
    \/ OnGetaddr \/ OnConnectTimeout \/ NotifyUpdate \/ NotifyClosing \/ OnTransportClose \/ RecvSettings \/ RecvBadControl
    \/ ProcessBytes
    \/ \E i \in Requests : \/ Connect(i) \/ UserWrite(i) \/ UserCancel(i) \/ OnSendEmit(i) \/ OnSendShift(i) \/ OnSendStop(i)
                           \/ OnReceive(i) \/ OnReceiveReset(i)
Next == h3c.failed = {} /\ Step
Spec == Init /\ [][Next]_h3c

-----------------------------------------------------------------------------
(* Properties *)

\* the user of a request is told of its end a second time, or by a callback it did
\* not give; a HEADERS frame cut short by the end of the stream is read for ever
KnownFailures == {"callback after the end", "handle_input makes no progress", "on_body is NULL"}
\* No assertion of the client fails, no user is called back after the end, and every
\* call of handle_input makes progress.
NoAssertionFails == h3c.failed \subseteq KnownFailures

\* A user never holds a client that was freed.
NoDanglingClient == h3c.cur = NoRequest => \A i \in Requests : R(h3c, i).user = "holds" => R(h3c, i).st # "gone"

\* A client is freed once nobody can use it any more.
NoClientLeaks ==
    h3c.cur = NoRequest =>
        \A i \in Requests : R(h3c, i).st = "live" => R(h3c, i).quic \/ R(h3c, i).user = "holds"

\* A request waits only for a connection that is being made, and then is started.
PendingIsWaited ==
    h3c.pending # <<>> => h3c.linked /\ ~h3c.settings /\ h3c.conn \in {"resolving", "connecting", "connected"}
=============================================================================
