------------------------------- MODULE Proxy --------------------------------
(***************************************************************************)
(* A request that h2o forwards to an HTTP/1 upstream: the generator of     *)
(* lib/core/proxy.c, the HTTP/1 client of lib/common/http1client.c and the *)
(* pipe of lib/core/pipe_sender.c, which call each other synchronously.    *)
(*                                                                         *)
(* One record `px` holds the three and what the downstream server keeps of *)
(* the request.  Body bytes are numbered units, so that order and loss can *)
(* be seen.  The upstream and the downstream are the environment: what the *)
(* one sends and how the other reacts to proceed_req follows the scene.    *)
(***************************************************************************)
EXTENDS Integers, Sequences, SequencesExt

CONSTANTS
    PullMax,        \* H2O_PULL_SENDVEC_MAX_SIZE and the margin for using a pipe, in units
    MaxBuffer,      \* max_buffer_size, in units
    MaxBody,        \* bound on the units of a response
    MaxChunks,      \* bound on the parts of a streamed request body
    Scenes

VARIABLE px

-----------------------------------------------------------------------------

Asserted(c, ok, name) == IF ok THEN c ELSE [c EXCEPT !.failed = @ \cup {name}]

Kinds == {"length", "chunked", "close"}
\* a final response: how its body is framed, its length, whether the upstream
\* keeps the connection, and what is odd about it
Heads ==
    [kind: Kinds, length: {0, 1, PullMax + 2}, keep: BOOLEAN, odd: {"no"}]
        \cup [kind: {"length"}, length: {1}, keep: {TRUE},
              odd: {"no content", "switching", "two lengths", "no content, two lengths", "redirect", "bad framing"}]

\* st_h2o_http1client_t
NewClient ==
    [client |-> "none", attached |-> FALSE, req |-> "head", res |-> "head", keepalive |-> FALSE, ownExpect |-> FALSE,
     reader |-> "none", reading |-> FALSE, piped |-> FALSE, left |-> 0, timer |-> FALSE, write |-> "none",
     body |-> 0, bodyEnd |-> FALSE, input |-> <<>>, read |-> 0, onBody |-> FALSE, hasProceed |-> FALSE]
\* proxy_send_prepare
NewGenerator ==
    [self |-> "none", reqDone |-> FALSE, resDone |-> FALSE, bodyErr |-> FALSE, hasLast |-> FALSE, last |-> <<>>,
     sending |-> <<>>, inflight |-> FALSE, nInflight |-> 0, headersTimer |-> FALSE, bodyRead |-> 0,
     pipe |-> <<>>, pipeInUse |-> FALSE, pipeInflight |-> FALSE, pipeSent |-> 0, offered |-> FALSE]
\* and the request of the server: proceed_req and write_req.cb, whose turn it is to
\* move the request body on, and the response
NewExchange(scene) ==
    NewClient @@ NewGenerator @@
    [scene |-> scene, failed |-> {}, proceed |-> scene.streaming, writeCb |-> FALSE, turn |-> "proxy", chunks |-> 1,
     out |-> "none", delivered |-> <<>>, informed |-> FALSE]

-----------------------------------------------------------------------------
(* The downstream server *)

\* h2o_start_response and h2o_send
StartResponse(c) == [Asserted(c, c.out = "none", "_generator") EXCEPT !.out = "wait"]
Send(c, units, state) ==
    [Asserted(Asserted(c, c.out = "wait", "h2o_send"), c.self # "disposed", "self") EXCEPT
        !.delivered = @ \o units,
        !.out = IF state = "progress" THEN "sending" ELSE state]
\* h2o_send_error_502 and the others: a response of its own
SendError(c) == [Asserted(c, c.out = "none", "_generator") EXCEPT !.out = "answered"]

\* h2o_pipe_sender_dispose
PipeDispose(c) == [c EXCEPT !.pipeInUse = FALSE, !.pipe = <<>>]

\* detach_client
DetachClient(c) == [Asserted(c, c.attached, "detach_client") EXCEPT !.attached = FALSE]

\* close_client: the socket goes back to the pool or is closed.  `returned` is how
\* far request and response were when it went back.
CloseClient(c) ==
    [Asserted(c, ~(c.keepalive /\ c.write # "none"), "h2o_socket_export") EXCEPT
        !.client = IF c.keepalive THEN "returned" ELSE "closed",
        !.timer = FALSE, !.reading = FALSE, !.write = "none", !.input = <<>>]

\* do_cancel of the client
Cancel(c) == CloseClient([c EXCEPT !.keepalive = FALSE])
\* do_close
DoClose(c) ==
    PipeDispose([(IF c.attached THEN Cancel(DetachClient(c)) ELSE c) EXCEPT !.headersTimer = FALSE])
\* on_generator_dispose, as a part of h2o_dispose_request
Dispose(c) == [DoClose(c) EXCEPT !.self = "disposed", !.out = "gone", !.proceed = FALSE, !.writeCb = FALSE]

\* proceed_req(req, errstr) of the servers: HTTP/1 answers 502 when nothing was sent
\* yet, and ends the request once both sides are done; HTTP/2 and HTTP/3 reset
\* the stream, which disposes of the request
ProceedError(c) ==
    IF ~c.proceed THEN c
    ELSE IF c.scene.server # "h1" \/ c.out \in {"final", "answered", "error"} THEN Dispose(c)
    ELSE IF c.out = "none" THEN SendError([c EXCEPT !.proceed = FALSE, !.writeCb = FALSE])
    ELSE [c EXCEPT !.proceed = FALSE, !.writeCb = FALSE]

-----------------------------------------------------------------------------
(* The generator: sending *)

\* h2o_doublebuffer_prepare, which takes over what was received when it is empty
PrepareSwap(c) ==
    IF c.sending # <<>> THEN c
    ELSE IF c.hasLast THEN [c EXCEPT !.sending = c.last, !.last = <<>>]
    ELSE [Asserted(c, c.attached, "client") EXCEPT !.sending = c.input, !.input = <<>>]
PrepareTake(c) ==
    IF c.sending = <<>> THEN c
    ELSE [c EXCEPT !.inflight = TRUE, !.nInflight = IF Len(c.sending) < c.scene.chunk THEN Len(c.sending) ELSE c.scene.chunk]
DoublebufferPrepare(c) == PrepareTake(PrepareSwap(Asserted(c, ~c.inflight, "doublebuffer")))
\* h2o_doublebuffer_consume
DoublebufferConsume(c) ==
    [c EXCEPT !.inflight = FALSE, !.sending = SubSeq(@, c.nInflight + 1, Len(@)), !.nInflight = 0]

\* Mutant of SendState: the end of the response is not held back for what the double
\* buffer does not take at once.
SendStateEarly(c) ==
    IF c.bodyErr THEN "error" ELSE IF c.hasLast /\ c.last = <<>> THEN "final" ELSE "progress"
\* do_send
SendState(c) ==
    IF c.bodyErr THEN "error"
    ELSE IF c.hasLast /\ c.nInflight = Len(c.sending) /\ c.last = <<>> THEN "final"
    ELSE "progress"
SendPrepared(c) ==
    IF SendState(c) = "progress" /\ c.nInflight = 0 THEN c
    ELSE Send([c EXCEPT !.pipeSent = IF c.pipeInUse THEN @ + c.nInflight ELSE @], SubSeq(c.sending, 1, c.nInflight),
              SendState(c))
DoSend(c) == SendPrepared(DoublebufferPrepare(c))

\* h2o_pipe_sender_send
PipeSend(c, n, state) ==
    Send([c EXCEPT !.pipe = SubSeq(@, n + 1, Len(@)), !.pipeSent = @ + n, !.pipeInflight = TRUE], SubSeq(c.pipe, 1, n),
         IF state = "final" /\ c.bodyRead - c.pipeSent > PullMax THEN "progress" ELSE state)
\* do_send_from_pipe when there is something to send or the response has ended;
\* otherwise the caller asks the client for more
PipeState(c) == IF c.bodyErr THEN "error" ELSE IF c.resDone THEN "final" ELSE "progress"
PipeIsDry(c) == c.bodyRead = c.pipeSent /\ PipeState(c) = "progress"
SendFromPipe(c) ==
    IF c.bodyRead = c.pipeSent THEN Send(c, <<>>, PipeState(c))
    ELSE PipeSend(c, IF c.bodyRead - c.pipeSent < PullMax THEN c.bodyRead - c.pipeSent ELSE PullMax, PipeState(c))

-----------------------------------------------------------------------------
(* The generator: what the client reports; err: "no", "eos" or "error" *)

\* on_body_on_close
BodyEnd(c) == IF c.reqDone THEN DetachClient([c EXCEPT !.resDone = TRUE]) ELSE [c EXCEPT !.resDone = TRUE]
OnBodyOnClose(c, err) ==
    IF err = "eos" THEN BodyEnd([c EXCEPT !.hasLast = TRUE, !.last = c.input, !.input = <<>>])
    ELSE ProceedError([DetachClient([c EXCEPT !.hasLast = TRUE, !.last = c.input, !.input = <<>>]) EXCEPT !.bodyErr = TRUE])

Closed(c, err) == IF err = "no" THEN c ELSE OnBodyOnClose(c, err)
BodyRead(c) == [Asserted(c, c.attached, "client->data") EXCEPT !.bodyRead = c.read, !.headersTimer = FALSE]

\* on_body
AfterBody(c) == IF c.self = "disposed" \/ c.inflight THEN c ELSE DoSend(c)
OnBody(c, err) == AfterBody(Closed(BodyRead(c), err))

\* on_body_piped, which does not ask whether the generator is still there
AfterBodyPiped(c) ==
    IF c.self = "disposed" THEN [c EXCEPT !.failed = @ \cup {"on_body_piped: self"}]
    ELSE IF c.inflight \/ c.pipeInflight THEN c ELSE SendFromPipe(c)
OnBodyPiped(c, err) == AfterBodyPiped(Closed(BodyRead(c), err))

\* on_head of the proxy.  onBody: a body callback was returned
Refused(c) == ProceedError(SendError(DetachClient([c EXCEPT !.onBody = FALSE])))
HeadEos(c) ==
    Send([(IF c.reqDone THEN DetachClient(c) ELSE c) EXCEPT !.resDone = TRUE, !.onBody = FALSE], <<>>, "final")
HeadBody(c) ==
    [c EXCEPT !.onBody = TRUE, !.headersTimer = TRUE, !.pipeInUse = c.offered]
ProxyOnHead(c, odd, eos) ==
    IF odd \in {"two lengths", "no content, two lengths"} THEN Refused(c)
    ELSE IF odd = "redirect" /\ c.scene.delegated
    \* h2o_send_redirect_internal starts over with another handler
    THEN [DetachClient(c) EXCEPT !.out = "answered", !.onBody = FALSE]
    ELSE IF eos THEN HeadEos(StartResponse(c)) ELSE HeadBody(StartResponse(c))

\* on_informational
OnInformational(c, status) ==
    IF status = 100 /\ ~c.scene.forwardExpect THEN c
    ELSE [Asserted(Asserted(c, c.attached, "client->data"), c.out = "none", "h2o_send_informational") EXCEPT !.informed = TRUE]

\* proceed_request
ProceedRequest(c, err) ==
    IF ~c.attached THEN c
    ELSE IF err THEN ProceedError(DetachClient(c))
    ELSE [c EXCEPT !.turn = IF c.proceed THEN "server" ELSE @]

-----------------------------------------------------------------------------
(* The HTTP/1 client *)

TimerLink(c) == [Asserted(c, ~c.timer, "timer is linked") EXCEPT !.timer = TRUE]
TimerUnlink(c) == [c EXCEPT !.timer = FALSE]
SocketWrite(c, cb) == [Asserted(c, c.write = "none", "h2o_socket_write") EXCEPT !.write = cb]

CallOnBody(c, err) == IF c.piped THEN OnBodyPiped(c, err) ELSE OnBody(c, err)

\* on_error
ErrorCallback(c, err) ==
    CASE c.res = "head" -> Refused(c)
      [] c.res = "body" -> CallOnBody(c, err)
      [] c.res = "closed" -> IF c.hasProceed THEN ProceedRequest(c, TRUE) ELSE c
OnError(c, err) == CloseClient(ErrorCallback(c, err))

\* close_response
CloseResponse(c) == IF c.req = "closed" THEN CloseClient(c) ELSE [c EXCEPT !.reading = FALSE]

\* update_read_state
ReadState(c) == [c EXCEPT !.timer = c.reading]
UpdateReadState(c) ==
    ReadState([Asserted(c, c.offered = c.piped, "update_read_state") EXCEPT
                  !.reading = c.piped \/ Len(c.input) < MaxBuffer,
                  !.reader = IF c.piped THEN "pipe" ELSE @])

\* req_body_send
ReqBodySend(c) == TimerLink(TimerUnlink(SocketWrite(c, "body")))

\* on_whole_request_sent
WholeRequestSent(c, err) ==
    IF err THEN OnError(TimerUnlink(c), "error")
    ELSE IF c.scene.tunnel
    THEN OnError(TimerUnlink([c EXCEPT !.req = "closed"]), IF c.res = "head" THEN "error" ELSE "eos")
    ELSE CASE c.res = "head" -> TimerLink(TimerUnlink([c EXCEPT !.req = "closed"]))
           [] c.res = "body" -> TimerUnlink([c EXCEPT !.req = "closed"])
           [] c.res = "closed" -> CloseClient([c EXCEPT !.req = "closed"])

\* req_body_send_complete
BodySent(c, end) ==
    IF end THEN WholeRequestSent(c, FALSE) ELSE c
ReqBodySendComplete(c, err) ==
    IF err THEN WholeRequestSent([c EXCEPT !.body = 0], TRUE)
    ELSE BodySent(IF c.hasProceed THEN ProceedRequest([c EXCEPT !.body = 0], FALSE) ELSE [c EXCEPT !.body = 0], c.bodyEnd)

\* start_request
StartRequest(c) ==
    [TimerLink(SocketWrite(c, IF c.ownExpect THEN "wait100" ELSE IF c.hasProceed THEN "body" ELSE "whole")) EXCEPT
        !.req = "body", !.reader = "head", !.reading = TRUE]

\* on_body_until_close, on_body_content_length, on_body_chunked: n units were read;
\* end: the end of the response is known to be reached.  The first of them is
\* called by on_head for what came with the head, possibly nothing.
Received(c, n) ==
    [c EXCEPT !.input = @ \o [i \in 1 .. n |-> c.read + i], !.read = @ + n, !.left = IF c.reader = "length" THEN @ - n ELSE @]
AfterBodyEnd(c) == CloseResponse(c)
ToPipe(c) == [c EXCEPT !.piped = c.offered]
OnBodyLength(c) ==
    IF c.left = 0 THEN AfterBodyEnd(CallOnBody([c EXCEPT !.res = "closed"], "eos")) ELSE UpdateReadState(ToPipe(CallOnBody(c, "no")))
OnBodyChunked(c, end) ==
    IF end THEN AfterBodyEnd(CallOnBody([c EXCEPT !.res = "closed"], "eos")) ELSE UpdateReadState(CallOnBody(c, "no"))
OnBodyRead(c, n, end) ==
    IF c.reader = "length"
    THEN IF n = 0 /\ c.left # 0 THEN UpdateReadState(ToPipe(TimerUnlink(c))) ELSE OnBodyLength(Received(TimerUnlink(c), n))
    ELSE IF n = 0 /\ ~end THEN TimerUnlink(c) ELSE OnBodyChunked(Received(TimerUnlink(c), n), end)
\* the same when the socket reports an error
OnBodyErr(c, afterChunk) ==
    IF c.reader = "close" \/ (c.reader = "chunked" /\ afterChunk /\ c.read # 0)
    THEN AfterBodyEnd(CallOnBody([TimerUnlink(c) EXCEPT !.res = "closed", !.keepalive = FALSE], "eos"))
    ELSE OnError(TimerUnlink(c), "error")

\* on_body_to_pipe: n units were spliced, none (EAGAIN), or -1 (the upstream has gone)
Spliced(c) ==
    IF c.left = 0 THEN CloseResponse(OnBodyPiped([c EXCEPT !.res = "closed"], "eos")) ELSE OnBodyPiped(c, "no")
OnBodyToPipe(c, n) ==
    CASE n = -1 -> OnError([TimerUnlink(c) EXCEPT !.reading = FALSE], "error")
      [] n = 0 -> UpdateReadState([TimerUnlink(c) EXCEPT !.reading = FALSE])
      [] OTHER -> Spliced([TimerUnlink(c) EXCEPT !.reading = FALSE, !.left = @ - n, !.read = @ + n,
                                                  !.pipe = @ \o [i \in 1 .. n |-> c.read + i]])

\* do_update_window; n is for the pipe
UpdateWindow(c, n) ==
    IF ~c.attached THEN [c EXCEPT !.failed = @ \cup {"client"}]
    ELSE IF c.piped THEN OnBodyToPipe(c, n) ELSE UpdateReadState(c)

\* on_head of the client: an informational response, and then what follows in the
\* same read: nothing, a part of a head, or a head with n units of the body
WithExpect(c) == IF c.ownExpect THEN ReqBodySend([c EXCEPT !.ownExpect = FALSE]) ELSE c
Informational(c, status) == OnInformational(IF status = 100 THEN WithExpect(c) ELSE c, status)

TunnelReady(c, head) == c.scene.tunnel /\ head.odd = "switching"
NoContent(c, head) == c.scene.head \/ head.odd \in {"no content", "no content, two lengths"}
Reader(c, head) == IF TunnelReady(c, head) THEN "close" ELSE head.kind
HeadKeeps(c, head) ==
    ~TunnelReady(c, head) /\ head.keep /\ (NoContent(c, head) \/ Reader(c, head) # "close")

AfterHead(c, n) ==
    IF c.res = "closed" THEN CloseResponse(c)
    ELSE IF ~c.onBody THEN CloseClient([c EXCEPT !.keepalive = FALSE])
    ELSE OnBodyRead([c EXCEPT !.reading = TRUE], n, FALSE)
OfferPipe(c, n) ==
    [c EXCEPT !.offered = c.scene.zerocopy /\ c.reader = "length" /\ c.res = "body" /\ n + PullMax <= c.left]
FinalHead(c, head, n) ==
    AfterHead(ProxyOnHead(OfferPipe([c EXCEPT !.keepalive = HeadKeeps(c, head),
                                              !.reader = Reader(c, head),
                                              !.left = head.length,
                                              !.res = IF NoContent(c, head) THEN "closed" ELSE "body"], n),
                          head.odd, NoContent(c, head)),
              n)
Final(c, head, n) ==
    IF head.odd = "switching" /\ c.ownExpect THEN OnError(c, "error")
    ELSE IF head.odd = "bad framing" THEN OnError([WithExpect(c) EXCEPT !.keepalive = head.keep], "error")
    ELSE FinalHead(IF head.odd = "switching" THEN c ELSE WithExpect(c), head, n)

-----------------------------------------------------------------------------
(* Actions *)

Can(event) == event \in px.scene.events
Open == px.client = "open"

\* h2o__proxy_process_request and h2o_httpclient_connect
ProcessRequest ==
    /\ px.client = "none" /\ px.self = "none" /\ px.out = "none"
    /\ px' = IF px.scene.refuse THEN [SendError(px) EXCEPT !.self = "live"]
             ELSE TimerLink([px EXCEPT !.self = "live", !.client = "connecting", !.attached = TRUE])

\* on_pool_connect with an error, on_connect_timeout: on_connect_error
OnConnectError ==
    /\ px.client = "connecting" /\ Can("connect")
    /\ px' = [SendError(DetachClient(px)) EXCEPT !.client = "closed", !.timer = FALSE]

\* on_pool_connect, on_connect of the proxy and on_connection_ready
OnConnect ==
    /\ px.client = "connecting"
    /\ px' = StartRequest([TimerUnlink(px) EXCEPT
                              !.client = "open",
                              !.hasProceed = px.scene.streaming, !.writeCb = px.scene.streaming,
                              !.reqDone = ~px.scene.streaming,
                              !.body = IF px.scene.streaming \/ px.scene.entity THEN 1 ELSE 0,
                              !.bodyEnd = ~px.scene.streaming,
                              !.ownExpect = px.scene.ownExpect /\ (px.scene.streaming \/ px.scene.entity) /\ ~px.scene.tunnel])

\* a write has ended
OnWriteComplete(err) ==
    /\ Open /\ px.write # "none" /\ (err => Can("error"))
    /\ px' = LET c == [px EXCEPT !.write = "none"]
             IN  CASE px.write = "whole" -> WholeRequestSent(c, err)
                   [] px.write = "body" -> ReqBodySendComplete(c, err)
                   [] px.write = "wait100" ->
                        IF err THEN OnError(TimerUnlink(c), "error")
                        ELSE IF c.res = "head" THEN TimerLink(TimerUnlink(c)) ELSE TimerUnlink(c)

\* on_head; with an upstream that answers early or not
ReadingHead == Open /\ px.reading /\ px.reader = "head" /\ (Can("early") \/ px.write = "none")
OnHeadInformational(status, rest) ==
    /\ ReadingHead /\ Can("informational") /\ (status = 100 => px.ownExpect \/ px.scene.forwardExpect)
    /\ (px.informed => px.ownExpect)
    /\ px' = IF rest = "part" THEN TimerLink(Informational(TimerUnlink(px), status))
             ELSE [Informational(TimerUnlink(px), status) EXCEPT !.timer = TRUE]
OnHeadPart ==
    /\ ReadingHead /\ Can("informational")
    /\ px' = TimerLink(TimerUnlink(px))
OnHeadFinal(head, n) ==
    /\ ReadingHead /\ head \in px.scene.heads
    /\ n <= MaxBody /\ (head.kind = "length" => n <= head.length) /\ (NoContent(px, head) => n = 0)
    /\ px' = Final(TimerUnlink(px), head, n)
OnHeadError ==
    /\ ReadingHead /\ Can("error")
    /\ px' = OnError(TimerUnlink(px), "error")

\* the readers of the body
ReadingBody == Open /\ px.reading /\ px.reader \in Kinds /\ px.res = "body"
OnBodyData(n, end) ==
    /\ ReadingBody /\ (n # 0 \/ (end /\ px.reader = "chunked"))
    /\ px.read + n <= MaxBody /\ (px.reader = "length" => n <= px.left) /\ (end => px.reader = "chunked")
    /\ px' = OnBodyRead(px, n, end)
OnBodyClosed(afterChunk) ==
    /\ ReadingBody /\ (Can("error") \/ px.reader = "close")
    /\ px' = OnBodyErr(px, afterChunk)
OnPipeReadable(n) ==
    /\ Open /\ px.reading /\ px.reader = "pipe" /\ px.res = "body"
    /\ n <= px.left /\ (n = -1 => Can("error"))
    /\ px' = OnBodyToPipe(px, n)

\* on_send_timeout, on_head_first_byte_timeout, on_head_timeout, on_body_timeout
OnTimeout ==
    /\ Open /\ px.timer /\ Can("error")
    /\ px' = OnError(TimerUnlink(px), "error")

\* on_send_headers_timeout
OnSendHeadersTimeout ==
    /\ px.headersTimer
    /\ px' = Send([Asserted(px, ~px.inflight, "doublebuffer") EXCEPT !.headersTimer = FALSE, !.inflight = TRUE], <<>>, "progress")

\* do_proceed; n is what a synchronous splice finds
AfterProceed(c, n) ==
    IF c.pipeInUse /\ c.sending = <<>>
    THEN IF PipeIsDry(c) THEN UpdateWindow(c, n) ELSE SendFromPipe(c)
    ELSE IF c.resDone \/ c.bodyErr THEN DoSend(c) ELSE UpdateWindow(DoSend(c), n)
DoProceed(n) ==
    /\ px.out = "sending" /\ px.self = "live" /\ n <= px.left /\ (n = -1 => Can("error"))
    /\ px' = IF px.inflight THEN AfterProceed(DoublebufferConsume([px EXCEPT !.out = "wait"]), n)
             ELSE AfterProceed([Asserted(px, px.pipeInUse /\ px.pipeInflight, "do_proceed") EXCEPT
                                   !.out = "wait", !.pipeInflight = FALSE], n)

\* write_req and do_write_req, called by the server for the next part of the body
AfterWriteReq(c, n) ==
    ReqBodySend([Asserted(c, c.write = "none" /\ c.body = 0, "do_write_req") EXCEPT
                    !.body = n, !.keepalive = @ /\ c.res # "closed"])
WriteEnd(c) ==
    IF c.resDone THEN DetachClient([c EXCEPT !.writeCb = FALSE, !.reqDone = TRUE])
    ELSE [c EXCEPT !.writeCb = FALSE, !.reqDone = TRUE]
\* once the last part is written HTTP/1 forgets proceed_req, and ends the request when
\* the response is out
ServerEnded(c) ==
    IF c.out \in {"final", "answered", "error"} THEN Dispose([c EXCEPT !.proceed = FALSE]) ELSE [c EXCEPT !.proceed = FALSE]
WriteReq(n, end) ==
    /\ px.writeCb /\ px.turn = "server" /\ px.self = "live" /\ (n # 0 \/ end)
    /\ (~end => px.chunks < MaxChunks)
    /\ px' = LET c == [px EXCEPT !.turn = "proxy", !.chunks = @ + 1]
             IN  IF ~px.attached THEN ProceedError(c)
                 ELSE IF end THEN ServerEnded(AfterWriteReq([WriteEnd(c) EXCEPT !.bodyEnd = TRUE], n))
                 ELSE AfterWriteReq(c, n)

\* the server has sent the response, or gives up: h2o_dispose_request, do_stop
DisposeRequest ==
    /\ px.self = "live"
    /\ \/ px.out \in {"final", "answered", "error"} /\ (px.scene.server = "h1" => ~px.proceed)
       \/ Can("stop") /\ px.out # "gone"
    /\ px' = Dispose(px)

Init == px \in {NewExchange(s) : s \in Scenes}
Step ==
    \/ ProcessRequest \/ OnConnectError \/ OnConnect
    \/ \E err \in BOOLEAN : OnWriteComplete(err)
    \/ \E status \in {100, 103}, rest \in {"nothing", "part"} : OnHeadInformational(status, rest)
    \/ OnHeadPart \/ OnHeadError
    \/ \E head \in Heads, n \in 0 .. 2 : OnHeadFinal(head, n)
    \/ \E n \in 0 .. 2, end \in BOOLEAN : OnBodyData(n, end)
    \/ \E afterChunk \in BOOLEAN : OnBodyClosed(afterChunk)
    \/ \E n \in -1 .. PullMax : OnPipeReadable(n)
    \/ OnTimeout \/ OnSendHeadersTimeout
    \/ \E n \in -1 .. PullMax : DoProceed(n)
    \/ \E n \in 0 .. 1, end \in BOOLEAN : WriteReq(n, end)
    \/ DisposeRequest
Next == px.failed = {} /\ Step

-----------------------------------------------------------------------------
(* Properties *)

\* a connection goes back to the pool, or gets a second write, while one is in
\* flight; the end of a piped body comes after the generator was disposed of; the
\* timer is linked again when the response starts before the request was written
KnownFailures == {"h2o_socket_export", "h2o_socket_write", "on_body_piped: self", "timer is linked"}
\* No assertion of proxy.c, http1client.c and pipe_sender.c fails, and the generator is not used after it
\* was disposed of.
NoAssertionFails == px.failed \subseteq KnownFailures

\* The response is the upstream's: its units in order, and all of them when it ends well.
ResponseIsIntact ==
    /\ px.delivered = [i \in 1 .. Len(px.delivered) |-> i]
    /\ px.out = "final" /\ ~px.scene.tunnel => px.delivered = [i \in 1 .. px.read |-> i] /\ px.res = "closed"

\* A socket goes back to the pool at the end of a request and its response only.
ReturnedAtEnd == px.client = "returned" => px.req = "closed" /\ px.res = "closed"

\* While the client waits for the upstream a timeout is armed.
UpstreamIsTimed == Open /\ (px.reading \/ px.write # "none") => px.timer

\* A client that nobody knows anymore goes away by itself.
NoClientLeaks == Open /\ ~px.attached => px.timer \/ px.write # "none" \/ px.reading

=============================================================================
