------------------------------ MODULE H1Server ------------------------------
(***************************************************************************)
(* The HTTP/1 server connection of h2o (lib/http1.c): requests one after   *)
(* another, their bodies (buffered or streamed to the handler), tunnels,   *)
(* interim and final responses, timeouts and the end of the connection.    *)
(*                                                                         *)
(* The connection is one record `h1`.  The bytes a client sends are tokens *)
(* that know which request they belong to: a head of some kind, a unit of  *)
(* body, and for the chunked encoding its framing, its end and garbage.    *)
(* The server does not look at the request number; the properties do.      *)
(* reqread_start parses what is already buffered: phase "parse", in which  *)
(* nothing else runs.                                                      *)
(***************************************************************************)
EXTENDS Integers, Sequences, FiniteSets, SequencesExt

CONSTANTS
    MaxEntity,      \* max_request_entity_size, in units
    MaxInterim,     \* bound on the number of 1xx responses of a request
    Scenes          \* what clients send and what the configuration allows

VARIABLE h1

-----------------------------------------------------------------------------
(* What a client sends *)

BodyKinds == {"zero", "one", "two", "chunked", "expect", "expect_chunked", "expect_unknown"}
TunnelKinds == {"connect", "websocket"}
\* heads after which the server does not go on
LastKinds == TunnelKinds \cup {"get_close", "invalid", "te_unknown", "cl_broken", "cl_large", "broken", "crlf", "long",
                               "pri", "h2c", "expect_unknown"}
IsChunked(kind) == kind \in {"chunked", "expect_chunked"}
Units(kind) == CASE kind \in {"one", "expect"} -> 1 [] kind = "two" -> 2 [] OTHER -> 0
Infinite == 1000

Token(k, what) == [req |-> k, what |-> what]
IsHead(c, token) == token.what \notin {"data", "frame", "end", "junk"}

\* the tokens that may follow what the client has sent so far
NextTokens(c) ==
    LET k == c.sentReq
        kind == IF k = 0 THEN "get" ELSE c.scene.heads[k]
        more == k < Len(c.scene.heads) /\ kind \notin LastKinds
        data == Token(k, "data")
    IN  CASE c.half -> {Token(k, kind)}
          [] IsChunked(kind) /\ ~c.sentEnd ->
                {Token(k, "end"), Token(k, "junk")} \cup (IF c.sentUnits < 2 THEN {data, Token(k, "frame")} ELSE {})
          [] kind \in TunnelKinds /\ c.sentUnits < 2 -> {data}
          [] c.sentUnits < Units(kind) -> {data}
          [] OTHER -> IF more THEN {Token(k + 1, c.scene.heads[k + 1]), Token(k + 1, "half")} ELSE {}
\* a head of which only a part was sent is replaced by the whole one
Sent(c, token) ==
    [c EXCEPT !.input = Append(IF c.half THEN Front(@) ELSE @, token),
              !.half = token.what = "half",
              !.sentReq = token.req,
              !.sentUnits = IF token.req # c.sentReq THEN 0 ELSE IF token.what \in {"data", "frame"} THEN @ + 1 ELSE @,
              !.sentEnd = IF token.req # c.sentReq THEN FALSE ELSE @ \/ token.what \in {"end", "junk"}]

-----------------------------------------------------------------------------
(* The connection *)

Asserted(c, ok, name) == IF ok THEN c ELSE [c EXCEPT !.failed = @ \cup {name}]

\* init_request: what belongs to a request
NewRequest ==
    [kind |-> "none", persistent |-> FALSE, tunnel |-> FALSE, refused |-> FALSE,
     reader |-> "none", length |-> 0, received |-> 0, body |-> -1, entity |-> -1,
     proceed |-> FALSE, writeReq |-> "null", called |-> FALSE, gen |-> FALSE,
     out |-> "head", interim |-> 0, interimPending |-> 0, interimInflight |-> FALSE, pendingFinal |-> "none",
     \* the handler: "none", "working", "waiting" (for proceed), "done"; lent: it holds a part of the body
     handler |-> "none", lent |-> FALSE]

\* h2o_http1_accept
NewConn(scene) ==
    [alive |-> "open", phase |-> "run", list |-> "active", reading |-> TRUE, timer |-> TRUE, ioTimer |-> TRUE,
     input |-> <<>>, unconsumed |-> FALSE, index |-> 1, rq |-> NewRequest, write |-> "none", accepts |-> TRUE,
     sentReq |-> 0, sentUnits |-> 0, sentEnd |-> FALSE, half |-> FALSE, scene |-> scene, failed |-> {}]

Can(event) == event \in h1.scene.events

\* close_connection; how: "closed", "h2" or "raw" (the socket lives on)
CloseConnection(c, how) ==
    [NewConn(c.scene) EXCEPT !.alive = how, !.failed = c.failed, !.reading = FALSE, !.timer = FALSE, !.ioTimer = FALSE]

\* h2o_socket_write, h2o_socket_sendvec
SocketWrite(c, cb) == [Asserted(c, c.write = "none", "write in flight") EXCEPT !.write = cb]
ReadStop(c) == [c EXCEPT !.reading = FALSE]
Consume(c, n) == [c EXCEPT !.input = SubSeq(@, n + 1, Len(@))]

\* set_req_timeout, set_req_io_timeout, clear_timeouts
SetReqTimeout(c) == [c EXCEPT !.timer = ~c.rq.tunnel]
SetReqIoTimeout(c) == [c EXCEPT !.ioTimer = ~c.rq.tunnel]
ClearTimeouts(c) == [c EXCEPT !.timer = FALSE, !.ioTimer = FALSE]

\* reqread_start, resume_request_read
ResumeRequestRead(c) == [SetReqIoTimeout(SetReqTimeout(c)) EXCEPT !.reading = TRUE]
ReqreadStart(c) == [ResumeRequestRead(c) EXCEPT !.phase = IF c.input = <<>> THEN "run" ELSE "parse"]

\* init_request: the head of the request before is dropped only now
InitRequest(c) ==
    [(IF c.unconsumed THEN Consume(c, 1) ELSE c) EXCEPT !.rq = NewRequest, !.index = @ + 1, !.unconsumed = FALSE]

\* cleanup_connection
NextRequest(c) == ReqreadStart([c EXCEPT !.list = IF c.input = <<>> THEN "idle" ELSE @])
CleanupConnection(c) ==
    IF ~c.rq.persistent THEN CloseConnection(c, "closed")
    ELSE NextRequest(InitRequest(Asserted(Asserted(c, ~c.rq.proceed, "cleanup: proceed_req"),
                                          c.rq.reader = "none", "cleanup: reader")))

-----------------------------------------------------------------------------
(* Responses *)

\* Mutant of Done: the end of the response ends the request, whatever is left of
\* its body.
DoneAtOnce(c) == CleanupConnection(c)
Done(c) == IF c.rq.tunnel \/ ~c.rq.proceed THEN CleanupConnection(c) ELSE c

\* on_send_complete, on_send_complete_post_trailers
OnSendComplete(c, err) ==
    IF ~err /\ "trailers" \in c.scene.events /\ c.write # "trailers" /\ c.rq.persistent
    THEN SocketWrite(c, "trailers")
    ELSE Done([Asserted(c, c.rq.tunnel => ~c.rq.persistent, "tunnel is persistent") EXCEPT
                  !.rq.out = "done", !.rq.persistent = @ /\ ~err, !.write = "none"])

\* finalostream_send; state: "progress", "final", "error" or "empty" (the end
\* without data)
SendBufs(c, state) ==
    SocketWrite(IF c.rq.out = "head" \/ state # "empty" THEN SetReqIoTimeout([c EXCEPT !.rq.out = "body"]) ELSE c,
                IF state = "progress" THEN "next" ELSE "complete")
FinalSend(c, state) ==
    IF c.rq.interimInflight THEN [c EXCEPT !.rq.pendingFinal = state]
    ELSE IF state # "error" THEN SendBufs(c, state)
    ELSE IF c.rq.refused THEN OnSendComplete([c EXCEPT !.rq.persistent = FALSE], FALSE)
    ELSE SendBufs([c EXCEPT !.rq.persistent = FALSE], state)

\* h2o_start_response and h2o_send
StartResponse(c) == [Asserted(c, ~c.rq.gen, "_generator") EXCEPT !.rq.gen = TRUE]
Send(c, state) == FinalSend([c EXCEPT !.rq.gen = state = "progress"], state)

\* h2o_send_error_generic
SendError(c, close) == Send(StartResponse([c EXCEPT !.rq.persistent = @ /\ ~close]), "final")

\* send_bad_request
SendBadRequest(c) == SendError(ReadStop(c), TRUE)

\* do_send_informational, finalostream_send_informational
DoSendInformational(c) ==
    [SocketWrite(Asserted(c, ~c.rq.interimInflight /\ c.rq.interimPending # 0, "informational"), "interim") EXCEPT
        !.rq.interimInflight = TRUE, !.rq.interimPending = 0]
SendInformational(c) == IF c.rq.interimInflight THEN c ELSE DoSendInformational(c)

\* on_send_informational_complete
InformationalComplete(c) ==
    IF c.rq.pendingFinal # "none" THEN FinalSend(c, c.rq.pendingFinal)
    ELSE IF c.rq.interimPending # 0 THEN DoSendInformational(c)
    ELSE c

-----------------------------------------------------------------------------
(* Request bodies *)

\* entity_read_do_send_error
EntityError(c) ==
    LET t == ReadStop(ClearTimeouts([c EXCEPT !.rq.proceed = FALSE, !.rq.reader = "none"]))
    IN  IF ~c.rq.gen /\ c.rq.out = "head" THEN SendError(t, TRUE)
        ELSE IF c.rq.out = "done" THEN CleanupConnection([t EXCEPT !.rq.persistent = FALSE])
        ELSE [t EXCEPT !.rq.persistent = FALSE]

\* h2o_process_request
ProcessRequest(c) ==
    [Asserted(c, ~c.rq.called, "process_called") EXCEPT !.rq.called = TRUE, !.rq.handler = "working"]

\* write_req_non_streaming, write_req_first, write_req_connect_first, and the
\* handler's own callback
WriteNonStreaming(c, complete) ==
    IF complete THEN ProcessRequest([c EXCEPT !.rq.proceed = FALSE]) ELSE ResumeRequestRead(c)
WriteReq(c, complete) ==
    CASE c.rq.writeReq = "first" ->
            IF ~complete /\ "stream" \in c.scene.events
            THEN ProcessRequest([c EXCEPT !.rq.writeReq = "null", !.rq.proceed = TRUE])
            ELSE WriteNonStreaming([c EXCEPT !.rq.writeReq = "nonstream"], complete)
      [] c.rq.writeReq = "nonstream" -> WriteNonStreaming(c, complete)
      [] c.rq.writeReq = "connect" -> [c EXCEPT !.rq.writeReq = "null", !.rq.proceed = @ /\ ~complete]
      [] c.rq.writeReq = "handler" -> [c EXCEPT !.rq.lent = TRUE]
      [] OTHER -> Asserted(c, FALSE, "write_req.cb")

\* handle_one_body_fragment: `units` of body in the next `taken` tokens
AfterComplete(c) == IF c.rq.out = "done" THEN CleanupConnection(c) ELSE c
AfterFragment(c, complete) ==
    IF c.rq.writeReq = "handler" /\ ~c.accepts THEN EntityError(c)
    ELSE IF complete THEN AfterComplete([c EXCEPT !.rq.proceed = FALSE, !.rq.reader = "none"])
    ELSE c
TakeFragment(c, units, taken) ==
    [Consume(c, taken) EXCEPT !.rq.body = @ + units, !.rq.received = @ + units, !.rq.entity = c.rq.body + units]
OneBodyFragment(c, units, taken, complete) ==
    IF units = 0 /\ ~complete THEN Consume(c, taken)
    ELSE IF "no_memory" \in c.scene.events THEN EntityError(ReadStop(ClearTimeouts(c)))
    ELSE AfterFragment(WriteReq(TakeFragment(ReadStop(ClearTimeouts(c)), units, taken), complete), complete)

\* handle_chunked_entity_read: phr_decode_chunked decodes up to the end
ChunkedRead(c) ==
    LET stops == {i \in DOMAIN c.input : c.input[i].what \in {"end", "junk"}}
        upTo == IF stops = {} THEN Len(c.input) ELSE CHOOSE i \in stops : \A j \in stops : i <= j
        units == Cardinality({i \in 1 .. upTo : c.input[i].what = "data"})
        broken == stops # {} /\ c.input[upTo].what = "junk"
    IN  IF c.input = <<>> THEN c
        ELSE IF ~broken /\ units + c.rq.received >= MaxEntity THEN EntityError(c)
        ELSE IF broken THEN EntityError(c)
        ELSE OneBodyFragment(c, units, upTo, stops # {})

\* handle_content_length_entity_read
ContentLengthRead(c) ==
    LET complete == c.rq.received + Len(c.input) >= c.rq.length
        units == IF complete THEN c.rq.length - c.rq.received ELSE Len(c.input)
    IN  IF ~complete /\ units = 0 THEN c ELSE OneBodyFragment(c, units, units, complete)

HandleIncomingEntity(c) == IF c.rq.reader = "chunked" THEN ChunkedRead(c) ELSE ContentLengthRead(c)

\* create_entity_reader (and, with an infinite length, the reader of a tunnel)
CreateEntityReader(c, reader, length) ==
    [c EXCEPT !.rq.reader = reader, !.rq.length = length, !.rq.body = 0, !.unconsumed = FALSE, !.rq.writeReq = "first"]

\* proceed_request
ProceedRequest(c, err) ==
    IF err THEN EntityError(c)
    ELSE ResumeRequestRead([Asserted(c, c.rq.entity = c.rq.body, "proceed: entity") EXCEPT !.rq.body = 0])

-----------------------------------------------------------------------------
(* Request heads *)

\* the label ProcessImmediately of handle_incoming_request
ProcessImmediately(c) ==
    ProcessRequest(ClearTimeouts(ReadStop(
        HandleIncomingEntity([c EXCEPT !.rq.writeReq = "connect", !.rq.proceed = TRUE, !.rq.entity = 0]))))

RequestWithBody(c, kind) ==
    CASE kind = "expect_unknown" -> SendError(ReadStop(ClearTimeouts(c)), TRUE)
      [] kind \in {"expect", "expect_chunked"} /\ "forward" \in c.scene.events -> ProcessImmediately(Consume(c, 1))
      [] kind \in {"expect", "expect_chunked"} -> ReadStop(SocketWrite(Consume(c, 1), "continue"))
      [] OTHER -> HandleIncomingEntity(Consume(c, 1))
TunnelRequest(c, kind) ==
    IF kind = "connect" /\ "stream" \notin c.scene.events THEN SendError(ReadStop(ClearTimeouts(c)), FALSE)
    ELSE ProcessImmediately(Consume(CreateEntityReader(c, "length", Infinite), 1))

\* fixup_request: persistence and tunnels
Fixup(c, kind) ==
    [c EXCEPT !.unconsumed = TRUE, !.rq.kind = kind, !.rq.tunnel = kind \in TunnelKinds,
              !.rq.persistent = kind \notin TunnelKinds \cup {"get_close", "invalid"} /\ "stopping" \notin c.scene.events]
Dispatch(c, kind) ==
    CASE kind = "invalid" -> SendBadRequest(ClearTimeouts(c))
      [] kind = "h2c" -> SocketWrite(ReadStop(ClearTimeouts(c)), "upgrade")
      [] kind = "h2c_bad" -> SendError(ReadStop(ClearTimeouts(c)), FALSE)
      [] kind \in {"te_unknown", "cl_broken", "cl_large"} -> EntityError(c)
      [] kind \in BodyKinds ->
            RequestWithBody(CreateEntityReader(c, IF IsChunked(kind) THEN "chunked" ELSE "length", Units(kind)), kind)
      [] kind \in TunnelKinds -> TunnelRequest(c, kind)
      [] OTHER -> ProcessRequest(ReadStop(ClearTimeouts(c)))

\* handle_incoming_request; a token that is no head cannot be parsed
HandleIncomingRequest(c, kind) ==
    CASE kind = "half" -> c
      [] kind = "pri" -> CloseConnection(c, "h2")
      [] kind = "crlf" -> CloseConnection(c, "closed")
      [] kind \in {"long", "broken", "data", "frame", "end", "junk"} -> SendBadRequest(c)
      [] OTHER -> Dispatch(Fixup(c, kind), kind)
Parse(c) ==
    IF c.input = <<>> THEN c ELSE HandleIncomingRequest([c EXCEPT !.list = "active"], Head(c.input).what)

\* reqread_on_read
OnRead(c) == IF c.rq.reader = "none" THEN Parse(SetReqIoTimeout(c)) ELSE HandleIncomingEntity(SetReqIoTimeout(c))

-----------------------------------------------------------------------------
(* Entry points *)

Init == \E scene \in Scenes : h1 = NewConn(scene)

Running == h1.alive = "open" /\ h1.phase = "run" /\ h1.failed = {}
\* the handler may refuse the part of the body it is given
Do(c) == h1' = [c EXCEPT !.accepts = TRUE]

\* one or two tokens arrive
Receive(accepts) ==
    /\ Running /\ h1.reading
    /\ \E token \in NextTokens(h1) :
        LET c == [Sent(h1, token) EXCEPT !.accepts = accepts]
        IN  \/ Do(OnRead(c))
            \/ \E more \in NextTokens(c) : Do(OnRead(Sent(c, more)))
ReadError == Running /\ h1.reading /\ Do(CloseConnection(h1, "closed"))

\* the rest of reqread_start
ParseNext == h1.alive = "open" /\ h1.phase = "parse" /\ h1.failed = {} /\ Do(Parse([h1 EXCEPT !.phase = "run"]))

\* the end of a socket write
Written(cb) == Running /\ h1.write = cb
WriteError ==
    /\ Running /\ h1.write \in {"next", "continue", "interim", "upgrade"} /\ Can("write_error")
    /\ Do(CloseConnection(h1, "closed"))
OnSendNext ==
    /\ Written("next")
    /\ Do([h1 EXCEPT !.write = "none", !.rq.handler = IF @ = "waiting" THEN "working" ELSE @])
SendCompletes(err) ==
    /\ h1.write \in {"complete", "trailers"} /\ Running /\ (err => Can("write_error"))
    /\ Do(OnSendComplete([h1 EXCEPT !.write = IF @ = "trailers" THEN @ ELSE "none"], err))
OnContinueSent(accepts) ==
    /\ Written("continue")
    /\ Do(HandleIncomingEntity([h1 EXCEPT !.write = "none", !.reading = TRUE, !.accepts = accepts]))
OnInformationalSent ==
    /\ Written("interim")
    /\ Do(InformationalComplete([h1 EXCEPT !.write = "none", !.rq.interimInflight = FALSE]))
OnUpgradeComplete == Written("upgrade") /\ Do(CloseConnection(h1, "raw"))

\* reqread_on_timeout, req_io_on_timeout, close_idle_connection
OnTimeout == Running /\ (h1.timer \/ h1.ioTimer) /\ Can("timeout") /\ Do(CloseConnection(h1, "closed"))
CloseIdleConnection == Running /\ h1.list = "idle" /\ Can("timeout") /\ Do(CloseConnection(h1, "closed"))

\* The handler (lib/core/proxy.c is the one that streams): it answers, sends
\* interim responses before, takes a streamed body and gives it back.
Answer(state, refused) ==
    LET c == [h1 EXCEPT !.rq.handler = IF state = "progress" THEN "waiting" ELSE "done", !.rq.refused = refused]
    IN  /\ Running /\ h1.rq.handler = "working"
        /\ refused => state = "error" /\ h1.rq.out = "head" /\ ~h1.rq.gen
        /\ state = "error" => h1.rq.gen \/ refused
        /\ Do(Send(IF h1.rq.gen THEN c ELSE StartResponse(c), state))
SendInterim ==
    /\ Running /\ h1.rq.handler = "working" /\ ~h1.rq.gen /\ h1.rq.interim < MaxInterim /\ Can("interim")
    /\ Do(SendInformational([h1 EXCEPT !.rq.interim = @ + 1, !.rq.interimPending = @ + 1]))
TakeBody ==
    /\ Running /\ h1.rq.handler = "working" /\ ~h1.rq.gen /\ h1.rq.proceed /\ h1.rq.writeReq = "null"
    /\ Do([h1 EXCEPT !.rq.writeReq = "handler", !.rq.lent = TRUE])
ProceedBody(err) ==
    /\ Running /\ h1.rq.lent
    /\ LET c == [h1 EXCEPT !.rq.lent = FALSE, !.rq.handler = IF err /\ ~h1.rq.gen /\ h1.rq.proceed THEN "done" ELSE @]
       IN  Do(IF h1.rq.proceed THEN ProceedRequest(c, err) ELSE c)

Next ==
    \/ \E accepts \in BOOLEAN : Receive(accepts) \/ OnContinueSent(accepts)
    \/ ReadError \/ ParseNext
    \/ WriteError \/ OnSendNext \/ OnInformationalSent \/ OnUpgradeComplete
    \/ \E err \in BOOLEAN : SendCompletes(err) \/ ProceedBody(err)
    \/ OnTimeout \/ CloseIdleConnection
    \/ \E state \in {"progress", "final", "error", "empty"}, refused \in BOOLEAN : Answer(state, refused)
    \/ SendInterim \/ TakeBody

-----------------------------------------------------------------------------
(* Properties *)

\* an error in the request body is answered while the handler still works on its
\* own answer (the FIXME in entity_read_do_send_error)
KnownFailures == {"write in flight"}
\* No assertion of http1.c fails, but the known one: a second write while one
\* is in flight.
NoAssertionFails == h1.failed \subseteq KnownFailures

\* Client and server agree on where messages begin: what is parsed as a head is
\* the head of the next request, what is taken for a body belongs to the request
\* being handled, and a request is handled after the one before it.
FramingAgrees ==
    h1.alive = "open" /\ h1.input # <<>> /\ ~h1.rq.tunnel /\ h1.failed = {} =>
        LET first == h1.input[1]
        IN  /\ h1.rq.reader # "none" /\ h1.rq.persistent => first.req = h1.index /\ ~IsHead(h1, first)
            /\ h1.phase = "parse" => first.req = h1.index /\ IsHead(h1, first)

\* A request that an upstream refused is not answered: "to let the client retry,
\* immediately close the connection without sending any data" (finalostream_send).
RefusedRequestCloses == h1.alive = "open" => ~(h1.rq.refused /\ h1.rq.out = "done")

\* A connection is never stuck: it reads, writes, has a timer that will close
\* it, or its handler owes something.  (The exception is RefusedRequestCloses.)
NeverStuck ==
    h1.alive = "open" /\ h1.phase = "run" /\ h1.failed = {} =>
        /\ \/ h1.reading \/ h1.write # "none" \/ h1.timer \/ h1.ioTimer \/ h1.rq.handler = "working" \/ h1.rq.lent
           \/ ~RefusedRequestCloses
        /\ h1.reading /\ ~h1.rq.tunnel => h1.timer \/ h1.ioTimer
        /\ h1.list = "idle" => h1.rq = NewRequest /\ h1.write = "none" /\ h1.reading
=============================================================================
