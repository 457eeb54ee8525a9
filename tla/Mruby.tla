------------------------------- MODULE Mruby --------------------------------
(***************************************************************************)
(* The mruby handler: lib/handler/mruby.c and sender.c, http_request.c,    *)
(* middleware.c, channel.c and sleep.c of lib/handler/mruby/, with the     *)
(* Ruby code they embed (embedded/*.rb).                                   *)
(*                                                                         *)
(* A Ruby program is what it may do next: a running fiber takes any        *)
(* operation the scene offers.  h2o_mruby_run_fiber is a frame; the top    *)
(* frame's fiber runs, and a frame without a fiber is about to return to   *)
(* its caller (`then`).  There is one outgoing HTTP request (`http`), one  *)
(* subrequest of H2O.next or H2O.reprocess (`sub`) and one channel.  A     *)
(* body is a number of bytes.  References from C to a Ruby object are      *)
(* "none", "live", "dead" (unreachable, not swept yet) or "swept".         *)
(***************************************************************************)
EXTENDS Integers, Sequences, FiniteSets, SequencesExt

CONSTANTS Gens,      \* requests handled
          MaxOps,    \* bound: operations of a fiber
          MaxSends,  \* bound: body events of an upstream
          Unlimited, \* bytes_left and preferred_chunk_size without a limit
          Scenes     \* [ops, resp, chunk, clen, configured, aborts, heads]

VARIABLE mr

Asserted(c, ok, name) == IF ok THEN c ELSE [c EXCEPT !.failed = @ \cup {name}]
Least(a, b) == IF a < b THEN a ELSE b
None == <<"none", 0>>
Main(g) == <<"main", g>>
Body(g) == <<"body", g>>
Task == <<"task", 0>>
Conf == <<"conf", 0>>
Fibers == {Main(g) : g \in Gens} \cup {Body(g) : g \in Gens} \cup {Task, Conf}
Loop == <<"loop", 0>>

-----------------------------------------------------------------------------
(* Fibers.                                                                 *)

Running(c) == IF c.frames = <<>> THEN None ELSE Last(c.frames).fib
SetRunning(c, f) == [c EXCEPT !.frames[Len(c.frames)].fib = f]
SetFib(c, f, st) == [c EXCEPT !.fib[f].st = st]
\* h2o_mruby_run_fiber: the receiver is called with the input
RunFiber(c, f, then) ==
    SetFib(Asserted([c EXCEPT !.frames = Append(@, [fib |-> f, then |-> then])], c.fib[f].st # "run", "double resume"), f, "run")
\* the loop is left
Finish(c) == SetRunning(c, None)
\* the fiber has yielded and is not run again: the main fiber of a child runs next
Yield(c) ==
    IF c.resumers = <<>> THEN Finish(c)
    ELSE SetFib(SetRunning([c EXCEPT !.resumers = Front(@)], Last(c.resumers)), Last(c.resumers), "run")
WaitYield(c, f) == Yield(SetFib(c, f, "wait"))

-----------------------------------------------------------------------------
(* Requests.                                                               *)

IsOpen(c, g) == c.gen[g].st = "open"
NoSender == [kind |-> "none", left |-> 0, final |-> FALSE, flight |-> FALSE, bytes |-> 0, buf |-> 0, recv |-> 0,
             err |-> FALSE, body |-> FALSE]
NoGen == [st |-> "none", started |-> FALSE, ended |-> "no", wait |-> FALSE, sent |-> 0, src |-> 0, sender |-> NoSender]
Sender(c, g) == c.gen[g].sender
SetSender(c, g, f, v) == [c EXCEPT !.gen[g].sender[f] = v]
StartResponse(c, g) == [Asserted(c, ~c.gen[g].started, "_generator is set") EXCEPT !.gen[g].started = TRUE]
\* h2o_sendvec: what is sent in the last state ends the response
SendVec(c, g, n, state) ==
    LET d == Asserted(Asserted(c, ~c.gen[g].wait, "send in flight"), c.gen[g].started /\ c.gen[g].ended = "no", "_generator is NULL")
    IN  [d EXCEPT !.gen[g].sent = @ + n, !.gen[g].wait = (state = "more"), !.gen[g].ended = IF state = "more" THEN @ ELSE state]
SendError500(c, g) == [c EXCEPT !.gen[g].ended = "500"]
\* handle_exception: an error response when nothing was sent yet
HandleException(c, g) == IF ~IsOpen(c, g) \/ c.gen[g].started \/ c.gen[g].ended # "no" THEN c ELSE SendError500(c, g)

-----------------------------------------------------------------------------
(* Senders: lib/handler/mruby/sender.c and the double buffer.              *)

Trimmed(s, n) == IF s.left = Unlimited THEN n ELSE Least(n, s.left)
FinalState(left, state) == IF state = "final" /\ left \notin {0, Unlimited} THEN "error" ELSE state
\* h2o_mruby_sender_do_send
DoSendTo(c, g, n, left, state) ==
    SendVec([c EXCEPT !.gen[g].sender.left = left, !.gen[g].sender.final = (FinalState(left, state) # "more")], g, n, FinalState(left, state))
DoSend(c, g, n, state) ==
    LET s == Sender(c, g)
        m == Trimmed(s, n)
    IN  DoSendTo(Asserted(c, ~s.final, "final_sent"), g, m, IF s.left = Unlimited THEN Unlimited ELSE s.left - m, state)
\* h2o_doublebuffer_prepare, h2o_doublebuffer_prepare_empty and h2o_doublebuffer_consume
Prepared(c, g, input, n) ==
    LET s == Sender(c, g)
    IN  [c EXCEPT !.gen[g].sender = [s EXCEPT !.buf = IF s.buf = 0 THEN input ELSE s.buf, !.bytes = n, !.flight = (n # 0)]]
PrepareEmpty(c, g) == [c EXCEPT !.gen[g].sender.flight = TRUE, !.gen[g].sender.bytes = 0]
Consume(c, g) ==
    LET s == Sender(c, g)
    IN  [Asserted(c, s.flight, "db->inflight") EXCEPT !.gen[g].sender = [s EXCEPT !.flight = FALSE, !.buf = s.buf - s.bytes, !.bytes = 0]]
\* h2o_mruby_sender_do_send_buffer with `held` bytes in the double buffer and `left` bytes of input after the swap
SendBuffer(c, g, held, left, isFinal) ==
    LET n == Least(held, c.scene.chunk)
    IN  IF isFinal /\ n = held /\ left = 0 THEN DoSend(Prepared(c, g, held, n), g, n, "final")
        ELSE IF n = 0 THEN c ELSE DoSend(Prepared(c, g, held, n), g, n, "more")
InputLeft(s, input) == IF s.buf = 0 THEN 0 ELSE input
SendHeld(s, input) == IF s.buf = 0 THEN input ELSE s.buf
CheckIdle(c, g) == Asserted(c, ~Sender(c, g).flight, "!db->inflight")
\* h2o_mruby_sender_create
NewSender(c, g, kind, body) == [c EXCEPT !.gen[g].sender = [NoSender EXCEPT !.kind = kind, !.left = c.scene.clen, !.body = body]]
CloseBody(c, g) == SetSender(c, g, "body", FALSE)

\* the callback sender: what #each yields
CallbackFlush(c, g, isFinal) ==
    LET s == Sender(c, g)
    IN  SendBuffer(SetSender(CheckIdle(c, g), g, "recv", InputLeft(s, s.recv)), g, SendHeld(s, s.recv), InputLeft(s, s.recv), isFinal)
CanFlush(c, g) == ~Sender(c, g).final /\ ~Sender(c, g).flight
StartIfIdle(c, g) == IF CanFlush(c, g) THEN DoSend(PrepareEmpty(c, g), g, 0, "more") ELSE c
\* do_callback_proceed
CallbackProceed(c, g) ==
    LET d == Consume(Asserted(c, ~Sender(c, g).final, "!final_sent"), g)
    IN  IF Sender(c, g).err THEN DoSend(d, g, 0, "error") ELSE CallbackFlush(d, g, ~Sender(c, g).body)
\* check_precond
MaySend(c, g) == IsOpen(c, g) /\ c.gen[g].started /\ c.gen[g].ended = "no"
\* send_chunk_method
Receive(c, g, n) == [c EXCEPT !.gen[g].sender.recv = @ + n, !.gen[g].src = @ + 1]
SendChunk(c, g) ==
    LET d == Receive(c, g, Trimmed(Sender(c, g), 1))
    IN  IF CanFlush(c, g) /\ Sender(c, g).left # 0 THEN CallbackFlush(d, g, FALSE) ELSE d
SendChunkEos(c, g) == CloseBody(IF CanFlush(c, g) THEN CallbackFlush(c, g, TRUE) ELSE c, g)
\* handle_error_callback
HandleError(c, g) ==
    LET s == Sender(c, g)
    IN  CloseBody(IF s.final THEN c ELSE IF s.flight THEN SetSender(c, g, "err", TRUE) ELSE DoSend(c, g, 0, "error"), g)

-----------------------------------------------------------------------------
(* http_request.                                                           *)

NoHttp == [st |-> "none", client |-> "none", recv |-> None, consumed |-> FALSE, buf |-> 0, after |-> 0, has |-> FALSE,
           request |-> "none", input |-> "none", shortcut |-> 0, resp |-> FALSE, got |-> 0, sends |-> 0, held |-> {}]
Gone == {"none", "dead", "swept"}
\* dispose_context: the client is cancelled and the objects lose their data
DisposeContext(c) ==
    [Asserted(c, c.http.shortcut = 0, "ctx->shortcut == NULL") EXCEPT !.http.st = "freed", !.http.client = "none"]
TryDispose(c) == c.http.request \in Gone /\ c.http.input \in Gone
\* peek_content: what the upstream sent last is in after_closed once the client is gone
Peeked(c) == IF c.http.client # "none" /\ c.http.has THEN c.http.buf ELSE c.http.after
SetPeeked(c, n) == IF c.http.client # "none" /\ c.http.has THEN [c EXCEPT !.http.buf = n] ELSE [c EXCEPT !.http.after = n]
\* the input of a sender: its own `remaining` after the last notification
HttpFlush(c, g, isFinal) ==
    LET s == Sender(c, g)
        n == IF isFinal THEN s.recv ELSE Peeked(c)
        d == IF isFinal THEN SetSender(c, g, "recv", InputLeft(s, n)) ELSE SetPeeked(c, InputLeft(s, n))
    IN  SendBuffer(CheckIdle(d, g), g, SendHeld(s, n), InputLeft(s, n), isFinal)
\* on_shortcut_notify: data too long is cut, the last input is stolen
Steal(c, g) == [SetPeeked(SetSender(c, g, "recv", Peeked(c)), 0) EXCEPT !.http.shortcut = 0]
NotifyCut(c, g, isFinal) == IF CanFlush(c, g) THEN HttpFlush(c, g, isFinal) ELSE c
ShortcutNotify(c, g) ==
    LET s == Sender(c, g)
        d == IF s.left # Unlimited /\ s.left < Peeked(c) THEN SetPeeked(c, s.left) ELSE c
    IN  IF c.http.client = "none" THEN NotifyCut(Steal(d, g), g, TRUE) ELSE NotifyCut(d, g, FALSE)
HttpStart(c, g) == StartIfIdle(ShortcutNotify(c, g), g)
\* do_sender_proceed of http_request.c
HttpProceed(c, g) ==
    IF c.http.shortcut = g THEN NotifyCut(Asserted(Consume(c, g), c.http.client # "none", "!is_final"), g, FALSE)
    ELSE NotifyCut(Consume(c, g), g, TRUE)
\* h2o_mruby_http_sender_create
HttpRespond(c, g) ==
    IF c.http.consumed THEN HandleException(c, g)
    ELSE HttpStart(StartResponse(NewSender([Asserted(c, c.http.shortcut = 0, "ctx->shortcut") EXCEPT !.http.consumed = TRUE, !.http.shortcut = g], g, "http", TRUE), g), g)

\* detach_receiver and h2o_mruby_run_fiber
Wake(c) == RunFiber([c EXCEPT !.http.recv = None], c.http.recv, Loop)
\* post_response: to the fiber in #join, or kept for it
PostResponse(c) ==
    LET d == [Asserted(c, c.http.input = "none", "refs.input_stream") EXCEPT !.http.input = "live", !.http.resp = TRUE]
    IN  IF c.http.recv = None THEN Asserted(d, c.http.request = "live", "_set_response") ELSE Wake(d)
PostError(c) == PostResponse([c EXCEPT !.http.client = "none", !.http.after = @ + 1, !.http.got = @ + 1, !.http.has = TRUE])
\* build_chunk: everything there is
BuildChunk(c) ==
    IF c.http.client # "none" THEN [Asserted(c, c.http.buf # 0, "buf->size") EXCEPT !.http.buf = 0, !.http.has = FALSE]
    ELSE [c EXCEPT !.http.after = 0]
\* do_on_body
BodyArrived(c, n, end) ==
    IF end THEN [c EXCEPT !.http.after = c.http.buf + n, !.http.buf = 0, !.http.got = @ + n, !.http.client = "none", !.http.has = TRUE]
    ELSE [c EXCEPT !.http.buf = @ + n, !.http.got = @ + n, !.http.has = @ \/ c.http.buf + n # 0]
DoOnBody(c) ==
    CASE ~c.http.has -> c
      [] c.http.shortcut # 0 -> ShortcutNotify(c, c.http.shortcut)
      [] c.http.recv # None -> Wake(BuildChunk(c))
      [] OTHER -> c
\* http_fetch_chunk_callback: `first` is the first call of #each
FetchChunk(c, f, first) ==
    CASE first /\ c.http.consumed -> c
      [] c.http.has -> BuildChunk([c EXCEPT !.http.consumed = TRUE])
      [] OTHER -> WaitYield([Asserted(c, c.http.recv = None, "receiver") EXCEPT !.http.consumed = TRUE, !.http.recv = f], f)

-----------------------------------------------------------------------------
(* H2O.next and H2O.reprocess: subrequests.                                *)

NoSub == [st |-> "none", state |-> "initial", recv |-> None, buf |-> 0, direct |-> FALSE, response |-> 0, body |-> 0,
          chain |-> FALSE, request |-> "none", input |-> "none", resp |-> FALSE, up |-> "none", deferred |-> FALSE,
          got |-> 0, sends |-> 0, held |-> {}]
\* dispose_subreq
DisposeSubreq(c) ==
    [Asserted(c, c.sub.response = 0 /\ c.sub.body = 0, "shortcut") EXCEPT !.sub.st = "freed", !.sub.up = "none", !.sub.deferred = FALSE]
SubFlush(c, g) ==
    LET s == Sender(c, g)
        n == c.sub.buf
    IN  SendBuffer([CheckIdle(c, g) EXCEPT !.sub.buf = InputLeft(s, n)], g, SendHeld(s, n), InputLeft(s, n), c.sub.state = "final")
\* do_sender_start of middleware.c
SubStart(c, g) ==
    IF c.sub.buf = 0 /\ c.sub.state # "final" THEN SendVec(PrepareEmpty(c, g), g, 0, "more") ELSE SubFlush(c, g)
\* create_sender: the subrequest answers this request from now on
CreateSubSender(c, g, body) == NewSender([c EXCEPT !.sub.body = g], g, "sub", body)
SubRespond(c, g, body) == SubStart(StartResponse(CreateSubSender(c, g, body), g), g)
\* send_response_shortcutted and send_response_callback
SendShortcutted(c, g) == SubRespond(Asserted(c, IsOpen(c, g), "generator used after free"), g, FALSE)
RequestRespond(c, g) ==
    LET d == [c EXCEPT !.sub.response = g] IN IF c.sub.state = "initial" THEN d ELSE SendShortcutted(d, g)

WakeSub(c) == RunFiber([c EXCEPT !.sub.recv = None], c.sub.recv, Loop)
\* subreq_ostream_send, when a sender takes the body
SendThrough(c, g, n, state) ==
    CASE Sender(c, g).final -> c
      [] c.sub.direct -> DoSend([c EXCEPT !.sub.chain = TRUE], g, n, state)
      [] OTHER -> [c EXCEPT !.sub.chain = TRUE, !.sub.buf = @ + n]
\* ... and when it is kept for the fiber
Kept(c, n, state) ==
    [c EXCEPT !.sub.buf = @ + n, !.sub.state = IF state = "more" THEN "received" ELSE "final", !.sub.deferred = @ \/ state = "more"]
TellFiber(c, first) ==
    CASE c.sub.response # 0 -> SendShortcutted(c, c.sub.response)
      [] c.sub.recv = None -> c
      [] first -> WakeSub(c)
      [] c.sub.buf # 0 -> WakeSub([c EXCEPT !.sub.buf = 0])
      [] c.sub.state = "final" -> WakeSub(c)
      [] OTHER -> c
OstreamSend(c, n, state) ==
    IF c.sub.body # 0 THEN SendThrough(c, c.sub.body, n, state) ELSE TellFiber(Kept(c, n, state), c.sub.state = "initial")
\* h2o_proceed_response of the subrequest: an ended one sends its end again
SubProceed(c) == IF c.sub.up = "ended" THEN OstreamSend(c, 0, "final") ELSE [c EXCEPT !.sub.up = "ready"]
\* do_sender_proceed of middleware.c
StartDirect(c) == IF c.sub.chain THEN SubProceed([c EXCEPT !.sub.direct = TRUE]) ELSE [c EXCEPT !.sub.direct = TRUE]
MiddlewareProceed(c, g) ==
    CASE Sender(c, g).final -> c
      [] ~c.sub.direct /\ c.sub.buf # 0 -> SubFlush(Consume(c, g), g)
      [] ~c.sub.direct -> StartDirect(Consume(c, g))
      [] OTHER -> StartDirect(c)
\* middleware_wait_chunk_callback
WaitChunk(c, f) ==
    CASE c.sub.st = "freed" -> Yield(SetFib(c, f, "lost"))
      [] c.sub.buf # 0 -> [c EXCEPT !.sub.buf = 0]
      [] c.sub.state = "final" -> c
      [] OTHER -> WaitYield([Asserted(c, c.sub.recv = None, "receiver") EXCEPT !.sub.recv = f], f)
\* AppRequest#join: the response is built when there is one
BuildResponse(c) == [c EXCEPT !.sub.input = "live", !.sub.resp = TRUE]
JoinSub(c, f) ==
    CASE c.sub.resp -> c
      [] c.sub.state # "initial" -> BuildResponse(c)
      [] OTHER -> WaitYield([c EXCEPT !.sub.recv = f], f)

-----------------------------------------------------------------------------
(* The handler.                                                            *)

\* on_generator_dispose and the dispose function of each sender
DisposeSender(c, g) ==
    CASE Sender(c, g).kind = "http" -> CloseBody(IF c.http.shortcut = g THEN [c EXCEPT !.http.shortcut = 0] ELSE c, g)
      [] Sender(c, g).kind = "sub" -> CloseBody(DisposeSubreq([Asserted(c, c.sub.body = g, "shortcut.body") EXCEPT !.sub.body = 0, !.sub.response = 0]), g)
      [] OTHER -> CloseBody(c, g)
DisposeGenerator(c, g) == DisposeSender([c EXCEPT !.gen[g].st = "closed", !.gen[g].wait = FALSE], g)

\* send_response: 399 passes the request to the next handler
Delegate(c, g) == [c EXCEPT !.gen[g].ended = "delegated"]
EachRespond(c, g) == RunFiber(StartResponse(NewSender(c, g, "callback", TRUE), g), Body(g), <<"start", g>>)
SendResponse(c, g, kind) ==
    CASE kind = "fallthru" -> Delegate(c, g)
      [] kind = "array" -> SendVec(StartResponse(c, g), g, Least(1, c.scene.clen), "final")
      [] kind = "each" -> EachRespond(c, g)
      [] kind = "http" -> HttpRespond(c, g)
      [] kind = "app" -> SubRespond(c, g, TRUE)
      [] OTHER -> RequestRespond(c, g)
\* the response of the app leaves the loop; nothing is done for a request that is closed
Respond(c, g, kind) ==
    LET d == Finish(SetFib(c, Main(g), "idle")) IN IF IsOpen(c, g) THEN SendResponse(d, g, kind) ELSE d

\* on_req; the app blocks the request until the handler is configured
OnReq(c, g) == RunFiber([c EXCEPT !.gen[g] = [NoGen EXCEPT !.st = "open"], !.fib[Main(g)].n = 0], Main(g), <<"req", g>>)
BlockRequest(c, g) == Yield([SetFib(c, Main(g), "lost") EXCEPT !.blocked = Append(@, g)])
\* run_blocking_requests_callback: one after the other
RunBlocked(c, i) ==
    IF i > Len(c.blocked) THEN Yield(SetFib([c EXCEPT !.blocked = <<>>], Conf, "lost"))
    ELSE RunFiber([c EXCEPT !.fib[Main(c.blocked[i])].st = "none"], Main(c.blocked[i]), <<"blocking", i>>)
\* the configurator has evaluated the script
Configured(c) == RunBlocked([c EXCEPT !.configured = TRUE], 1)

\* a frame is left: what its caller does next
PopFrame(c) == [c EXCEPT !.frames = Front(@)]
Unwind(c, then) ==
    CASE then[1] = "start" -> IF IsOpen(c, then[2]) /\ c.gen[then[2]].ended = "no" THEN StartIfIdle(c, then[2]) ELSE c
      [] then[1] = "blocking" -> RunBlocked(c, then[2] + 1)
      [] OTHER -> c

\* a request the main or the body fiber works for
GenOf(f) == f[2]
\* raise: rescued by the runner, by the body fiber or by the task
RaiseIn(c, f) ==
    CASE f[1] = "main" -> Yield(HandleException(SetFib(c, f, "idle"), GenOf(f)))
      [] f[1] = "body" -> Finish(SetFib(IF MaySend(c, GenOf(f)) THEN HandleError(c, GenOf(f)) ELSE c, f, "done"))
      [] OTHER -> Yield(SetFib(c, f, "done"))
\* channel_notify_method and wait_callback
Push(c) ==
    IF c.chan.receivers = <<>> THEN [c EXCEPT !.chan.queue = @ + 1]
    ELSE RunFiber([c EXCEPT !.chan.receivers = Tail(@)], Head(c.chan.receivers), <<"push", 0>>)
Shift(c, f) ==
    IF c.chan.queue > 0 THEN [c EXCEPT !.chan.queue = @ - 1]
    ELSE WaitYield([c EXCEPT !.chan.receivers = Append(@, f)], f)
\* run_child_fiber_callback: the child runs at once, its parent after it has yielded
RunChild(c, f) == SetFib(SetRunning([SetFib(c, f, "wait") EXCEPT !.resumers = Append(@, f), !.fib[Task].n = 0], Task), Task, "run")
Sleep(c, f) == WaitYield([c EXCEPT !.sleepers = @ \cup {f}], f)
\* http_request_method, HttpRequest#join
HttpRequest(c, f) == [c EXCEPT !.http = [NoHttp EXCEPT !.st = "alive", !.client = "connect", !.request = "live", !.held = {f}]]
JoinHttp(c, f) ==
    IF c.http.resp THEN c ELSE WaitYield([Asserted(c, c.http.recv = None, "receiver") EXCEPT !.http.recv = f], f)
\* middleware_request_method and create_subreq
AppRequest(c, f) == [c EXCEPT !.sub = [NoSub EXCEPT !.st = "alive", !.up = "deferred", !.request = "live", !.held = {f}]]

-----------------------------------------------------------------------------
(* What a running fiber may do.                                            *)

Count(c, f) == [c EXCEPT !.fib[f].n = @ + 1]
Hold(c, f) == [c EXCEPT !.http.held = @ \cup {f}]
HoldSub(c, f) == [c EXCEPT !.sub.held = @ \cup {f}]
Can(c, op) ==
    CASE op = "http" -> c.http.st = "none"
      [] op \in {"hjoin"} -> c.http.st = "alive" /\ c.http.request = "live"
      [] op \in {"hread", "hagain"} -> c.http.resp /\ c.http.st = "alive" /\ c.http.input = "live"
      [] op = "app" -> c.sub.st = "none"
      [] op = "ajoin" -> c.sub.st = "alive" /\ c.sub.request = "live"
      [] op = "aread" -> c.sub.resp
      [] op = "task" -> c.fib[Task].st = "none"
      [] OTHER -> TRUE
Do(c, f, op) ==
    CASE op = "sleep" -> Sleep(c, f)
      [] op = "task" -> RunChild(c, f)
      [] op = "push" -> Push(c)
      [] op = "shift" -> Shift(c, f)
      [] op = "http" -> HttpRequest(c, f)
      [] op = "hjoin" -> JoinHttp(Hold(c, f), f)
      [] op = "hread" -> FetchChunk(Hold(c, f), f, TRUE)
      [] op = "hagain" -> FetchChunk(Hold(c, f), f, FALSE)
      [] op = "app" -> AppRequest(c, f)
      [] op = "ajoin" -> JoinSub(HoldSub(c, f), f)
      [] OTHER -> WaitChunk(HoldSub(c, f), f)
Operate == \E op \in mr.scene.ops : LET f == Running(mr) IN
    /\ f \notin {None, Conf} /\ (f[1] = "main" => mr.configured) /\ mr.fib[f].n < MaxOps /\ Can(mr, op)
    /\ op = "hagain" => mr.http.consumed
    /\ mr' = Do(Count(mr, f), f, op)
Answer == \E g \in Gens, kind \in mr.scene.resp \ {"raise"} :
    /\ Running(mr) = Main(g) /\ mr.configured
    /\ kind = "http" => mr.http.resp /\ mr.http.st = "alive" /\ mr.http.input = "live"
    /\ kind = "app" => mr.sub.resp /\ mr.sub.st = "alive" /\ mr.sub.input = "live" /\ mr.sub.body = 0
    /\ kind = "appreq" => mr.sub.st = "alive" /\ mr.sub.request = "live" /\ mr.sub.body = 0 /\ mr.sub.response = 0
    /\ mr' = Respond(mr, g, kind)
Raise == LET f == Running(mr) IN "raise" \in mr.scene.resp /\ f \notin {None, Conf} /\ (f[1] = "main" => mr.configured) /\ mr' = RaiseIn(mr, f)
Blocked == \E g \in Gens : Running(mr) = Main(g) /\ ~mr.configured /\ mr' = BlockRequest(mr, g)
\* a body fiber: a chunk, or the end; both raise when the request is gone
Chunk == LET f == Running(mr) IN
    /\ f[1] = "body" /\ mr.fib[f].n < MaxOps
    /\ mr' = IF MaySend(mr, GenOf(f)) THEN SendChunk(Count(mr, f), GenOf(f)) ELSE RaiseIn(mr, f)
Eos == LET f == Running(mr) IN
    /\ f[1] = "body"
    /\ mr' = IF MaySend(mr, GenOf(f)) THEN Yield(SetFib(SendChunkEos(mr, GenOf(f)), f, "lost")) ELSE RaiseIn(mr, f)
TaskEnds == Running(mr) = Task /\ mr' = Yield(SetFib(mr, Task, "done"))
Evaluated == Running(mr) = Conf /\ mr' = Configured(mr)
Return == mr.frames # <<>> /\ Running(mr) = None /\ mr' = Unwind(PopFrame(mr), Last(mr.frames).then)
FiberStep == Operate \/ Answer \/ Raise \/ Blocked \/ Chunk \/ Eos \/ TaskEnds \/ Evaluated \/ Return

-----------------------------------------------------------------------------
(* Events of the loop.                                                     *)

Arrive == \E g \in Gens : mr.gen[g].st = "none" /\ mr.fib[Main(g)].st = "none" /\ mr' = OnReq(mr, g)
\* the connection asks for more, or the request is disposed of
ProceedReq(c, g) ==
    CASE Sender(c, g).kind = "callback" -> CallbackProceed(c, g)
      [] Sender(c, g).kind = "http" -> HttpProceed(c, g)
      [] OTHER -> MiddlewareProceed(c, g)
Proceed == \E g \in Gens : mr.gen[g].wait /\ mr' = ProceedReq([mr EXCEPT !.gen[g].wait = FALSE], g)
Dispose == \E g \in Gens :
    /\ IsOpen(mr, g) /\ (mr.gen[g].ended # "no" \/ mr.scene.aborts)
    /\ mr' = DisposeGenerator(mr, g)
Timeout == \E f \in mr.sleepers : mr' = RunFiber([mr EXCEPT !.sleepers = @ \ {f}], f, Loop)
EvalStarts == ~mr.configured /\ mr.fib[Conf].st = "none" /\ mr' = RunFiber(mr, Conf, Loop)
\* on_connect, on_head and on_body of http_request.c
Connected == \E ok \in BOOLEAN :
    /\ mr.http.client = "connect"
    /\ mr' = IF TryDispose(mr) THEN DisposeContext(mr) ELSE IF ok THEN [mr EXCEPT !.http.client = "head"] ELSE PostError(mr)
OnHead(c, how) ==
    CASE how = "error" -> PostError(c)
      [] how = "eos" -> PostResponse([c EXCEPT !.http.client = "none"])
      [] OTHER -> PostResponse([c EXCEPT !.http.client = "body"])
HeadArrives == \E how \in mr.scene.heads :
    /\ mr.http.client = "head" /\ mr' = IF TryDispose(mr) THEN DisposeContext(mr) ELSE OnHead(mr, how)
OnBody == \E n \in 0..1, end \in BOOLEAN :
    /\ mr.http.client = "body" /\ (n > 0 \/ end) /\ (end \/ mr.http.sends < MaxSends)
    /\ mr' = IF TryDispose(mr) THEN DisposeContext(mr) ELSE DoOnBody(BodyArrived([mr EXCEPT !.http.sends = @ + 1], n, end))
\* the subrequest: it is handed to the next handler, which sends, and is told to go on
Delegated == mr.sub.up = "deferred" /\ mr' = [mr EXCEPT !.sub.up = "ready"]
Upstream == \E n \in 0..2, state \in {"more", "final"} :
    /\ mr.sub.up = "ready" /\ (state = "final" \/ mr.sub.sends < MaxSends) /\ (n > 0 \/ mr.sub.sends = 0 \/ state = "final")
    /\ mr' = OstreamSend([mr EXCEPT !.sub.sends = @ + 1, !.sub.got = @ + n, !.sub.up = IF state = "more" THEN "sent" ELSE "ended"], n, state)
Deferred == mr.sub.deferred /\ mr' = SubProceed([mr EXCEPT !.sub.deferred = FALSE])
\* the garbage collector: unreachable objects die, then their finalizers run
Reaches(f) == mr.fib[f].st \in {"run", "wait"}
MarkHttp == \E r \in {"request", "input"} :
    /\ mr.http[r] = "live" /\ mr.http.st = "alive" /\ \A f \in mr.http.held : ~Reaches(f)
    /\ r = "input" => ~\E g \in Gens : Sender(mr, g).kind = "http" /\ Sender(mr, g).body
    /\ mr' = [mr EXCEPT !.http[r] = "dead"]
SweepHttp == \E r \in {"request", "input"} :
    /\ mr.http[r] = "dead" /\ mr.http.st = "alive"
    /\ LET d == [mr EXCEPT !.http[r] = "swept"]
           other == IF r = "input" THEN "request" ELSE "input"
       IN  mr' = IF mr.http[other] \in {"none", "swept"} THEN DisposeContext(d) ELSE d
\* send_response_callback registers the AppRequest, a sender its body
MarkSub == \E r \in {"request", "input"} :
    /\ mr.sub[r] = "live" /\ mr.sub.st = "alive" /\ \A f \in mr.sub.held : ~Reaches(f)
    /\ r = "request" => mr.sub.response = 0
    /\ r = "input" => ~\E g \in Gens : Sender(mr, g).kind = "sub" /\ Sender(mr, g).body
    /\ mr' = [mr EXCEPT !.sub[r] = "dead"]
SweepSub == \E r \in {"request", "input"} :
    /\ mr.sub[r] = "dead" /\ mr.sub.st = "alive"
    /\ LET d == [mr EXCEPT !.sub[r] = "swept"]
           other == IF r = "input" THEN "request" ELSE "input"
       IN  mr' = IF mr.sub[other] \in {"none", "swept"} THEN DisposeSubreq(d) ELSE d
EventStep ==
    /\ mr.frames = <<>>
    /\ \/ Arrive \/ Proceed \/ Dispose \/ Timeout \/ EvalStarts \/ Connected \/ HeadArrives \/ OnBody
       \/ Delegated \/ Upstream \/ Deferred \/ MarkHttp \/ SweepHttp \/ MarkSub \/ SweepSub

Start(s) ==
    [gen |-> [g \in Gens |-> NoGen], fib |-> [f \in Fibers |-> [st |-> "none", n |-> 0]], frames |-> <<>>, resumers |-> <<>>,
     http |-> NoHttp, sub |-> NoSub, chan |-> [queue |-> 0, receivers |-> <<>>], sleepers |-> {}, blocked |-> <<>>,
     configured |-> s.configured, scene |-> s, failed |-> {}]
Init == \E s \in Scenes : mr = Start(s)
Step == FiberStep \/ EventStep
Next == mr.failed = {} /\ Step

-----------------------------------------------------------------------------
(* Properties.                                                             *)

\* No assertion of the mruby handler fails.
NoAssertionFails == mr.failed = {}

\* a response that is complete for the client holds every byte of its source (a content-length cuts it)
Source(g) == CASE Sender(mr, g).kind = "callback" -> mr.gen[g].src [] Sender(mr, g).kind = "http" -> mr.http.got [] OTHER -> mr.sub.got
\* What was sent of a body is a prefix of what its source gave, and all of it
\* when the end was sent without an error.
BodyIsIntact == \A g \in Gens :
    mr.gen[g].ended = "final" /\ Sender(mr, g).kind # "none" /\ mr.gen[g].st = "open" => mr.gen[g].sent = Least(Source(g), mr.scene.clen)

\* a fiber of a request that is waiting has its resumer in the hands of somebody who will call it
Fiber(f) == mr.fib[f].st
Awaited(f) ==
    \/ f \in mr.sleepers \/ \E i \in DOMAIN mr.chan.receivers : mr.chan.receivers[i] = f
    \/ \E i \in DOMAIN mr.resumers : mr.resumers[i] = f
    \/ mr.http.recv = f /\ mr.http.client # "none"
    \/ mr.sub.recv = f /\ mr.sub.up # "none" /\ (mr.sub.up = "sent" => mr.sub.deferred) /\ mr.sub.up # "ended"
\* an open request is driven by a fiber, by the connection or by its upstream
RequestIsDriven == mr.frames = <<>> => \A g \in Gens : IsOpen(mr, g) /\ mr.gen[g].ended = "no" =>
    CASE mr.gen[g].wait -> TRUE
      [] mr.gen[g].started /\ Sender(mr, g).kind = "callback" -> Awaited(Body(g))
      [] mr.gen[g].started /\ Sender(mr, g).kind = "http" -> mr.http.shortcut = g /\ mr.http.client # "none"
      [] mr.gen[g].started -> mr.sub.body = g /\ (mr.sub.up \in {"deferred", "ready"} \/ mr.sub.deferred)
      [] \E i \in DOMAIN mr.blocked : mr.blocked[i] = g -> ~mr.configured
      [] mr.sub.response = g -> mr.sub.up # "none"
      [] OTHER -> Awaited(Main(g))
\* A fiber that waits is waited for by something that will resume it: a timer,
\* a client, a channel, a task.
FibersAreAwaited == mr.frames = <<>> => \A f \in Fibers : Fiber(f) = "wait" => Awaited(f)
\* no request or subrequest keeps a pointer to a request that is gone
NoDanglingGenerator == \A g \in {mr.http.shortcut, mr.sub.response, mr.sub.body} \ {0} : IsOpen(mr, g)
=============================================================================
