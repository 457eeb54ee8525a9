---------------------------- MODULE RedisClient -----------------------------
(***************************************************************************)
(* lib/common/redis.c, the client of a Redis server, and                   *)
(* lib/handler/mruby/redis.c with embedded/redis.rb, the H2O::Redis class  *)
(* of the mruby handler.  hiredis is external: a context holds the         *)
(* callbacks of the commands sent, runs them with a NULL reply when it is  *)
(* freed, and defers freeing while it runs one.                            *)
(*                                                                         *)
(* Fibers take any operation the scene offers.  The C stack is `stack`:    *)
(* its top is a running fiber, a callback about to return (in_callback) or *)
(* a context that is being processed or freed.                             *)
(***************************************************************************)
EXTENDS Integers, Sequences, FiniteSets, SequencesExt

CONSTANTS Fibers, Channels, Commands,
          MaxContexts, \* bound: connections of one client
          MaxEvents,   \* bound: messages and spontaneous events of a server
          Scenes       \* [ops, timeouts, nil, width]: what fibers call, whether timeouts are set, nil replies, channels per subscribe

VARIABLE rd

Asserted(c, ok, name) == IF ok THEN c ELSE [c EXCEPT !.failed = @ \cup {name}]
Contexts == 1..MaxContexts
NoContext == [st |-> "none", connected |-> FALSE, disconnecting |-> FALSE, freeing |-> FALSE, ev |-> FALSE, errstr |-> "none", err |-> "none",
              data |-> FALSE, replies |-> <<>>, subReplies |-> <<>>, subs |-> [ch \in Channels |-> [cmd |-> 0, pending |-> 0, unsub |-> FALSE]],
              subscribed |-> FALSE, wire |-> <<>>]
NoCommand == [st |-> "none", type |-> "normal", timer |-> FALSE, recv |-> 0, got |-> "none", queue |-> 0, rooted |-> FALSE]

Push(c, frame) == [c EXCEPT !.stack = Append(@, frame)]
Pop(c) == [c EXCEPT !.stack = Front(@)]
RunFiber(c, f) == Push([c EXCEPT !.fib[f] = "run"], [do |-> "fiber", arg |-> f])

-----------------------------------------------------------------------------
(* lib/common/redis.c.                                                     *)

\* close_and_detach_connection
CloseAndDetach(c) ==
    [Asserted(c, c.redis # 0, "client->_redis != NULL") EXCEPT !.state = "closed", !.ctx[c.redis].data = FALSE, !.redis = 0, !.timer = FALSE]
\* redisAsyncFree: at once, or when the running callback has returned
InCallback(c, x) == \E i \in DOMAIN c.stack : c.stack[i].do = "callback" /\ c.stack[i].arg = x
AsyncFree(c, x) ==
    LET d == [c EXCEPT !.ctx[x].freeing = TRUE] IN IF InCallback(c, x) THEN d ELSE Push(d, [do |-> "free", arg |-> x])
\* disconnect
Disconnect(c, errstr) ==
    LET x == c.redis
        d == Asserted(Asserted(c, c.state # "closed", "state != CLOSED"), c.ctx[x].ev, "redis->ev.data is NULL")
    IN  AsyncFree(CloseAndDetach([d EXCEPT !.ctx[x].errstr = errstr]), x)
\* dispose_command
DisposeCommand(c, k) == [Asserted(c, c.cmd[k].st = "live", "command freed twice") EXCEPT !.cmd[k].st = "freed", !.cmd[k].timer = FALSE]
\* handle_reply, after the callback: a subscription lives until it is unsubscribed or disconnected
HandleReply(c, k, reply) ==
    IF c.cmd[k].type = "sub" /\ reply \in {"subscribe", "message"} THEN c ELSE DisposeCommand(c, k)

-----------------------------------------------------------------------------
(* lib/handler/mruby/redis.c and embedded/redis.rb.                        *)

\* pass_reply: to the fiber in #join, or to Command#_on_reply
Wake(c, k) == RunFiber([c EXCEPT !.cmd[k].recv = 0], c.cmd[k].recv)
Endings == {"error", "unsubscribe"}
PassReply(c, k, value) ==
    CASE c.cmd[k].recv # 0 -> Wake([c EXCEPT !.cmd[k].got = value], k)
      [] c.cmd[k].type = "unsub" -> Asserted(c, FALSE, "no-reply command got reply")
      [] c.cmd[k].type = "sub" /\ value \notin Endings -> [c EXCEPT !.cmd[k].queue = @ + 1]
      [] OTHER -> [c EXCEPT !.cmd[k].got = value]
\* on_redis_command: nothing is done without an error and a reply
OnRedisCommand(c, k, reply, errstr) ==
    CASE errstr = "none" /\ reply = "null" -> c
      [] errstr = "none" -> PassReply([c EXCEPT !.cmd[k].rooted = FALSE], k, reply)
      [] OTHER -> PassReply([c EXCEPT !.cmd[k].rooted = FALSE], k, "error")
\* on_command: the reason is the one of disconnect, else the error of hiredis
Reason(c, x) == IF c.ctx[x].ev /\ c.ctx[x].errstr # "none" THEN c.ctx[x].errstr ELSE c.ctx[x].err
RunCallback(c, x, k, reply) ==
    OnRedisCommand(Push(Asserted(c, c.cmd[k].st = "live", "command used after free"), [do |-> "callback", arg |-> x, cmd |-> k, reply |-> reply]),
                   k, reply, Reason(c, x))
\* a reply made without the server
ReplyAtOnce(c, k) == HandleReply(OnRedisCommand(c, k, "null", "connection"), k, "null")

-----------------------------------------------------------------------------
(* hiredis (external).                                                     *)

NoSub == [cmd |-> 0, pending |-> 0, unsub |-> FALSE]
Subs(x) == {ch \in Channels : x.subs[ch].cmd # 0}
\* __redisAsyncFree, one callback at a time; then the socket is closed and on_disconnect told
FreeNext(c, x) ==
    LET h == c.ctx[x]
        d == [c EXCEPT !.ctx[x] = [h EXCEPT !.ev = FALSE, !.st = "freed"]]
    IN  CASE h.replies # <<>> -> RunCallback([c EXCEPT !.ctx[x].replies = Tail(@)], x, Head(h.replies), "null")
          [] h.replies = <<>> /\ h.subReplies # <<>> -> RunCallback([c EXCEPT !.ctx[x].subReplies = Tail(@)], x, Head(h.subReplies), "null")
          [] h.replies = <<>> /\ h.subReplies = <<>> /\ Subs(h) # {} ->
                 LET ch == CHOOSE s \in Subs(h) : TRUE IN RunCallback([c EXCEPT !.ctx[x].subs[ch] = NoSub], x, h.subs[ch].cmd, "null")
          [] OTHER -> Pop(IF h.connected /\ h.data THEN CloseAndDetach(d) ELSE d)
\* __redisAsyncDisconnect after an error: the socket goes first
AsyncDisconnect(c, x, err) ==
    Push([c EXCEPT !.ctx[x].err = err, !.ctx[x].disconnecting = TRUE, !.ctx[x].ev = FALSE], [do |-> "free", arg |-> x])
\* __redisAsyncCommand: FALSE when the command is refused
Accepts(c, x, type) == ~c.ctx[x].disconnecting /\ ~c.ctx[x].freeing /\ (type = "unsub" => c.ctx[x].subscribed)
Subscribe(h, k, chs) ==
    [h EXCEPT !.subscribed = TRUE, !.wire = @ \o [i \in DOMAIN chs |-> <<"subscribe", chs[i]>>],
              !.subs = [ch \in Channels |-> IF ch \in ToSet(chs) THEN [cmd |-> k, pending |-> h.subs[ch].pending + 1, unsub |-> FALSE] ELSE h.subs[ch]]]
Unsubscribe(h, ch) ==
    [h EXCEPT !.wire = Append(@, <<"unsubscribe", ch>>), !.subs[ch].unsub = (h.subs[ch].cmd # 0)]
Enqueue(h, k) ==
    IF h.subscribed THEN [h EXCEPT !.subReplies = Append(@, k), !.wire = Append(@, <<"reply", 0>>)]
    ELSE [h EXCEPT !.replies = Append(@, k), !.wire = Append(@, <<"reply", 0>>)]
Sent(h, k, type, chs) ==
    CASE type = "sub" -> Subscribe(h, k, chs) [] type = "unsub" -> Unsubscribe(h, Head(chs)) [] OTHER -> Enqueue(h, k)
\* __redisGetSubscribeCallback and redisProcessCallbacks
Confirmed(h, ch) == [h EXCEPT !.subs[ch].pending = @ - 1]
Removed(h, ch) == IF h.subs[ch].pending = 0 THEN [h EXCEPT !.subs[ch] = NoSub] ELSE h
Left(h) == IF Subs(h) = {} THEN [h EXCEPT !.subscribed = FALSE, !.replies = h.replies \o h.subReplies, !.subReplies = <<>>] ELSE h
Processing(c, x) == Push(c, [do |-> "process", arg |-> x])
Received(c, x, kind, ch, value) ==
    LET h == c.ctx[x]
        d == [Processing(c, x) EXCEPT !.ctx[x].wire = Tail(@)]
        k == h.subs[ch].cmd
    IN  CASE kind = "reply" /\ h.replies # <<>> -> RunCallback([d EXCEPT !.ctx[x].replies = Tail(@)], x, Head(h.replies), value)
          [] kind = "reply" -> RunCallback([d EXCEPT !.ctx[x].subReplies = Tail(@)], x, Head(h.subReplies), value)
          [] kind = "subscribe" -> RunCallback([d EXCEPT !.ctx[x] = Confirmed(@, ch)], x, k, "subscribe")
          [] k = 0 -> [d EXCEPT !.ctx[x] = Left(@)]
          [] OTHER -> RunCallback([d EXCEPT !.ctx[x] = Left(Removed(@, ch))], x, k, "unsubscribe")

-----------------------------------------------------------------------------
(* Commands.                                                               *)

\* create_command and the context of call_method
HasTimer(c, type) == c.scene.timeouts /\ type # "sub"
CreateCommand(c, k, type) ==
    [c EXCEPT !.cmd[k] = [NoCommand EXCEPT !.st = "live", !.type = type, !.timer = HasTimer(c, type), !.rooted = TRUE]]
\* send_command
SendCommand(c, k, type, chs) ==
    CASE c.state = "closed" -> ReplyAtOnce(c, k)
      [] ~Accepts(c, c.redis, type) -> ReplyAtOnce(c, k)
      [] OTHER -> [c EXCEPT !.ctx[c.redis] = Sent(@, k, type, chs)]
\* h2o_redis_connect: some failures are found at once
NewContext(c) == CHOOSE x \in Contexts : c.ctx[x].st = "none" /\ \A y \in Contexts : c.ctx[y].st = "none" => x <= y
Connecting(c, x) ==
    [c EXCEPT !.redis = x, !.state = "connecting", !.ctx[x] = [NoContext EXCEPT !.st = "live", !.ev = TRUE, !.data = TRUE]]
Connect(c, fails) ==
    LET d == Connecting(c, NewContext(c))
    IN  IF fails THEN Disconnect(d, "connection") ELSE [d EXCEPT !.timer = c.scene.timeouts]
CanConnect(c) == \E x \in Contexts : c.ctx[x].st = "none"
\* Redis#call: connected first if necessary
NewCommand(c) == CHOOSE k \in Commands : c.cmd[k].st = "none" /\ \A j \in Commands : c.cmd[j].st = "none" => k <= j
Call(c, type, chs) == SendCommand(CreateCommand(c, NewCommand(c), type), NewCommand(c), type, chs)

-----------------------------------------------------------------------------
(* What happens.                                                           *)

Top == Last(rd.stack)
Doing(what) == rd.stack # <<>> /\ Top.do = what
\* a tidy program subscribes to a channel once and unsubscribes from what it is subscribed to
Subscribed(ch) == rd.redis # 0 /\ rd.ctx[rd.redis].subs[ch].cmd # 0 /\ ~rd.ctx[rd.redis].subs[ch].unsub
Unknown(ch) == rd.redis # 0 => rd.ctx[rd.redis].subs[ch].cmd = 0
May(type, ch) == "untidy" \in rd.scene.ops \/ IF type = "sub" THEN Unknown(ch) ELSE Subscribed(ch)
Args(type) ==
    CASE type = "sub" -> {s \in UNION {[1..n -> Channels] : n \in 1..rd.scene.width} : IsInjective(s) /\ \A i \in DOMAIN s : May(type, s[i])}
      [] type = "unsub" -> {<<ch>> : ch \in {c \in Channels : May(type, c)}}
      [] OTHER -> {<<>>}
\* a fiber: connects when closed, then calls
FiberConnects == \E fails \in BOOLEAN :
    /\ Doing("fiber") /\ rd.state = "closed" /\ ~rd.tried /\ CanConnect(rd)
    /\ rd' = Connect([rd EXCEPT !.tried = TRUE], fails)
FiberCalls == \E type \in {"normal", "sub", "unsub"} : \E chs \in Args(type) :
    /\ Doing("fiber") /\ type \in rd.scene.ops /\ (rd.state # "closed" \/ rd.tried) /\ \E k \in Commands : rd.cmd[k].st = "none"
    /\ rd' = Call([rd EXCEPT !.tried = FALSE], type, chs)
\* disconnect_method
FiberDisconnects ==
    /\ Doing("fiber") /\ ~rd.tried /\ "disconnect" \in rd.scene.ops /\ rd.state # "closed"
    /\ "untidy" \in rd.scene.ops \/ \A k \in Commands : rd.cmd[k].st # "live"
    /\ rd' = Disconnect(rd, "none")
\* redis_join_reply_callback: a reply that is nil counts as none
FiberJoins == \E k \in Commands :
    /\ Doing("fiber") /\ ~rd.tried /\ rd.cmd[k].st # "none" /\ rd.cmd[k].type # "unsub"
    /\ IF rd.cmd[k].type = "sub" THEN rd.cmd[k].queue = 0 /\ rd.cmd[k].got \notin Endings ELSE rd.cmd[k].got \in {"none", "nil"}
    /\ rd.cmd[k].recv # 0 => "untidy" \in rd.scene.ops
    /\ rd' = Pop([Asserted(rd, rd.cmd[k].recv = 0, "receiver") EXCEPT !.cmd[k].recv = Top.arg, !.fib[Top.arg] = "join"])
FiberTakes == \E k \in Commands :
    Doing("fiber") /\ rd.cmd[k].queue > 0 /\ rd' = [rd EXCEPT !.cmd[k].queue = @ - 1]
\* it sleeps, or ends
FiberRests == Doing("fiber") /\ ~rd.tried /\ rd' = Pop([rd EXCEPT !.fib[Top.arg] = "idle"])
FiberStarts == \E f \in Fibers : rd.stack = <<>> /\ rd.fib[f] = "idle" /\ rd' = RunFiber(rd, f)
\* the callback returns
CallbackReturns == Doing("callback") /\ rd' = HandleReply(Pop(rd), Top.cmd, Top.reply)
FreeGoesOn == Doing("free") /\ rd' = FreeNext(rd, Top.arg)
ProcessGoesOn ==
    Doing("process") /\ rd' = IF rd.ctx[Top.arg].freeing THEN Push(Pop(rd), [do |-> "free", arg |-> Top.arg]) ELSE Pop(rd)

Quiet(x) == rd.stack = <<>> /\ rd.ctx[x].st = "live"
\* on_connect
OnConnect == \E x \in Contexts :
    /\ Quiet(x) /\ ~rd.ctx[x].connected
    /\ rd' = [rd EXCEPT !.ctx[x].connected = TRUE, !.timer = FALSE, !.state = "connected"]
OnConnectFails == \E x \in Contexts :
    /\ Quiet(x) /\ ~rd.ctx[x].connected
    /\ rd' = AsyncDisconnect(CloseAndDetach(rd), x, "connection")
ServerAnswers == \E x \in Contexts, value \in {"ok"} \cup (IF rd.scene.nil THEN {"nil"} ELSE {}) :
    /\ Quiet(x) /\ rd.ctx[x].connected /\ rd.ctx[x].wire # <<>>
    /\ LET r == Head(rd.ctx[x].wire) IN rd' = Received(rd, x, r[1], IF r[1] = "reply" THEN 1 ELSE r[2], value)
Message == \E x \in Contexts : \E ch \in Subs(rd.ctx[x]) :
    /\ Quiet(x) /\ rd.ctx[x].connected /\ rd.ctx[x].subs[ch].pending = 0 /\ rd.events < MaxEvents
    /\ rd' = RunCallback([Processing(rd, x) EXCEPT !.events = @ + 1], x, rd.ctx[x].subs[ch].cmd, "message")
\* the connection is lost, or the answer is not understood
ServerFails == \E x \in Contexts, err \in {"connection", "protocol"} :
    Quiet(x) /\ rd.ctx[x].connected /\ rd.events < MaxEvents /\ rd' = AsyncDisconnect([rd EXCEPT !.events = @ + 1], x, err)
OnConnectTimeout ==
    /\ rd.stack = <<>> /\ rd.timer
    /\ rd' = Disconnect(Asserted([rd EXCEPT !.timer = FALSE], ~rd.ctx[rd.redis].connected, "not connected"), "connect timeout")
OnCommandTimeout == \E k \in Commands :
    /\ rd.stack = <<>> /\ rd.cmd[k].timer
    /\ rd' = IF rd.state = "closed" THEN Asserted(rd, FALSE, "state != CLOSED") ELSE Disconnect([rd EXCEPT !.cmd[k].timer = FALSE], "command timeout")

Start(s) ==
    [state |-> "closed", redis |-> 0, timer |-> FALSE, ctx |-> [x \in Contexts |-> NoContext], cmd |-> [k \in Commands |-> NoCommand],
     fib |-> [f \in Fibers |-> "idle"], stack |-> <<>>, tried |-> FALSE, events |-> 0, scene |-> s, failed |-> {}]
Init == \E s \in Scenes : rd = Start(s)
Step == \/ FiberConnects \/ FiberCalls \/ FiberDisconnects \/ FiberJoins \/ FiberTakes \/ FiberRests \/ FiberStarts \/ CallbackReturns
        \/ FreeGoesOn \/ ProcessGoesOn \/ OnConnect \/ OnConnectFails \/ ServerAnswers \/ Message \/ ServerFails
        \/ OnConnectTimeout \/ OnCommandTimeout
Next == rd.failed = {} /\ Step

-----------------------------------------------------------------------------
(* Properties.                                                             *)

\* No assertion of redis.c fails.
NoAssertionFails == rd.failed = {}

\* where the callback of a command is kept
Pending(k) == \E x \in Contexts : rd.ctx[x].st = "live" /\
    (k \in ToSet(rd.ctx[x].replies) \/ k \in ToSet(rd.ctx[x].subReplies) \/ \E ch \in Channels : rd.ctx[x].subs[ch].cmd = k)
\* a fiber that waits for a reply has a callback that will wake it
WaitersAreServed == rd.stack = <<>> => \A k \in Commands : rd.cmd[k].recv # 0 => Pending(k)
\* a timer is linked only while its command is in flight
TimersArePending == rd.stack = <<>> => \A k \in Commands : rd.cmd[k].timer => Pending(k)
\* the client points to a context of its own, or is closed; nothing else holds a socket
ClientAgrees == rd.stack = <<>> =>
    /\ (rd.state = "closed") = (rd.redis = 0) /\ (rd.timer => rd.state = "connecting")
    /\ \A x \in Contexts : rd.ctx[x].st = "live" => rd.redis = x /\ rd.ctx[x].data
                                                    /\ rd.ctx[x].connected = (rd.state = "connected")
=============================================================================
