----------------------------- MODULE MCPlatform -----------------------------
(***************************************************************************)
(* The modules below the protocols (event loop, timers, memory, caches,    *)
(* threads, TLS) and around them (configuration, processes, status), with  *)
(* the values of their constants, put together for TLC.  A behaviour is    *)
(* one of the component `part`, whose state is `state`; the components in  *)
(* Parts are explored, in the environments of their ...Scenes.  With       *)
(* Beyond the environments are those in which the code does not do what    *)
(* its comments or documents say.                                          *)
(***************************************************************************)
EXTENDS Integers, Sequences, FiniteSets, TLC

CONSTANTS Parts, Beyond

VARIABLES part, state

-----------------------------------------------------------------------------
(* The event loop, its timers and its memory.                              *)

\* A socket that is written to, read from, closed, exported and connected again,
\* without TLS, with TLS in the process or in the kernel, with zero copy.
\* Beyond: the connection is reset while TLS has bytes left to send.
LoopScenes ==
    LET S(ops, env, writes) ==
            [tls |-> "no", zerocopy |-> FALSE, room |-> 1, reads |-> TRUE, ops |-> ops, env |-> env, writes |-> {writes},
             calls |-> 2, timers |-> FALSE, sends |-> TRUE, ktls |-> "user", rooms |-> {1, 3}]
    IN  IF Beyond
        THEN {[S({"write"}, {"data", "reset"}, <<2>>) EXCEPT !.tls = "user", !.calls = 1]}
        ELSE { [S({"write", "sendvec", "close", "notify"}, {"data", "reset", "eof"}, <<2, 0, 1>>) EXCEPT
                  !.rooms = {3}, !.sends = b] : b \in BOOLEAN }
             \cup { [S({"start", "stop", "connect", "close"}, {"data", "reset"}, <<1>>) EXCEPT !.room = 3],
                    [S({"connect", "write", "export"}, {"data"}, <<1>>) EXCEPT !.rooms = {3}],
                    [S({"write", "close"}, {}, <<3>>) EXCEPT !.tls = "user", !.zerocopy = TRUE, !.reads = FALSE,
                       !.timers = TRUE, !.rooms = {2}] }
             \cup { [S({"write", "sendvec", "close", "latency"}, {"data", "fatal"}, <<2, 3>>) EXCEPT
                       !.tls = "user", !.room = r] : r \in {0, 1, 3} }
             \cup { [S({"write", "sendvec", "close", "export"}, {"data"}, <<2>>) EXCEPT
                       !.tls = "tbd", !.room = 3, !.ktls = k, !.sends = b, !.calls = 3] :
                    k \in {"kernel", "user"}, b \in BOOLEAN }

Loop == INSTANCE EventLoop WITH ev <- state, Socks <- {1, 2}, Buffers <- 1 .. 8, MaxRoom <- 3, Capacity <- 2, SmallRecord <- 1,
            Slow <- 2, ZerocopyMin <- 1, MaxWrite <- 3, Wrap <- 8, Scenes <- LoopScenes

\* Three wheels of two slots, two timers, and a clock that jumps and is set back.
Wheel == INSTANCE TimerWheel WITH tw <- state, Timers <- {1, 2}, Bits <- 1, NumWheels <- 3, Delays <- {0, 1, 3, 6},
             Advances <- {2, 5}, MaxNow <- 13, MaxLinks <- 2, Scenes <- {[start |-> 5, rewinds |-> TRUE]}

\* Buffers on the heap and in mapped files, and files that cannot be made.
\* Beyond: a mapped buffer of which a part was consumed grows.
BufferScenes ==
    LET S(threshold, fails, lens) == [initial |-> 2, threshold |-> threshold, fails |-> fails, lens |-> lens]
    IN  IF Beyond THEN {S(10, {}, {7, 16})} ELSE {S(0, {}, {1, 3, 6}), S(10, {}, {2, 5}), S(10, {"mktemp"}, {4})}

Memory == INSTANCE Buffers WITH bf <- state, Bufs <- {1}, Header <- 1, MinPower <- 2, MaxPower <- 5, PageSize <- 4,
              MaxBytes <- IF Beyond THEN 30 ELSE 16, Scenes <- BufferScenes

\* Two threads with clocks that differ, a cache of two units, values of one and three.
Caches == INSTANCE Cache WITH ca <- state, Threads <- {1, 2}, Keys <- {1, 2}, Refs <- {1, 2, 3}, Lens <- {1, 3}, Duration <- 1,
              Early <- 1, MaxNow <- 2, Skew <- 1, Scenes <- [capacity : {2}, early : BOOLEAN]

-----------------------------------------------------------------------------
(* Threads and other processes.                                            *)

\* Two requests of a memcached connection, three name lookups on two threads, and
\* a burst of errors.  Beyond: the connection breaks while the requests are made.
ThreadScenes ==
    LET S(ops, breaks, text, errors) == [ops |-> ops, breaks |-> breaks, text |-> text, errors |-> errors]
    IN  IF Beyond THEN {S({1, 3}, 1, TRUE, 0)}
        ELSE {S({1, 3}, 1, TRUE, 0), S({1, 2}, 0, FALSE, 0), S({4, 5, 6}, 0, FALSE, 0), S({4}, 0, FALSE, 3)}

Workers == INSTANCE Threads WITH th <- state, Gets <- {1, 2}, Sets <- {3}, Names <- {4, 5, 6}, Conns <- {1}, Lookups <- {1, 2},
               Scenes <- ThreadScenes
\* ThreadsProofs supposes no more than this.
ASSUME ThreadConstants == Workers!ConstantsOK

\* Commands, subscriptions, timeouts and disconnections of two fibers.  Beyond: a
\* subscription to two channels.
RedisScenes ==
    LET S(ops, timeouts, width) == [ops |-> ops, timeouts |-> timeouts, nil |-> FALSE, width |-> width]
    IN  IF Beyond THEN {S({"sub"}, FALSE, 2)}
        ELSE {S({"normal"}, TRUE, 1), S({"normal", "sub"}, FALSE, 1), S({"sub", "unsub"}, FALSE, 1),
              S({"normal", "disconnect"}, FALSE, 1)}

Redis == INSTANCE RedisClient WITH rd <- state, Fibers <- {1, 2}, Channels <- {1, 2}, Commands <- {1, 2}, MaxContexts <- 2,
             MaxEvents <- 2, Scenes <- RedisScenes

\* Transactions of every kind with the process that holds the private keys.
\* Beyond: a synchronous one comes while the socket is writing.
KeyScenes ==
    LET S(kinds, half) == [kinds |-> kinds, half |-> half, overlap |-> Beyond]
        Sync == S(<<"sync", "job", "mute", "job">>, FALSE)
    IN  IF Beyond THEN {Sync}
        ELSE {S(<<"job", "job", "fiber", "mute">>, TRUE), S(<<"fiber", "mute", "job", "job">>, FALSE), Sync,
              S(<<"sync", "job", "job", "job">>, TRUE)}

PrivateKeys == INSTANCE AsyncKeys WITH nb <- state, Txs <- {1, 2, 3, 4}, MaxInFlight <- 2, Scenes <- KeyScenes
\* AsyncKeysProofs supposes no more than this.
ASSUME KeyConstants == Beyond \/ PrivateKeys!ConstantsOK

\* Two threads: connections up to the limits, idle ones that are closed, shutdown,
\* and OCSP responses.
ProcessScenes ==
    LET S(tcp, quic, idle, term, ocsp) == [tcp |-> tcp, quic |-> quic, idle |-> idle, term |-> term, ocsp |-> ocsp]
    IN  {S(3, FALSE, FALSE, TRUE, FALSE), S(2, FALSE, TRUE, FALSE, FALSE), S(1, TRUE, FALSE, FALSE, FALSE),
         S(0, FALSE, FALSE, FALSE, TRUE)}

Process == INSTANCE ServerProcess WITH sv <- state, Threads <- {1, 2}, MaxConnections <- 2, MaxQuic <- 1, SoftLimit <- 0,
               Certs <- {1, 2}, OcspCapacity <- 1, MaxFailures <- 1, MaxArrivals <- 3, Scenes <- ProcessScenes

\* ServerProcessProofs supposes no more than this.
ASSUME ProcessConstants == Process!ConstantsOK

\* Two requests for the status of three threads, one of which may go away.
\* Beyond: the request is closed while threads report.
StatusScenes ==
    LET S(show, live, origin) == [show |-> show, live |-> live, stat |-> <<1, 10, 100>>, logger |-> FALSE, origin |-> origin,
                                  closes |-> Beyond, disposes |-> {}]
        Sums == S({"durations", "ssl", "memory"}, <<0, 0, 0>>, <<1, 2>>)
    IN  IF Beyond THEN {Sums}
        ELSE {S({"requests", "events"}, <<1, 0, 2>>, <<1, 1>>), Sums, [Sums EXCEPT !.disposes = {3}]}

Status == INSTANCE StatusHandler WITH st <- state, Threads <- {1, 2, 3}, Cols <- {1, 2}, Scenes <- StatusScenes

-----------------------------------------------------------------------------
(* TLS.                                                                    *)

\* Handshakes of both stacks and versions in one or several segments, with session
\* stores, the PROXY protocol and failures; and those of clients.  Beyond: a part
\* of the ClientHello comes with the PROXY line.
AcceptScenes ==
    LET Hello == <<<<"h1">>, <<"h2">>, <<"fin">>>>
        Whole == <<<<"h1", "h2">>, <<"fin">>>>
        S(store, segments, answers) ==
            [role : {"server"}, picotls : BOOLEAN, version : {12, 13}, store : store, proxy : {FALSE}, switch : {TRUE},
             fails : {TRUE}, answers : {answers}, segments : segments]
    IN  IF Beyond
        THEN {[x EXCEPT !.proxy = TRUE, !.fails = FALSE] : x \in S({"none"}, {<<<<"px", "h1">>, <<"h2">>, <<"fin">>>>}, {})}
        ELSE UNION
             { {[x EXCEPT !.switch = w] : x \in S({"none", "memcached"}, {Hello, Whole}, {"error", "okout"}), w \in BOOLEAN},
               {[x EXCEPT !.proxy = TRUE] :
                   x \in S({"none"}, {<<<<"p1">>, <<"p2", "h1", "h2">>, <<"fin">>>>, <<<<"px">>, <<"h1">>, <<"h2">>, <<"fin">>>>,
                                      Whole}, {})},
               {[x EXCEPT !.role = "client", !.picotls = TRUE] : x \in S({"none"}, {<<<<"sh">>, <<"sfin">>>>}, {"error", "mute"})},
               {[x EXCEPT !.fails = FALSE] : x \in S({"none", "memcached"}, {Hello}, {"async"})},
               S({"redis"}, {Hello, Whole}, {"async", "error"}) }

Accept == INSTANCE TlsAccept WITH ac <- state, Scenes <- AcceptScenes

\* One server with keys of its own, two that share them by memcached, and one that
\* reads a file which changes.
TicketScenes ==
    LET S(store, files, quic, servers) ==
            [settings |-> [mode |-> "all", cache |-> "internal", ticket |-> store, memcached |-> store = "memcached",
                           redis |-> FALSE, filename |-> TRUE],
             files |-> files, fails |-> FALSE, twice |-> FALSE, quic |-> quic, servers |-> servers]
        Key(id, name, from) == [id |-> id, name |-> name, nb |-> from, na |-> from + 5]
    IN  { S("internal", <<>>, TRUE, {1}), S("memcached", <<>>, FALSE, {1, 2}),
          S("file", <<<<Key(1, 0, 0)>>, <<Key(1, 0, 0), Key(2, 1, 2)>>, <<Key(3, 2, 4), Key(2, 1, 2)>>>>, TRUE, {1}) }

Tickets == INSTANCE SessionTickets WITH tk <- state, Servers <- {1, 2}, NameSpace <- 4, Draws <- {3}, Lifetime <- 6, Grace <- 1,
               Period <- 1, MaxClock <- 5, MaxIssued <- 1, Scenes <- TicketScenes

-----------------------------------------------------------------------------
(* Configuration: what may be written at each level.  Beyond: headers are  *)
(* set at the global level and in two paths; cross-origin push in a path.  *)
ConfigurationScenes ==
    LET K(n, t, v) == [name |-> n, type |-> t, ok |-> TRUE, val |-> v]
        C(n, v) == K(n, "scalar", v)
        M(n, v) == K(n, "mapping", v)
        Q(n, v) == K(n, "sequence", v)
        S(global, host, path, paths, most) ==
            [menu |-> [global |-> global \cup {M("hosts", 0)}, host |-> host \cup {M("paths", 0)}, path |-> path, ext |-> {}],
             hosts |-> {"a"}, paths |-> paths, most |-> most]
        One(global, host, path) == S(global, host, path, {<<1, 1>>}, 1)
        Two(global, path) == S(global, {}, path, {<<1, 1>>, <<2, 1>>}, 2)
        Headers == Two({C("header", "x")}, {C("header", "y"), C("redirect", "r")})
        Dir == C("file_dir", "d")
        Php == M("addtypes", <<"php", "t1">>)
    IN  IF Beyond THEN {Headers, One({}, {}, {C("cross_push", TRUE)})}
        ELSE { S({C("expires", 1)}, {C("expires", 2)}, {C("expires", 0), Dir}, {<<1, 1>>, <<2, 1>>, <<1, 2>>}, 2),
               One({M("setenv", <<"v", 1>>)}, {M("setenv", <<"v", 2>>), C("unsetenv", "v")},
                   {C("unsetenv", "v"), M("setenv", <<"w", 3>>), C("mruby", "m")}),
               [One({Php, M("custom_handler", 0)}, {C("setdefaulttype", "t2")}, {Q("removetypes", "php"), Dir}) EXCEPT
                   !.menu.ext = {C("fastcgi_connect", "f"), C("fastcgi_io", 5)}],
               One({C("proxy_io", 5), C("proxy_keepalive", 0)}, {C("proxy_protocol", TRUE), C("proxy_header", "h")},
                   {C("proxy_url", "u"), C("proxy_conn", 7)}),
               One({C("access_log", "l1"), M("error_doc", "d1"), C("reproxy", TRUE)}, {C("gzip", {"gz"})},
                   {C("compress", {}), C("access_log", "l2"), C("reproxy", FALSE)}),
               One({C("server_name", "n"), C("send_server", "OFF")}, {C("strict_match", TRUE), C("throttle", TRUE)},
                   {C("server_timing", TRUE), C("status", TRUE), C("push_preload", FALSE)}),
               One({C("verify_peer", "none"), C("http2_ratio", 60)}, {C("casper", TRUE)},
                   {C("http3_ratio", 60), C("proxy_url", "u"), C("header", "y")}),
               One({[C("http2_window", 0) EXCEPT !.ok = FALSE], C("limit_body", 1)},
                   {M("settypes", <<"txt", "t3">>), C("send_compressed", "ON")}, {Php, Dir}),
               [One({C("header", "x")}, {C("reproxy", TRUE)}, {}) EXCEPT !.hosts = {"a", "b"}],
               Headers,
               Two({Php}, {M("addtypes", <<"php", "t2">>), Q("removetypes", "php")}),
               One({Q("file_index", "x")}, {}, {Dir, Q("file_index", "y"), C("file_etag", FALSE), C("send_compressed", "gunzip")}) }

Config == INSTANCE Configuration WITH cf <- state, Exts <- {"php", "txt"}, Names <- {"v", "w"}, MaxCommands <- 2,
              Scenes <- ConfigurationScenes

-----------------------------------------------------------------------------
(* The start: a global level and two hosts (the first may be a wildcard    *)
(* that covers the second) with commands for shared and for own addresses, *)
(* with every kind of identity, in each mode.  Beyond: the wildcard covers *)
(* the second host; a host without TLS 1.3 shares an address.              *)
ListenerScenes ==
    LET A(f, n) == [fam |-> f, name |-> n]
        K(n) == [addr |-> A("inet", n), quic |-> FALSE]
        Tcp(n, ssl) == [type |-> "tcp", addrs |-> <<A("inet", n)>>, ssl |-> ssl, proxy |-> FALSE, cc |-> "none", ok |-> TRUE]
        Quic(ssl) == [Tcp("a", ssl) EXCEPT !.type = "quic", !.addrs = <<A("inet6", "a"), A("inet", "a")>>, !.cc = "c"]
        Unix == [Tcp("s", <<>>) EXCEPT !.type = "unix", !.addrs = <<A("unix", "s")>>]
        Ssl(ids) == <<[ids |-> ids, max12 |-> FALSE, ech |-> FALSE]>>
        Old(ids) == <<[ids |-> ids, max12 |-> TRUE, ech |-> FALSE]>>
        Ech(ids) == <<[ids |-> ids, max12 |-> FALSE, ech |-> TRUE]>>
        File(kind, sig) == [kind |-> kind, sig |-> sig]
        Files(acme) == [p |-> File("chain", "rsa"), q |-> File("raw", "ecdsa"), n |-> File("nosigner", "rsa"), x |-> File(acme, "rsa"),
                        y |-> File("missing", "rsa"), loading |-> File("chain", "rsa")]
        Global == {<<>>, <<Tcp("a", <<>>)>>, <<Tcp("a", Ssl(<<"p">>))>>, <<Unix, Quic(Ssl(<<"p", "q">>))>>}
        First == {<<>>, <<Tcp("a", <<>>)>>, <<Tcp("a", Ssl(<<"p">>)), Quic(Ssl(<<"p">>))>>, <<Tcp("a", Ssl(<<"p", "q">>))>>,
                  <<Tcp("b", Ssl(<<>>))>>, <<[Tcp("a", <<>>) EXCEPT !.proxy = TRUE]>>, <<Tcp("a", Old(<<"p", "n">>))>>}
        Second == {<<>>, <<Tcp("a", Ssl(<<"p">>))>>, <<Quic(Ssl(<<"q">>)), Tcp("b", Ssl(<<>>))>>, <<[Tcp("b", <<>>) EXCEPT !.ok = FALSE]>>,
                   <<Quic(Ech(<<"p", "q">>))>>, <<Quic(<<>>)>>, <<Tcp("a", Ssl(<<"n">>)), Tcp("a", Ssl(<<"n", "p">>))>>}
        S(mode, global, first, second) ==
            [mode |-> mode, given |-> {}, configs |-> [w \in {1, 2} |-> [h \in 0 .. 2 |-> <<global, first, second>>[h + 1]]],
             files |-> <<Files("missing"), Files("chain")>>, acme |-> <<"x", "y">>, covers |-> {<<1, 1>>, <<2, 2>>},
             busy |-> {}, errlog |-> TRUE, user |-> TRUE, root |-> TRUE]
        All(mode) == {S(mode, g, x, y) : g \in Global, x \in First, y \in Second}
        Plain(mode) == S(mode, <<Tcp("a", Ssl(<<"p">>))>>, <<>>, <<Tcp("b", Ssl(<<"q">>))>>)
    IN  IF Beyond THEN {[S("worker", <<>>, <<Tcp("a", Ssl(<<"p">>))>>, <<Tcp("a", Old(<<"n">>))>>) EXCEPT !.covers = @ \cup {<<1, 2>>}],
                        S("worker", <<>>, <<Tcp("a", Ssl(<<"p">>))>>, <<Tcp("a", Old(<<"n">>))>>)}
        ELSE All("worker")
             \cup {[s EXCEPT !.configs[2] = Plain("master").configs[1]] : s \in All("master")}
             \cup {[Plain("worker") EXCEPT !.given = g, !.covers = @ \cup {<<1, 2>>}] : g \in {{K("a")}, {K("a"), K("b")}, {K("a"), K("b"), K("d")}}}
             \cup {[Plain(mode) EXCEPT !.given = g, !.errlog = mode # "daemon"] : mode \in {"test", "master", "daemon"}, g \in {{}, {K("a")}}}
             \cup {[Plain("worker") EXCEPT !.busy = {K("b")}], [Plain("worker") EXCEPT !.user = FALSE], [Plain("worker") EXCEPT !.root = FALSE],
                   [Plain("worker") EXCEPT !.acme = <<>>, !.configs[1][1] = <<Tcp("b", Ssl(<<>>))>>],
                   [Plain("worker") EXCEPT !.configs[1][0] = <<Tcp("b", Ssl(<<>>))>>]}

Listening == INSTANCE Listeners WITH li <- state, NumHosts <- 2, NumThreads <- 2, Scenes <- ListenerScenes

\* ListenersProofs supposes no more than this.
ASSUME ListenerConstants == Listening!ConstantsOK

-----------------------------------------------------------------------------
Init ==
    /\ part \in Parts
    /\ \/ part = "loop" /\ Loop!Init
       \/ part = "wheel" /\ Wheel!Init
       \/ part = "memory" /\ Memory!Init
       \/ part = "cache" /\ Caches!Init
       \/ part = "threads" /\ Workers!Init
       \/ part = "redis" /\ Redis!Init
       \/ part = "keys" /\ PrivateKeys!Init
       \/ part = "process" /\ Process!Init
       \/ part = "status" /\ Status!Init
       \/ part = "accept" /\ Accept!Init
       \/ part = "tickets" /\ Tickets!Init
       \/ part = "configuration" /\ Config!Init
       \/ part = "listeners" /\ Listening!Init

Next ==
    \/ part = "loop" /\ Loop!Next /\ UNCHANGED part
    \/ part = "wheel" /\ Wheel!Next /\ UNCHANGED part
    \/ part = "memory" /\ Memory!Next /\ UNCHANGED part
    \/ part = "cache" /\ Caches!Next /\ UNCHANGED part
    \/ part = "threads" /\ Workers!Next /\ UNCHANGED part
    \/ part = "redis" /\ Redis!Next /\ UNCHANGED part
    \/ part = "keys" /\ PrivateKeys!Next /\ UNCHANGED part
    \/ part = "process" /\ Process!Next /\ UNCHANGED part
    \/ part = "status" /\ Status!Next /\ UNCHANGED part
    \/ part = "accept" /\ Accept!Next /\ UNCHANGED part
    \/ part = "tickets" /\ Tickets!Next /\ UNCHANGED part
    \/ part = "configuration" /\ Config!Next /\ UNCHANGED part
    \/ part = "listeners" /\ Listening!Next /\ UNCHANGED part

Spec == Init /\ [][Next]_<<part, state>>

\* The threads of memcached.c and hostinfo.c run on, and so does the event loop.
FairSpec == Spec /\ Workers!Fairness

-----------------------------------------------------------------------------
(* What is checked.                                                        *)

\* No assertion of the code fails, no memory is used after it was freed or freed
\* twice, and no index leaves its array, in whatever order threads, events and
\* timers come; what is known to fail is in the KnownFailures of each module.  No
\* ClientHello meets an identity that its TLS library cannot use (main.c).
NoAssertionFails ==
    /\ part = "loop" => Loop!NoAssertionFails
    /\ part = "wheel" => Wheel!NoAssertionFails
    /\ part = "memory" => Memory!NoAssertionFails
    /\ part = "cache" => Caches!NoAssertionFails
    /\ part = "threads" => Workers!NoAssertionFails
    /\ part = "redis" => Redis!NoAssertionFails
    /\ part = "keys" => PrivateKeys!NoAssertionFails
    /\ part = "process" => Process!NoAssertionFails
    /\ part = "status" => Status!NoAssertionFails
    /\ part = "accept" => Accept!NoAssertionFails
    /\ part = "tickets" => Tickets!NoAssertionFails
    /\ part = "listeners" => Listening!IdentitiesAreUsable

\* Whoever waits is woken: a socket with something to do is polled for it or
\* queued (evloop.c.h), a thread that sleeps has no message and no lookup left
\* for it (multithread.c, hostinfo.c), fibers get their replies (redis.c), a
\* transaction waits for an event that is armed (main.c), a thread that stopped
\* accepting starts again (main.c), a handshake goes on (socket.c, util.c).
NoLostWakeup ==
    /\ part = "loop" => Loop!NoLostWakeup /\ Loop!ClosedAreFreed
    /\ part = "threads" => Workers!MessagesAreSeen /\ Workers!LookupsDoNotSleepOnWork
    /\ part = "redis" => Redis!WaitersAreServed /\ Redis!TimersArePending
    /\ part = "keys" => PrivateKeys!WaitsForEvent
    /\ part = "process" => Process!NobodyStaysDeaf /\ Process!LastOneLeaves
    /\ part = "accept" => Accept!HandshakeIsDriven

\* A timer fires when it is due and not before, also when the clock jumps over
\* several wheels or is set back, and the loop never sleeps past the next one
\* (timerwheel.c).
TimersFire ==
    /\ part = "wheel" => Wheel!FiresWhenDue /\ Wheel!WakesInTime /\ Wheel!ValidateHolds

\* Bytes that were written are on the wire once and in order, memory given to the
\* kernel or to TLS is not used again too early (evloop.c.h, socket.c), and a
\* buffer keeps its bytes while it moves, grows, shrinks and is mapped (memory.c).
BytesAreIntact ==
    /\ part = "loop" => Loop!WireIsIntact /\ Loop!BuffersAreKept /\ Loop!WriteErrorIsReported
    /\ part = "memory" => Memory!ReserveIsHonoured /\ Memory!BytesAreIntact /\ Memory!NothingLeaks

\* Counters equal what they count, under every interleaving of the threads:
\* connections of the process and its limits (main.c), references and size of
\* the cache (cache.c), transactions in flight, OCSP updaters, sockets of redis,
\* and the sockets of listeners: one per thread, those inherited all used (main.c).
CountsAreExact ==
    /\ part = "process" => Process!CountsAreExact /\ Process!LimitsHold /\ Process!OcspIsBounded
    /\ part = "cache" => Caches!CountsAreExact /\ Caches!ExpiredAreGone
    /\ part = "keys" => PrivateKeys!InFlightIsBounded
    /\ part = "redis" => Redis!ClientAgrees
    /\ part = "listeners" => Listening!SocketsAreComplete /\ Listening!WorkersFindTheirSockets

\* There always is a key to encrypt tickets with, keys are sorted and distinct,
\* servers that share a store accept each other's tickets, the keys of QUIC's
\* connection IDs follow, and a changed file is loaded (ssl.c).
KeysAreShared ==
    /\ part = "tickets" => Tickets!KeysAreSortedAndDistinct /\ Tickets!CidsFindTheirKey /\ Tickets!AlwaysAKey /\ Tickets!TicketsAreShared /\ Tickets!QuicKeysFollow /\ Tickets!FileIsLoaded

\* A request to another thread or process is answered once, and with its own
\* answer: memcached and name lookups (Threads), the private keys (AsyncKeys), the
\* end of a handshake (TlsAccept), errors that are counted (error_reporter), and
\* the status, to which every thread has contributed before it is sent (status.c).
AnswersAreWhole ==
    /\ part = "threads" => Workers!AnsweredOnce /\ Workers!ErrorsAreReported
    /\ part = "keys" => PrivateKeys!AnswersMatch
    /\ part = "accept" => Accept!ToldOnce
    /\ part = "status" => Status!ReportIsComplete /\ Status!ResponseIsJson /\ Status!CollectorsEnd /\ Status!CollectorOutlivesThreads

\* A path is configured by its own commands, those of its host and the global
\* ones, and by no other's, in whatever order they are written: settings,
\* environment, MIME types and the references that share them (configurator.c
\* and the on_config functions of the handlers).  The `listen` commands that name
\* an address share a listener, which serves and identifies the hosts that asked
\* for it (main.c).
ConfigurationFollowsTheTree ==
    /\ part = "configuration" => Config!SettingsFollowTheTree /\ Config!EnvFollowsTheTree /\ Config!TypesFollowTheTree /\ Config!ReferencesAreExact /\ Config!PathsAreSorted /\ Config!ServerNameIsHidden
    /\ part = "listeners" => Listening!OneListenerPerAddress /\ Listening!CommandsAgree /\ Listening!ServesWhoAsked /\ Listening!SniFindsTheHost /\ Listening!SiblingsAreMutual

\* Every request of a thread gets its answer or an error in the end: memcached.c,
\* "send error to all the reqs in-flight", when a connection breaks.
EveryRequestEnds == Workers!EveryRequestEnds

\* The headers of a path are those of its own commands and of the levels around
\* it: "Path-level configurations only affect the behavior of resources specific
\* to the path." (syntax_and_structure.mt); h2o_headers_append_command.
HeadersFollowTheTree == part = "configuration" => Config!HeadersFollowTheTree

\* What comments, documents or the names of timeouts let one expect and the code
\* does not do: each conjunct is violated when its part is explored on its own.
\* No run checks it; the README lists what each conjunct is about.
Expectations ==
    /\ part = "threads" => Workers!NobodyIsForgotten /\ Workers!WriterIsWoken
    /\ part = "process" => Process!IdleTimeIsGuaranteed
    /\ part = "tickets" => Tickets!CidsUseTheActiveKey /\ Tickets!KeysOutliveSessions
    /\ part = "accept" => Accept!HandshakeIsTimed /\ Accept!ClosedIsDisposed
    /\ part = "configuration" => Config!CrossPushFollows
    /\ part = "listeners" => Listening!ExactNamesComeFirst /\ Listening!HelloFindsAContext
=============================================================================
