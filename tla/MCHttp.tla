------------------------------- MODULE MCHttp -------------------------------
(***************************************************************************)
(* The modules of the protocols and of the request handling, with the     *)
(* values of their constants, put together for TLC.  A behaviour is one of *)
(* the component `part`, whose state is `state`; the components in Parts   *)
(* are explored, in the environments of their ...Scenes.  With Beyond the  *)
(* environments are those in which the code does not do what its comments  *)
(* or documents say.                                                       *)
(***************************************************************************)
EXTENDS Integers, Sequences, FiniteSets, TLC

CONSTANTS Parts, Beyond

VARIABLES part, state

-----------------------------------------------------------------------------
(* HTTP/1: the requests a client sends on a connection, and what else may  *)
(* happen.                                                                 *)
Http1Scenes ==
    LET S(heads, events) == [heads |-> heads, events |-> events]
    IN  { S(<<"get", "two", "get">>, {"stream", "write_error", "timeout"}),
          S(<<"two", "chunked", "get">>, {"trailers"}),
          S(<<"chunked", "get">>, {"stream", "interim"}),
          S(<<"expect", "get_close">>, {"forward", "interim", "stopping"}),
          S(<<"expect_chunked", "one">>, {"forward"}),
          S(<<"expect", "expect_unknown">>, {"timeout", "write_error"}),
          S(<<"zero", "connect">>, {"stream", "interim"}),
          S(<<"websocket">>, {}), S(<<"connect">>, {}), S(<<"one">>, {"no_memory"}) }
        \cup { S(<<"h2c_bad", k>>, {"write_error"}) :
                k \in {"invalid", "te_unknown", "cl_broken", "cl_large", "broken", "crlf", "long", "pri", "h2c"} }

Http1 == INSTANCE H1Server WITH h1 <- state, MaxEntity <- 3, MaxInterim <- 2, Scenes <- Http1Scenes

-----------------------------------------------------------------------------
(* HTTP/2: the streams opened, the kinds of request, the frames a client   *)
(* sends, the answers of the handler, and what else may happen.            *)
Http2Scenes ==
    LET S(streams, kinds, frames, answers, events) ==
            [streams |-> streams, kinds |-> kinds, frames |-> frames, answers |-> answers, events |-> events]
    IN  { S({1}, {"get"}, 3, {"piece", "last", "empty", "abort"}, {"window", "settings", "write_error"}),
          S({1}, {"get", "post"}, 3, {"empty", "refused", "too_early"}, {"rst", "early"}),
          S({1}, {"post", "connect"}, 4, {"last"}, {"priority"}),
          S({1}, {"get", "post", "sized", "connect", "connect_end", "expect_forward", "expect_unknown", "expect_100",
                   "bad_char", "bad_pseudo", "hpack_error"}, 3, {"last"}, {"continuation"}),
          S({1}, {"get"}, 3, {"last"}, {"timeout", "shutdown", "upgrade", "ping", "bad", "goaway"}),
          S({1, 3}, {"get"}, 3, {"last"}, {"rst"}),
          S({1}, {"connect"}, 2, {"last", "error", "empty"}, {"push", "rst"}) }

Http2 == INSTANCE H2Server WITH h2 <- state, Pulls <- {1, 3}, Pushes <- {2}, MaxRequests <- 1, MaxStreaming <- 1,
             MaxPriority <- 1, MaxEntity <- 2, SoftMax <- 2, DosDelay <- TRUE, ShutdownWaits <- TRUE,
             Forwards <- {1, 3}, AtOnce <- {3}, Scenes <- Http2Scenes

Scheduler == INSTANCE H2Scheduler WITH sch <- state, Pulls <- {1, 3}, Pushes <- {2}, Slots <- {10}, Weights <- {1, 2},
                 MaxWeight <- 2, Anchors <- 2, MaxEvents <- 5

-----------------------------------------------------------------------------
(* HTTP/3 and QUIC.  Beyond: a request is reset while another one waits to *)
(* be admitted; two packets are read at once.                              *)
Http3Scenes ==
    LET S(streams, requests, frames, vectors, events) ==
            [streams |-> streams, requests |-> requests, frames |-> frames, vectors |-> vectors, events |-> events]
    IN  IF Beyond THEN {S({1, 2}, {"get", "sized"}, 2, 1, {"reset"})}
        ELSE { S({1, 2}, {"get"}, 1, 1, {"priority", "saturate", "settings"}),
               S({1}, {"get", "sized"}, 2, 1, {"reset", "shutdown"}),
               S({1}, {"get", "sized", "expect_forward"}, 3, 1, {"reset"}),
               S({1}, {"connect_udp", "connect"}, 3, 2, {"settings", "datagram", "reset"}) }

Http3 == INSTANCE H3Server WITH h3 <- state, Levels <- 2, Streams <- {1, 2}, MaxStreaming <- 1, Forwards <- {1},
             ShutdownWaits <- TRUE, Scenes <- Http3Scenes

Control == INSTANCE H3Control WITH ctl <- state, UniStreams <- {1, 2}, MaxUnits <- 2, IsClient <- FALSE, Datagrams <- TRUE

\* Two threads of this process and one of another; one client, whose packets
\* carry IDs that were issued by any of them, or by nobody.
QuicContexts == {<<0, 0>>, <<0, 1>>, <<1, 0>>}

Quic == INSTANCE QuicContext WITH quic <- state, Contexts <- QuicContexts, Clients <- {1}, NumPaths <- 2, MaxConns <- 2,
            BatchSize <- IF Beyond THEN 2 ELSE 1, QueueSize <- 1,
            Claims <- {[k \in {1} |-> <<c, m>>] : c \in QuicContexts, m \in {0, 1}}

-----------------------------------------------------------------------------
(* Header compression.  The value "L" is a long one.                       *)
HpackScenes ==
    LET F(n, v, s) == [name |-> n, value |-> v, secret |-> s]
        S(mode, capacity, lists, settings) == [mode |-> mode, capacity |-> capacity, lists |-> lists, settings |-> settings]
    IN  { S("tables", 4, {<<F("a", "x", FALSE)>>, <<F("a", "y", FALSE)>>, <<F("b", "L", FALSE), F("st", "x", TRUE)>>,
                          <<F("st", "y", FALSE), F("st", "L", FALSE)>>}, {1, 3, 4}),
          S("tables", 6, {<<F("a", "x", FALSE), F("a", "y", FALSE), F("b", "y", FALSE)>>, <<F("b", "x", FALSE)>>,
                          <<F("st", "x", FALSE)>>}, {}) }
        \cup {S(m, 4, {}, {}) : m \in {"encode", "decode", "frames", "fields"}}

\* Integers of up to four digits of two bits, of which three make the largest, header blocks of up to nine units
\* and lists of up to three fields.
HpackInputs ==
    LET Digits == [more : BOOLEAN, digit : 0 .. 3]
        Fields == {":method", ":path", ":status", ":unknown", "regular", "bad char", "connection", "te", "host"}
    IN  [encode |-> [value : 0 .. 63, prefix : {1, 3, 7}],
         decode |-> [digits : UNION {[1 .. n -> Digits] : n \in 0 .. 4}, prefix : {1, 3}],
         frames |-> [size : 0 .. 9, most : 1 .. 4],
         fields |-> [fields : UNION {[1 .. n -> Fields] : n \in 0 .. 3}, request : BOOLEAN]]

HeadersH2 == INSTANCE Hpack WITH hp <- state, StaticNames <- {"st"}, LongValues <- {"L"}, MaxEntries <- 3, FirstRing <- 2,
                 MaxBlocks <- 3, DigitBits <- 2, SafeDigits <- 2, Inputs <- HpackInputs, Scenes <- HpackScenes

\* h2o as the encoder, and h2o as the decoder of a peer that inserts as it likes.
\* Beyond: names of dynamic entries are referred to.
QpackScenes ==
    LET S(mode, size, lists, headers) == [mode |-> mode, size |-> size, maxBlocked |-> 3, lists |-> lists,
                                          headers |-> headers, garbage |-> 0, syncs |-> FALSE]
    IN  IF Beyond THEN {S("h2o", 4, {<<<<"a", "s">>>>, <<<<"a", "L">>>>}, {})}
        ELSE { S("h2o", 4, {<<<<"a", "s">>>>, <<<<"st", "L">>, <<"a", "s">>>>, <<<<"a", "s">>, <<"x", "s">>>>,
                            <<<<"st", "e">>>>}, {}),
               S("peer", 2, {}, {<<"a", "s">>, <<"b", "s">>}) }

HeadersH3 == INSTANCE Qpack WITH qp <- state, Streams <- {1, 2}, LongValues <- {"L"}, StaticNames <- {"st"},
                 StaticHeaders <- {<<"st", "e">>}, Repeated <- {"a", "b", "st"}, MaxInserts <- 3, MaxInflight <- 1,
                 MaxUnread <- 2, Scenes <- QpackScenes

-----------------------------------------------------------------------------
(* Requests and handlers.                                                  *)

\* Error documents that fail themselves, internal redirects in a circle,
\* throttled and reproxied responses of an upstream, early data, and the choice
\* of the host and the path.  Beyond: X-Reproxy-URL is not a URL.
RequestScenes ==
    LET NoPort == 65535
        NoUrl == [host |-> <<>>, port |-> 0, path |-> <<>>]
        U(h, p) == [host |-> h, port |-> NoPort, path |-> p]
        Root == U(<<"a">>, <<"/">>)
        Doc == U(<<"a">>, <<"/", "d">>)
        P(path, handlers, filters, doc) == [path |-> path, handlers |-> handlers, filters |-> filters, errordoc |-> doc]
        H(host, wild, port, strict, paths) == [host |-> host, wild |-> wild, port |-> port, strict |-> strict, paths |-> paths]
        Inline(st) == [does |-> "inline", status |-> st, reproxy |-> NoUrl]
        Decline == [does |-> "decline"]
        Redirect(internal, u) == [does |-> "redirect", internal |-> internal, to |-> u]
        Async(early) == [does |-> "async", early |-> early]
        Answers(st, urls, rates) == [status : {st}, whole : BOOLEAN, reproxy : urls, rate : rates]
        Plain == Answers(200, {NoUrl}, {"none"})
        S(url, hosts, answers, events) == [url |-> url, hosts |-> hosts, answers |-> answers, events |-> events]
        One(paths) == <<H(<<"a">>, FALSE, NoPort, FALSE, paths)>>
        Tree == << P(<<"/", "d", "/">>, <<Inline(200)>>, <<>>, NoUrl),
                   P(<<"/", "d">>, <<Redirect(TRUE, U(<<"b", "a">>, <<"/", "d", "/", "x">>))>>, <<>>, NoUrl),
                   P(<<"/">>, <<Inline(200)>>, <<>>, NoUrl) >>
    IN  IF Beyond
        THEN {S(Root, One(<<P(<<"/">>, <<[does |-> "proxy"]>>, <<"reproxy">>, NoUrl)>>),
                Answers(200, {[NoUrl EXCEPT !.path = <<"?">>]}, {"none"}), {})}
        ELSE { S(Root, One(<<P(<<"/", "d">>, <<h>>, <<"errordoc">>, NoUrl),
                             P(<<"/">>, <<Decline, Inline(404)>>, <<"errordoc">>, Doc)>>), Plain, {"drop"}) :
                 h \in {Inline(200), Inline(404), Redirect(TRUE, Doc), Redirect(FALSE, Root), Async(FALSE),
                        Redirect(TRUE, U(<<"z">>, <<"/">>)), Decline} }
             \cup { S(Root, One(<<P(<<"/", "d">>, <<Inline(200)>>, <<>>, NoUrl),
                                  P(<<"/">>, <<[does |-> "delegate"], [does |-> "proxy"]>>, fs, Doc)>>),
                       Answers(200, {NoUrl, Doc}, {"none", "some"}) \cup Answers(503, {NoUrl}, {"none"}),
                       {"drop", "informational"}) :
                     fs \in {<<"throttle", "reproxy", "errordoc">>, <<"errordoc", "reproxy", "throttle">>} }
             \cup { S(Root, One(<<P(<<"/">>, <<Decline, Async(TRUE)>>, <<>>, NoUrl)>>),
                       Answers(425, {NoUrl}, {"none"}) \cup Plain, {}) }
             \cup { S([host |-> h, port |-> p, path |-> pa],
                       <<H(<<"a">>, TRUE, 80, FALSE, Tree), H(<<"b", "a">>, FALSE, NoPort, s, Tree),
                         H(<<"a">>, TRUE, NoPort, TRUE, Tree), H(<<>>, TRUE, 80, t, <<>>)>>, Plain, {}) :
                     s \in BOOLEAN, t \in BOOLEAN, h \in {<<>>, <<"a">>, <<"b", "a">>, <<"c", "a">>, <<"c">>},
                     p \in {NoPort, 443, 80, 81},
                     pa \in {<<"/">>, <<"/", "d">>, <<"/", "d", "x">>, <<"/", "d", "/">>, <<"/", "x">>} }

Core == INSTANCE RequestCore WITH rq <- state, MaxDelegations <- 2, MaxReprocesses <- 1, MaxSends <- 2,
                Scenes <- RequestScenes

\* Ranges of files of every size around the limits, compressed variants,
\* directories and index files, conditional requests, files that shrink, and
\* files that cannot be opened.  Beyond: a file shrinks during a multipart answer.
FileScenes ==
    LET Get == [method |-> "GET", accept |-> {}, inm |-> 0, ims |-> 0, range |-> <<>>, ifrange |-> <<"none", 0>>,
                dynamic |-> FALSE, specific |-> FALSE, script |-> ""]
        S(disk, flags, targets, inputs) ==
            [disk |-> disk, flags |-> flags, targets |-> targets, inputs |-> inputs, uring |-> FALSE, aborts |-> FALSE,
             truncates |-> FALSE, sizes |-> {}, index |-> <<>>, reqs |-> 2]
        Sized(n) == [kind |-> "file", size |-> n, ino |-> 1]
        Kind(k) == [kind |-> k, size |-> 0, ino |-> 1]
        P(n) == <<n, "">>
        Specs == { <<"from", 0, 1>>, <<"from", 1, 999>>, <<"from", 2, 9>>, <<"from", 3, 1>>, <<"suffix", 2, 0>>,
                   <<"suffix", 20, 0>>, <<"suffix", 0, 0>>, <<"from", 11, 11>>, <<"bad", 0, 0>> }
        Second == [Get EXCEPT !.range = <<<<"from", 1, 1>>>>]
    IN  IF Beyond
        THEN {[S(P("f") :> Sized(3), {}, {"f"}, {[Get EXCEPT !.range = <<<<"from", 0, 0>>, <<"from", 1, 2>>>>]}) EXCEPT
                 !.truncates = TRUE]}
        ELSE { [S(P("f") :> Sized(n), {}, {"f"}, {[Get EXCEPT !.range = r] : r \in {<<s>> : s \in Specs} \cup (Specs \X Specs)})
                  EXCEPT !.reqs = 1] : n \in {3, 9, 10, 11} }
             \cup { [S((P("f") :> Sized(3)) @@ (<<"f", "gz">> :> Sized(2)) @@ (<<"f", "br">> :> Kind("absent")), {"compressed"},
                        {"f"}, {Get, [Get EXCEPT !.accept = {"br", "gzip"}], [Get EXCEPT !.method = "HEAD"]})
                        EXCEPT !.aborts = TRUE, !.sizes = {1}],
                     [S((P("i") :> Kind("dir")) @@ (P("f") :> Kind("absent")), {"listing"}, {"dir", "prefix", "f"},
                        {Get, [Get EXCEPT !.method = "POST"]}) EXCEPT !.sizes = {1}, !.index = <<"f", "i">>],
                     [S(P("f") :> Sized(3), {}, {"f"},
                        {[Get EXCEPT !.inm = 2], [Get EXCEPT !.ims = 1], [Second EXCEPT !.ifrange = <<"etag", 1>>],
                         [Second EXCEPT !.ifrange = <<"date", 1>>], [Get EXCEPT !.method = "POST"],
                         [Get EXCEPT !.dynamic = TRUE], [Get EXCEPT !.specific = TRUE]})
                        EXCEPT !.aborts = TRUE, !.sizes = {2}],
                     [S(P("f") :> Sized(4), {}, {"f"}, {Get}) EXCEPT !.uring = TRUE, !.aborts = TRUE, !.truncates = TRUE,
                        !.sizes = {3}],
                     [S((P("f") :> Kind("busy")) @@ (P("i") :> Kind("denied")) @@ (<<"i", "gz">> :> Kind("absent")), {"gunzip"},
                        {"f", "i", "dir"}, {Get, [Get EXCEPT !.specific = TRUE],
                                            [Get EXCEPT !.script = "f", !.dynamic = TRUE]})
                        EXCEPT !.sizes = {2}, !.index = <<"i", "f">>] }

Files == INSTANCE FileHandler WITH fl <- state, Reqs <- {1, 2}, Refs <- {1, 2, 3, 4, 5}, Names <- {"f", "i"}, Capacity <- 2,
             PullMax <- 2, MaxBuf <- 12, Fixed <- 3, MaxEvents <- 2, Scenes <- FileScenes

\* The header in one record or in two, with and without a content-length; all
\* lengths of parameters and bodies around the size of a record.  Beyond: the
\* header and the body arrive in one record after a part of the header.
FastcgiScenes ==
    LET Out(h, b, l) == [type |-> "out", head |-> h, body |-> b, len |-> l]
        End == [type |-> "end"]
        Other == [type |-> "other"]
        S(params, entity, records, events) ==
            [params |-> params, entity |-> entity, keepalive |-> FALSE, records |-> records, events |-> events]
    IN  IF Beyond THEN {S(<<2>>, 0, {Out("part", 0, 0), Out("whole", 1, 3), Out("none", 2, 0), End}, {})}
        ELSE { S(<<2>>, 0, {Out("whole", b, l), Out("none", 2, 0), End, Other, [type |-> "err"]}, {"closed", "timeout", "drop"}) :
                 b \in {0, 1}, l \in {-1, 2, 3} }
             \cup { S(<<2>>, 0, {Out("part", 0, 0), Out("whole", 0, 3), Out("bad", 0, 0), Out("none", 2, 0),
                                 Out("none", 0, 0), End, Other}, {"refused", "timeout"}) }
             \cup { S(p, e, {Out("none", 0, 0)}, {}) : p \in UNION {[1 .. n -> 1 .. 6] : n \in 1 .. 3}, e \in {0, 1, 3, 7} }

FastCgi == INSTANCE Fastcgi WITH fc <- state, MaxRecord <- 3, MaxReads <- 3, ChunkSize <- 2, Scenes <- FastcgiScenes

\* Addresses of both families, allowed and denied; a destination that is slow,
\* unreachable, or resets.  Beyond: one of several addresses refuses.
ConnectScenes ==
    LET A(f, a) == [fam |-> f, addr |-> a, port |-> 1]
        All == [allow |-> TRUE, fam |-> "any", addr |-> 0, mask |-> 0, port |-> 0]
        Acl == << [allow |-> FALSE, fam |-> "v4", addr |-> 3, mask |-> 1, port |-> 0],
                  [allow |-> TRUE, fam |-> "v6", addr |-> 1, mask |-> 0, port |-> 1],
                  [All EXCEPT !.fam = "v4", !.addr = 1, !.mask = 1] >>
        S(tcp, results, events) == [tcp |-> tcp, streaming |-> TRUE, dgram |-> FALSE, first |-> 1, more |-> 2,
                                    acl |-> <<All>>, results |-> results, events |-> events]
        Two == {<<A("v4", 0), A("v4", 1)>>, <<A("v6", 0)>>}
    IN  IF Beyond THEN {S(TRUE, Two, {"refused"})}
        ELSE { [S(TRUE, {<<>>, <<A("v4", 0), A("v4", 1), A("v4", 2)>>, <<A("v4", 3)>>, <<A("v6", 1)>>,
                         <<A("v6", 0), A("v6", 1)>>}, {"timeout", "unreachable"}) EXCEPT !.acl = Acl, !.more = 0],
               [S(TRUE, {<<>>, <<A("v4", 0)>>}, {"refused", "drop"}) EXCEPT !.more = 0],
               [S(FALSE, Two, {"datagram"}) EXCEPT !.dgram = TRUE, !.more = 0] }
             \cup { [S(TRUE, Two, {"timeout", "reset", "drop"}) EXCEPT !.first = f] : f \in {0, 1} }
             \cup { [S(FALSE, Two, {"timeout", "reset", "unreachable"}) EXCEPT !.dgram = d, !.streaming = s] :
                     d \in BOOLEAN, s \in BOOLEAN }

Connect == INSTANCE ConnectHandler WITH cn <- state, MaxPerFamily <- 2, AddrBits <- 2, MaxReads <- 2, Scenes <- ConnectScenes

\* What a fiber does before it answers, and how it answers.  Beyond: the client
\* goes away while the answer of an AppRequest is passed on.
MrubyScenes ==
    LET S(ops, resp, chunk, clen, configured, aborts) ==
            [ops |-> ops, resp |-> resp, chunk |-> chunk, clen |-> clen, configured |-> configured, aborts |-> aborts,
             heads |-> {"more", "error"}]
        Join == {"http", "hjoin", "hread"}
    IN  IF Beyond THEN {S({"app"}, {"appreq"}, 99, 99, TRUE, TRUE)}
        ELSE { S({"sleep", "task"}, {"each", "array", "raise"}, 1, 99, TRUE, TRUE),
               S({"sleep"}, {"each", "fallthru"}, 1, 2, FALSE, TRUE),
               S(Join, {"http", "array"}, 1, 99, TRUE, TRUE),
               S({"app", "ajoin", "aread"}, {"app", "array"}, 99, 99, TRUE, TRUE),
               S({"task", "push", "shift"}, {"array"}, 1, 99, TRUE, FALSE),
               S({"app"}, {"appreq"}, 99, 99, TRUE, FALSE),
               S(Join \cup {"hagain"}, {"each"}, 99, 1, TRUE, FALSE),
               S({"http", "hjoin"}, {"http"}, 99, 1, TRUE, TRUE) }

Ruby == INSTANCE Mruby WITH mr <- state, Gens <- {1}, MaxOps <- 3, MaxSends <- 2, Unlimited <- 99, Scenes <- MrubyScenes

-----------------------------------------------------------------------------
(* The upstream side.                                                      *)

\* Responses of every framing, with and without the request's body in parts,
\* piped or copied, tunnels, and an upstream that cannot be reached.  Beyond: a
\* piped response and a front end that takes one unit at a time.
ProxyScenes ==
    LET Hd(kind, length, odd) == [kind |-> kind, length |-> length, keep |-> TRUE, odd |-> odd]
        Short == {Hd(k, 1, "no") : k \in {"length", "chunked", "close"}}
        Long == [kind : {"length"}, length : {4}, keep : BOOLEAN, odd : {"no"}]
        Odd == {Hd("length", 1, o) : o \in {"no content", "switching", "two lengths", "no content, two lengths", "redirect",
                                              "bad framing"}}
        S(server, streaming, events, heads) ==
            [server |-> server, streaming |-> streaming, tunnel |-> FALSE, ownExpect |-> FALSE, forwardExpect |-> FALSE,
             head |-> FALSE, zerocopy |-> FALSE, delegated |-> TRUE, entity |-> TRUE, refuse |-> FALSE, chunk |-> 9,
             events |-> events, heads |-> heads]
    IN  IF Beyond THEN {[S("h1", FALSE, {}, Long) EXCEPT !.zerocopy = TRUE, !.chunk = 1]}
        ELSE { S("h1", TRUE, {"connect", "error", "early"}, Odd),
               [S("h2", TRUE, {"early", "error"}, Short) EXCEPT !.chunk = 1],
               [S("h1", FALSE, {"error", "early", "informational"}, Short) EXCEPT !.ownExpect = TRUE],
               [S("h1", FALSE, {"informational"}, Short) EXCEPT !.forwardExpect = TRUE, !.entity = FALSE, !.head = TRUE],
               [S("h2", TRUE, {"error"}, Long) EXCEPT !.zerocopy = TRUE],
               [S("h1", FALSE, {"stop"}, Long) EXCEPT !.zerocopy = TRUE],
               [S("h1", TRUE, {"early"}, Odd \cup Short) EXCEPT !.tunnel = TRUE],
               [S("h1", TRUE, {}, {}) EXCEPT !.refuse = TRUE] }

Proxying == INSTANCE Proxy WITH px <- state, PullMax <- 2, MaxBuffer <- 2, MaxBody <- 4, MaxChunks <- 2, Scenes <- ProxyScenes

\* Two targets, both balancers, connections that are kept or closed, and an
\* upstream that cannot be reached.
PoolScenes ==
    LET S(global, events) == [global |-> global, events |-> events, keeps |-> TRUE, ssl |-> TRUE, named |-> TRUE,
                              balancer |-> "rr", weights |-> <<2, 1>>]
        Least(events) == [S(FALSE, events) EXCEPT !.balancer = "lc", !.named = FALSE, !.ssl = FALSE]
    IN  {S(TRUE, {"busy"}), S(FALSE, {"busy"}), Least({}), [S(FALSE, {}) EXCEPT !.keeps = FALSE], Least({"error"})}

Pool == INSTANCE SocketPool WITH sp <- state, Clients <- {1, 2}, Targets <- {1, 2}, Wrap <- 8, MaxSocks <- 2, Scenes <- PoolScenes

\* One request or two on a connection; bodies sent whole or in parts; windows
\* that are small, closed and changed.  Beyond: the connection is closed with a
\* window that stays closed.
Client2Scenes ==
    LET Hd(k, l) == [kind |-> k, length |-> l]
        Body(whole, streamed) == {[whole |-> whole, streamed |-> streamed]}
        S(bodies, events, heads) == [bodies |-> bodies, requests |-> {1}, events |-> events, heads |-> heads,
                                     windows |-> {2}, own |-> FALSE, head |-> FALSE]
        Empty == {Hd("forbidden", 0)}
    IN  IF Beyond THEN {[S(Body(1, TRUE), {"io", "window"}, {Hd("final", -1)}) EXCEPT !.windows = {0}]}
        ELSE { S(Body(2, FALSE), {"timeout", "null"}, {Hd("final", -1), Hd("103", -1), Hd("invalid", -1)}),
               S(Body(1, TRUE), {"window", "reset"}, {Hd("final", 1)}),
               S(Body(1, TRUE), {"cancel", "io"}, {Hd("final", 0)}),
               [S(Body(2, FALSE), {"continuation", "trailers"}, {Hd("100", -1), Hd("final", 2)}) EXCEPT !.own = TRUE],
               [S(Body(0, FALSE), {"bad", "timeout", "refuse", "ping", "io"}, Empty) EXCEPT !.head = TRUE],
               [S(Body(1, FALSE), {}, Empty) EXCEPT !.requests = {1, 3}],
               [S(Body(0, FALSE), {"goaway"}, Empty) EXCEPT !.requests = {1, 3}],
               [S(Body(1, FALSE), {"window"}, {Hd("final", 1)}) EXCEPT !.windows = {0, 2}] }

Client2 == INSTANCE Http2Client WITH hc <- state, Requests <- {1, 3}, InitialWindow <- 2, ConnWindow <- 4, MaxBuffer <- 2,
               MaxUnits <- 2, MaxFrame <- 1, Scenes <- Client2Scenes

\* Connections that open early, late or not at all, responses whole and broken.
\* Beyond: PUSH_PROMISE and trailers.
Client3Scenes ==
    LET S(streamed, events, pieces) == [requests |-> {1}, streamed |-> streamed, events |-> events, pieces |-> pieces,
                                        refuse |-> FALSE, noStream |-> FALSE, bodyless |-> FALSE]
        Good == {"headers", "data", "unit"}
    IN  IF Beyond THEN {S(TRUE, {"stop", "odd"}, Good)}
        ELSE { [S(FALSE, {"early", "unreachable", "timeout", "close", "cancel", "reset"}, {"headers"}) EXCEPT !.requests = {1, 2}],
               S(FALSE, {"close", "stop", "reset"}, Good \cup {"info", "other"}),
               S(FALSE, {"close"}, Good \cup {"invalid", "part"}),
               S(TRUE, {"cancel", "reset"}, {"headers"}),
               S(TRUE, {"reset"}, Good \cup {"other"}),
               [S(FALSE, {}, Good) EXCEPT !.refuse = TRUE],
               [S(FALSE, {}, Good) EXCEPT !.noStream = TRUE],
               [S(TRUE, {}, Good) EXCEPT !.bodyless = TRUE] }

Client3 == INSTANCE Http3Client WITH h3c <- state, Requests <- {1, 2}, MaxPieces <- 4, MaxChunks <- 2, Scenes <- Client3Scenes

-----------------------------------------------------------------------------
Init ==
    /\ part \in Parts
    /\ \/ part = "http1" /\ Http1!Init
       \/ part = "http2" /\ Http2!Init
       \/ part = "scheduler" /\ Scheduler!Init
       \/ part = "http3" /\ Http3!Init
       \/ part = "control" /\ Control!Init
       \/ part = "quic" /\ Quic!Init
       \/ part = "hpack" /\ HeadersH2!Init
       \/ part = "qpack" /\ HeadersH3!Init
       \/ part = "request" /\ Core!Init
       \/ part = "file" /\ Files!Init
       \/ part = "fastcgi" /\ FastCgi!Init
       \/ part = "connect" /\ Connect!Init
       \/ part = "mruby" /\ Ruby!Init
       \/ part = "proxy" /\ Proxying!Init
       \/ part = "pool" /\ Pool!Init
       \/ part = "client2" /\ Client2!Init
       \/ part = "client3" /\ Client3!Init

Next ==
    \/ part = "http1" /\ Http1!Next /\ UNCHANGED part
    \/ part = "http2" /\ Http2!Next /\ UNCHANGED part
    \/ part = "scheduler" /\ Scheduler!Next /\ UNCHANGED part
    \/ part = "http3" /\ Http3!Next /\ UNCHANGED part
    \/ part = "control" /\ Control!Next /\ UNCHANGED part
    \/ part = "quic" /\ Quic!Next /\ UNCHANGED part
    \/ part = "hpack" /\ HeadersH2!Next /\ UNCHANGED part
    \/ part = "qpack" /\ HeadersH3!Next /\ UNCHANGED part
    \/ part = "request" /\ Core!Next /\ UNCHANGED part
    \/ part = "file" /\ Files!Next /\ UNCHANGED part
    \/ part = "fastcgi" /\ FastCgi!Next /\ UNCHANGED part
    \/ part = "connect" /\ Connect!Next /\ UNCHANGED part
    \/ part = "mruby" /\ Ruby!Next /\ UNCHANGED part
    \/ part = "proxy" /\ Proxying!Next /\ UNCHANGED part
    \/ part = "pool" /\ Pool!Next /\ UNCHANGED part
    \/ part = "client2" /\ Client2!Next /\ UNCHANGED part
    \/ part = "client3" /\ Client3!Next /\ UNCHANGED part

Spec == Init /\ [][Next]_<<part, state>>

-----------------------------------------------------------------------------
(* What is checked.                                                        *)

\* No assertion of the code fails, no memory is used after it was freed, and no
\* list is linked twice, whatever clients, upstreams and handlers do in whatever
\* order; what is known to fail is in the KnownFailures of each module.
NoAssertionFails ==
    /\ part = "http1" => Http1!NoAssertionFails
    /\ part = "http2" => Http2!NoAssertionFails
    /\ part = "scheduler" => Scheduler!NoAssertionFails
    /\ part = "http3" => Http3!NoAssertionFails
    /\ part = "quic" => Quic!NoAssertionFails
    /\ part = "hpack" => HeadersH2!NoAssertionFails
    /\ part = "qpack" => HeadersH3!NoAssertionFails
    /\ part = "request" => Core!NoAssertionFails
    /\ part = "file" => Files!NoAssertionFails
    /\ part = "fastcgi" => FastCgi!NoAssertionFails
    /\ part = "connect" => Connect!NoAssertionFails
    /\ part = "mruby" => Ruby!NoAssertionFails
    /\ part = "proxy" => Proxying!NoAssertionFails
    /\ part = "pool" => Pool!NoAssertionFails
    /\ part = "client2" => Client2!NoAssertionFails
    /\ part = "client3" => Client3!NoAssertionFails

\* A connection that has something to do has something that wakes it up: a read,
\* a write that completes or a timer (h1 `NeverStuck`, h2 do_emit_writereq and
\* timeouts, the output of the HTTP/2 client, requests that wait for a
\* connection of the HTTP/3 client); one that is closing closes.
ConnectionsAreDriven ==
    /\ part = "http1" => Http1!NeverStuck
    /\ part = "http2" => Http2!ConnectionNeverStuck /\ Http2!ClosingCloses
    /\ part = "client2" => Client2!OutputIsScheduled /\ Client2!ClosingCloses
    /\ part = "client3" => Client3!PendingIsWaited

\* A request that is not answered yet is with somebody who will go on: a
\* handler, a filter, a timer, a fiber or a socket (http3/server.c, request.c, reproxy.c,
\* throttle_resp.c, errordoc.c, fastcgi.c, connect.c, mruby.c).
RequestsAreDriven ==
    /\ part = "http3" => Http3!BlockedRequestsRun
    /\ part = "request" => Core!RequestIsDriven
    /\ part = "fastcgi" => FastCgi!ResponseIsDriven
    /\ part = "connect" => Connect!TunnelIsDriven
    /\ part = "mruby" => Ruby!RequestIsDriven /\ Ruby!FibersAreAwaited

\* What waits for the other side is woken when the other side has done its part:
\* header blocks that wait for insertions (qpack.c), streams that wait for a
\* window (http2client.c), bytes of control streams (http3/common.c).
TheBlockedAreWoken ==
    /\ part = "qpack" => HeadersH3!BlockedStreamsWake
    /\ part = "client2" => Client2!WindowReopens
    /\ part = "control" => Control!NothingLeftUnread

\* Counters that limit or schedule work equal what they count: requests in each
\* state and bodies in flight of an HTTP/2 and an HTTP/3 connection, active
\* descendants and queue bitmaps of the two schedulers, leased connections and
\* lists of the socket pool, references of the file cache.
CountsAreExact ==
    /\ part = "http2" => Http2!CountersAreExact
    /\ part = "scheduler" => Scheduler!ActiveCountsAreExact /\ Scheduler!EmptyQueuesAreEmpty
    /\ part = "http3" => Http3!AdmissionCountsMatch /\ Http3!SchedulerIsExact
    /\ part = "pool" => Pool!ListsAgree /\ Pool!CountsAreExactWithoutFaults
    /\ part = "file" => Files!ReferencesAreExact

\* Bytes arrive where they belong: a request is not read as a part of another
\* one (http1.c), bodies pass unaltered and in order through the proxy, the
\* HTTP/2 client, FastCGI records and mruby's chunks, and are complete when they
\* are said to be; ranges of files are the bytes that the header announces.
MessagesAreIntact ==
    /\ part = "http1" => Http1!FramingAgrees
    /\ part = "proxy" => Proxying!ResponseIsIntact
    /\ part = "client2" => Client2!RequestIsIntact
    /\ part = "fastcgi" => FastCgi!RequestIsWellFormed /\ FastCgi!BodyIsIntact /\ FastCgi!CompleteIsNotAnError
    /\ part = "mruby" => Ruby!BodyIsIntact
    /\ part = "file" => Files!ContentLengthIsExact /\ Files!RangesAreRight /\ Files!PartialIsNotEmpty /\ Files!NoEmptyRound

\* Header compression: what the decoder gets is what the encoder was given, and
\* the two dynamic tables are the same after any insertions, evictions and
\* changes of their size; integers are exact up to the limit and refused beyond.
CodecsAgree ==
    /\ part = "hpack" => HeadersH2!RoundTrip /\ HeadersH2!TablesInStep /\ HeadersH2!IntegersAreExact /\ HeadersH2!FramesCarryBlock /\ HeadersH2!FieldsAreChecked
    /\ part = "qpack" => HeadersH3!RoundTrip /\ HeadersH3!TablesAgree /\ HeadersH3!NoFalseAccusation /\ HeadersH3!EncoderIsExact

\* Who holds a pointer to an object is told before the object goes: requests of
\* the two clients when their connection dies, generators and fibers of mruby,
\* both sides of a tunnel.
NothingDangles ==
    /\ part = "client2" => Client2!NoDanglingClient
    /\ part = "client3" => Client3!NoDanglingClient
    /\ part = "mruby" => Ruby!NoDanglingGenerator
    /\ part = "connect" => Connect!BothSidesTold

\* The maps of a QUIC context hold exactly the connections there are; a packet is
\* delivered to its owner, forwarded to the thread or node that owns it a bounded
\* number of times, and never answered with a stateless reset of a live connection.
PacketsFindTheirConnection ==
    /\ part = "quic" => Quic!MapsAreExact /\ Quic!NoResetOfLiveConnection /\ Quic!ForwardingEnds /\ Quic!DeliveredToOwner
        /\ Quic!DeliveredOnOwnPath

\* CONNECT reaches only destinations that the ACL permits, whatever the family and
\* the order of the addresses; a request is served by the host and the path that
\* match it, in a bounded number of redirects, and an error keeps its status; the
\* critical streams of HTTP/3 stay open and begin with SETTINGS.
OnlyWhatIsAllowed ==
    /\ part = "connect" => Connect!OnlyPermittedDestinations
    /\ part = "request" => Core!ServedByItsHost /\ Core!RedirectLoopsEnd /\ Core!ErrorKeepsStatus
    /\ part = "control" => Control!CriticalStreamsStayOpen /\ Control!SettingsComeFirst

\* What comments, documents or the names of timeouts let one expect and the code
\* does not do: each conjunct is violated when its part is explored on its own.
\* No run checks it; the README lists what each conjunct is about.
Expectations ==
    /\ part = "http1" => Http1!RefusedRequestCloses
    /\ part = "http2" => Http2!EndedStreamsClose
    /\ part = "http3" => Http3!FlowsHaveHandler
    /\ part = "connect" => Connect!OpenTunnelIsTimed
    /\ part = "fastcgi" => FastCgi!TruncationIsReported
    /\ part = "proxy" => Proxying!ReturnedAtEnd /\ Proxying!UpstreamIsTimed /\ Proxying!NoClientLeaks
    /\ part = "pool" => Pool!CountsAreExact /\ Pool!PoolIsWatched
    /\ part = "client2" => Client2!WindowsAgree /\ Client2!FirstByteTimerEnds /\ Client2!EndedStreamsClose /\ Client2!UpstreamIsTimed
    /\ part = "client3" => Client3!NoClientLeaks
=============================================================================
