----------------------------- MODULE RequestCore -----------------------------
(***************************************************************************)
(* A request between the protocol handlers and the handlers and filters of *)
(* the configuration (lib/core/request.c), with the filters that send a    *)
(* request round again or hold its response back: lib/handler/errordoc.c,  *)
(* redirect.c, reproxy.c, throttle_resp.c and proxy.c.                     *)
(*                                                                         *)
(* The hosts of the scene have paths, and a path a sequence of handlers    *)
(* and one of filters.  `ostr` is the chain from req->_ostr_top down to,   *)
(* and without, the final ostream of the protocol handler; `deferred` are  *)
(* the actions on timers of no delay.  The stage "handlers" stands for the *)
(* loop of call_handlers, in which nothing else happens.                   *)
(***************************************************************************)
EXTENDS Integers, Sequences, FiniteSets, SequencesExt

CONSTANTS
    MaxDelegations,     \* globalconf->max_delegations
    MaxReprocesses,     \* globalconf->max_reprocesses
    MaxSends,           \* bound on the writes of a streaming generator
    Scenes

VARIABLE rq

-----------------------------------------------------------------------------
(* Which configuration serves a request.  A host is a sequence of labels,  *)
(* a path a sequence of characters.                                        *)

EndsWith(s, suffix) == Len(suffix) <= Len(s) /\ SubSeq(s, Len(s) - Len(suffix) + 1, Len(s)) = suffix
StartsWith(s, prefix) == Len(prefix) <= Len(s) /\ SubSeq(s, 1, Len(prefix)) = prefix

NoPort == 65535
DefaultPort == 443
\* a location that is not there, and one that cannot be parsed
NoUrl == [host |-> <<>>, port |-> 0, path |-> <<>>]
BadUrl == [host |-> <<>>, port |-> 0, path |-> <<"?">>]
\* find_hostconf: the first whose port and name fit, or 0
HostMatches(conf, host, port, defaultPort) ==
    /\ conf.port = port \/ (conf.port = NoPort /\ port = defaultPort)
    /\ IF conf.wild THEN Len(conf.host) < Len(host) /\ EndsWith(host, conf.host) ELSE conf.host = host
First(hits) == IF hits = {} THEN 0 ELSE CHOOSE i \in hits : \A j \in hits : i <= j
FindHostconf(hosts, host, port, defaultPort) ==
    First({i \in DOMAIN hosts : HostMatches(hosts[i], host, IF port = NoPort THEN defaultPort ELSE port, defaultPort)})
\* find_default_hostconf; 0 is the fallback host
FindDefaultHostconf(hosts) == First({i \in DOMAIN hosts : ~hosts[i].strict})
\* h2o_req_setup
ReqSetup(hosts, host, port, defaultPort) ==
    LET found == IF host # <<>> /\ Len(hosts) > 1 THEN FindHostconf(hosts, host, port, defaultPort) ELSE 0
    IN  IF found # 0 THEN found ELSE FindDefaultHostconf(hosts)
\* setup_pathconf: the first prefix that ends where a segment of the path ends, or 0 for the fallback
PathMatches(conf, path) ==
    StartsWith(path, conf) /\ (Last(conf) = "/" \/ Len(path) = Len(conf) \/ path[Len(conf) + 1] = "/")
SetupPathconf(paths, path) == First({i \in DOMAIN paths : PathMatches(paths[i].path, path)})

-----------------------------------------------------------------------------
(* State *)

Asserted(c, ok, name) == IF ok THEN c ELSE [c EXCEPT !.failed = @ \cup {name}]
Can(event) == event \in rq.scene.events

\* h2o_init_request
NewRequest(scene) ==
    [scene |-> scene, stage |-> "new", called |-> FALSE, url |-> scene.url, conf |-> <<0, 0>>, override |-> FALSE, handler |-> 0,
     waiting |-> FALSE,
     gen |-> "none", sends |-> 0, ready |-> FALSE, ostr |-> <<>>, filter |-> 1, held |-> "none", deficit |-> FALSE,
     status |-> 0, reproxy |-> NoUrl, rate |-> "none",
     prefilter |-> 0, delegated |-> FALSE, delegations |-> MaxDelegations, reprocesses |-> MaxReprocesses,
     deferred |-> {}, early |-> FALSE, out |-> "open", final |-> 0, first |-> 0, rounds |-> 0, failed |-> {}]

\* the host and the path of a request; 0 is a fallback, which has no handler
Fallback == [handlers |-> <<>>, filters |-> <<>>, errordoc |-> NoUrl]
Conf(c) == IF 0 \in Range(c.conf) THEN Fallback ELSE c.scene.hosts[c.conf[1]].paths[c.conf[2]]
PathOf(c, h) == IF h = 0 THEN 0 ELSE SetupPathconf(c.scene.hosts[h].paths, c.url.path)
Bind(c, h) == [c EXCEPT !.conf = <<h, PathOf(c, h)>>]

\* create_deferred_action, and the timer of h2o_send_error_deferred_502
Defer(c, action) == [c EXCEPT !.deferred = @ \cup {action}]

\* mutant: the ostreams are left in place
CloseGeneratorOnly(c) == [c EXCEPT !.gen = "none", !.ready = FALSE, !.held = "none", !.waiting = FALSE]
\* close_generator_and_filters.  The timer of a throttle goes with its ostream.
CloseGeneratorAndFilters(c) ==
    [c EXCEPT !.gen = "none", !.ready = FALSE, !.ostr = <<>>, !.held = "none", !.waiting = FALSE]
\* reset_response
ResetResponse(c) == [c EXCEPT !.status = 0, !.reproxy = NoUrl, !.rate = "none", !.filter = 1]

-----------------------------------------------------------------------------
(* Sending *)

\* what reaches the final ostream
Emit(c, final) ==
    [Asserted(c, c.out = "open", "do_send of the final ostream") EXCEPT
       !.out = IF final THEN "ended" ELSE "sending", !.final = c.status]

\* h2o_ostream_send_next of a throttle: what may come after it swallows everything
PassOn(c, rest, final) == IF rest = <<>> THEN Emit(c, final) ELSE c

\* throttle_resp.c: real_send, with a deficit or without
ThrottleSend(c, final) ==
    PassOn(IF final THEN [c EXCEPT !.ostr = Tail(@)] ELSE [c EXCEPT !.deficit = TRUE], Tail(c.ostr), final)
ThrottleOrHold(c, final) ==
    IF c.deficit
    THEN [Asserted(Asserted(c, c.held = "none", "throttle timer is linked"), c.rate # "zero", "calc_delay divides by zero")
            EXCEPT !.held = IF final THEN "final" ELSE "part"]
    ELSE ThrottleSend(c, final)

\* do_send of the ostream on top
SendDown(c, final) ==
    IF c.ostr = <<>> THEN Emit(c, final)
    ELSE IF Head(c.ostr) = "throttle" THEN ThrottleOrHold(c, final)
    ELSE c

\* do_sendvec
DoSendvec(c, final) ==
    SendDown([Asserted(c, c.gen # "none", "h2o_send: _generator") EXCEPT !.gen = IF final THEN "none" ELSE @, !.ready = FALSE], final)

\* h2o_send_redirect_internal
SendRedirectInternal(c, url) ==
    IF url = BadUrl THEN Defer(c, [act |-> "error", to |-> c.url, delegated |-> FALSE])
    ELSE Defer(c, [act |-> "reprocess", to |-> url, delegated |-> TRUE])

\* h2o_setup_next_ostream: the filters of the path, from the next one on.  Each adds its
\* ostream, if any, on top of those that come after it; errordoc and reproxy end the chain.
\* errordoc.c: on_filter_setup_ostream
ErrorDocFound(c) == c.status >= 400 /\ c.prefilter = 0 /\ Conf(c).errordoc # NoUrl
ErrorDoc(c) == SendRedirectInternal([c EXCEPT !.prefilter = c.status], Conf(c).errordoc)
\* reproxy.c: on_setup_ostream
Reproxy(c) == SendRedirectInternal([c EXCEPT !.reproxy = NoUrl], c.reproxy)
\* throttle_resp.c: on_setup_ostream
Throttled(c) == c.status = 200 /\ c.rate # "none"

RECURSIVE SetupFilters(_, _)
SetupFilters(c, added) ==
    IF c.filter > Len(Conf(c).filters) THEN [c EXCEPT !.ostr = added \o @]
    ELSE LET f == Conf(c).filters[c.filter]
             n == [c EXCEPT !.filter = @ + 1]
         IN  IF f = "errordoc" /\ ErrorDocFound(n) THEN [ErrorDoc(n) EXCEPT !.ostr = added \o <<"swallow">> \o @]
             ELSE IF f = "reproxy" /\ c.reproxy # NoUrl THEN [Reproxy(n) EXCEPT !.ostr = added \o <<"swallow">> \o @]
             ELSE SetupFilters(n, IF f = "throttle" /\ Throttled(c) THEN Append(added, "throttle") ELSE added)
\* errordoc.c: on_prefilter_setup_stream
ApplyPrefilter(c) == IF c.prefilter # 0 THEN [c EXCEPT !.status = c.prefilter] ELSE c

\* h2o_start_response
StartResponse(c, gen, status) ==
    SetupFilters([ApplyPrefilter([Asserted(c, c.gen = "none", "h2o_start_response: _generator") EXCEPT !.status = status])
                    EXCEPT !.gen = gen, !.first = IF @ = 0 THEN status ELSE @, !.deficit = FALSE], <<>>)
\* h2o_send_inline, h2o_send_error_generic
SendInline(c, status) == DoSendvec(StartResponse(c, "inline", status), TRUE)

\* h2o_send_informational
SendInformational(c) == Asserted(c, c.gen = "none" /\ c.ostr = <<>>, "h2o_send_informational")

-----------------------------------------------------------------------------
(* Handlers *)

CallHandlers(c, i) == [c EXCEPT !.stage = "handlers", !.handler = i]

\* process_resolved_request: a host of this server, or the upstream (h2o__proxy_process_request)
ProcessFound(c, h) ==
    IF c.override \/ h = 0 THEN [c EXCEPT !.waiting = TRUE, !.stage = "run"] ELSE CallHandlers(Bind(c, h), 1)
ProcessResolved(c) == ProcessFound(c, FindHostconf(c.scene.hosts, c.url.host, c.url.port, DefaultPort))

\* h2o_reprocess_request
CountedReprocess(c) ==
    IF (IF c.delegated THEN c.delegations ELSE c.reprocesses) = 0 THEN SendInline([c EXCEPT !.stage = "run"], 502)
    ELSE ProcessResolved(IF c.delegated THEN [c EXCEPT !.delegations = @ - 1] ELSE [c EXCEPT !.reprocesses = @ - 1])
ReprocessRequest(c, url, override, delegated) ==
    CountedReprocess([ResetResponse(CloseGeneratorAndFilters(c)) EXCEPT
                        !.handler = 0, !.url = url, !.override = override, !.delegated = @ \/ delegated, !.early = FALSE,
                        !.rounds = @ + 1])

\* h2o_send_redirect of the redirect handler, and its internal form
Redirect(c, h) ==
    IF h.internal THEN Defer(c, [act |-> "reprocess", to |-> h.to, delegated |-> TRUE])
    ELSE IF c.delegated THEN SendRedirectInternal(c, h.to)
    ELSE SendInline(c, 301)

\* one handler of call_handlers
OnReq(c, h) ==
    CASE h.does = "decline" -> [c EXCEPT !.handler = @ + 1]
      [] h.does = "inline" -> SendInline([c EXCEPT !.stage = "run", !.reproxy = h.reproxy], h.status)
      [] h.does = "redirect" -> Redirect([c EXCEPT !.stage = "run"], h)
      [] h.does = "delegate" -> Defer([c EXCEPT !.stage = "run"], [act |-> "delegate", to |-> c.url, delegated |-> FALSE])
      [] h.does = "proxy" -> ReprocessRequest(c, c.url, TRUE, FALSE)
      [] h.does = "async" -> [c EXCEPT !.stage = "run", !.waiting = TRUE, !.early = h.early]

-----------------------------------------------------------------------------
(* Actions *)

Run == rq.stage = "run"

\* h2o_process_request
ProcessRequest ==
    /\ rq.stage = "new"
    /\ rq' = CallHandlers(Bind([Asserted(rq, ~rq.called, "process_called") EXCEPT !.called = TRUE],
                               ReqSetup(rq.scene.hosts, rq.url.host, rq.url.port, DefaultPort)), 1)
\* call_handlers
CallHandler ==
    /\ rq.stage = "handlers"
    /\ rq' = IF rq.handler > Len(Conf(rq).handlers) THEN SendInline([rq EXCEPT !.stage = "run"], 404)
             ELSE OnReq(rq, Conf(rq).handlers[rq.handler])

\* the generator of an upstream or of a script: it may send a 1xx, then starts the response
Informational ==
    /\ Run /\ rq.waiting /\ Can("informational")
    /\ rq' = SendInformational(rq)
Answer(a) ==
    /\ Run /\ rq.waiting
    /\ rq' = DoSendvec(StartResponse([rq EXCEPT !.waiting = FALSE, !.reproxy = a.reproxy, !.rate = a.rate, !.sends = 0],
                                     "stream", a.status), a.whole)
\* it sends again after it was asked to proceed; a script may do so later
SendMore(final) ==
    /\ Run /\ rq.gen = "stream" /\ rq.ready /\ (final \/ rq.sends < MaxSends)
    /\ rq' = DoSendvec([rq EXCEPT !.sends = @ + 1], final)

\* throttle_resp.c: on_timer
OnThrottleTimer ==
    /\ Run /\ rq.held # "none"
    /\ rq' = ThrottleSend([rq EXCEPT !.held = "none", !.deficit = FALSE], rq.held = "final")

\* the protocol handler sent what it was given: h2o_proceed_response
Proceed ==
    /\ Run /\ rq.out = "sending"
    /\ LET c == [rq EXCEPT !.out = "open"]
       IN  rq' = IF c.gen # "none" THEN [c EXCEPT !.ready = TRUE] ELSE SendDown(c, TRUE)

\* on_reprocess_request_cb, on_delegate_request_cb, on_replay_request_cb, send_error_deferred_cb_502
OnDeferred(d) ==
    /\ rq.stage \in {"run", "disposed"} /\ d \in rq.deferred
    /\ LET c == [rq EXCEPT !.deferred = @ \ {d}]
       IN  rq' = IF rq.stage = "disposed" THEN Asserted(c, FALSE, "timer of a disposed request")
                 ELSE CASE d.act = "reprocess" -> ReprocessRequest(c, d.to, FALSE, d.delegated)
                        [] d.act = "delegate" -> CallHandlers(Asserted(c, c.handler > 0, "h2o_delegate_request"), c.handler + 1)
                        [] d.act = "replay" ->
                             IF c.handler > 0 THEN CallHandlers(ResetResponse(CloseGeneratorAndFilters(c)), c.handler)
                             ELSE ProcessResolved(ResetResponse(CloseGeneratorAndFilters(c)))
                        [] d.act = "error" -> SendInline(ResetResponse(c), 502)

\* the protocol handler finds a 425 that may be retried: instead of sending it, the request is
\* replayed when the handshake is over (http2/stream.c:344, http2/connection.c:1482)
Replay ==
    /\ Run /\ rq.early /\ rq.out \in {"sending", "ended"} /\ rq.final = 425
    /\ rq' = Defer([rq EXCEPT !.out = "open", !.early = FALSE, !.final = 0], [act |-> "replay", to |-> rq.url, delegated |-> FALSE])

\* h2o_dispose_request: the pool takes the deferred actions with it
Dispose ==
    /\ Run /\ (rq.out = "ended" \/ Can("drop"))
    /\ rq' = [CloseGeneratorAndFilters(rq) EXCEPT !.stage = "disposed", !.deferred = {d \in @ : d.act = "error"}]

Init == \E scene \in Scenes : rq = NewRequest(scene)
Step ==
    \/ ProcessRequest \/ CallHandler \/ Informational
    \/ \E a \in rq.scene.answers : Answer(a)
    \/ \E final \in BOOLEAN : SendMore(final)
    \/ OnThrottleTimer \/ Proceed
    \/ \E d \in rq.deferred : OnDeferred(d)
    \/ Replay \/ Dispose
Next == rq.failed = {} /\ Step

-----------------------------------------------------------------------------
(* Properties *)

Active == rq.stage = "run" /\ rq.failed = {}

\* A request that was not answered to its end is going to be: a deferred action, a handler
\* at work, a generator to be asked, or a held part of the response.
RequestIsDriven ==
    Active /\ rq.out # "ended"
        => rq.deferred # {} \/ rq.waiting \/ rq.ready \/ rq.held # "none" \/ rq.out = "sending"

\* Internal redirects end: a request goes round no more often than the configuration allows.
RedirectLoopsEnd == rq.rounds <= MaxDelegations + MaxReprocesses + 2

\* The status that an error document answers with is that of the error it is the document of,
\* and what the client gets is never a response that a filter took away.
ErrorKeepsStatus ==
    rq.out # "open" /\ rq.failed = {} => (rq.prefilter # 0 => rq.final = rq.prefilter) /\ rq.deferred = {}

\* The handlers that are called are those of the first host whose name and port are the
\* request's, or of the first host that takes any name, and there of the first path that is
\* the request's up to the end of a segment.
PortOf(port) == IF port = NoPort THEN DefaultPort ELSE port
Names(host) == {[wild |-> FALSE, host |-> host]} \cup {[wild |-> TRUE, host |-> SubSeq(host, k + 1, Len(host))] : k \in 1 .. Len(host)}
HostFits(h, url) == PortOf(h.port) = PortOf(url.port) /\ [wild |-> h.wild, host |-> h.host] \in Names(url.host)
Cuts(path) == {SubSeq(path, 1, k) : k \in {k \in 1 .. Len(path) : k = Len(path) \/ "/" \in {path[k], path[k + 1]}}}
\* A request is served by the host and the path that are the best match of its
\* authority and its path, as a search through all of them finds it
\* (hostconf_match, setup_pathconf).
ServedByItsHost ==
    rq.handler > 0 /\ rq.failed = {} =>
        LET hosts == rq.scene.hosts
            h == rq.conf[1]
            p == rq.conf[2]
        IN  /\ IF \E i \in DOMAIN hosts : HostFits(hosts[i], rq.url)
               THEN h # 0 /\ HostFits(hosts[h], rq.url) /\ \A i \in 1 .. h - 1 : ~HostFits(hosts[i], rq.url)
               ELSE rq.rounds = 0 /\ (h # 0 => ~hosts[h].strict)
            /\ h # 0 => /\ p # 0 => hosts[h].paths[p].path \in Cuts(rq.url.path)
                        /\ \A i \in DOMAIN hosts[h].paths : (p = 0 \/ i < p) => hosts[h].paths[i].path \notin Cuts(rq.url.path)


\* No assertion of request.c and of the filters fails: a generator is set once
\* and a response starts once.
NoAssertionFails == rq.failed = {}
=============================================================================
