------------------------------ MODULE TlsAccept ------------------------------
(***************************************************************************)
(* From an accepted socket to a connection that speaks HTTP: the PROXY     *)
(* line and the accept timer (lib/core/util.c), the TLS handshake over     *)
(* picotls and OpenSSL with private key operations and session lookups     *)
(* that complete later, and the handshake of a client (lib/common/         *)
(* socket.c).                                                              *)
(*                                                                         *)
(* The two TLS libraries are known by what a call of them can answer.      *)
(* `engine` says how far the handshake is: "new", "part" of the peer's     *)
(* first flight read, "flight" answered, "done".  What the peer sends is   *)
(* a sequence of segments of pieces, given by the scene: "px" the PROXY    *)
(* line ("p1" its first part), "h1" and "h2" the two parts of the          *)
(* ClientHello, "fin" its last flight; for a client "sh" and "sfin".       *)
(***************************************************************************)
EXTENDS Integers, Sequences, FiniteSets, SequencesExt

CONSTANT Scenes

VARIABLE ac

Asserted(c, ok, name) == IF ok THEN c ELSE [c EXCEPT !.failed = @ \cup {name}]
In(x, q) == \E i \in DOMAIN q : q[i] = x
Server(c) == c.scene.role = "server"
Open(c) == c.sock = "open"

-----------------------------------------------------------------------------
(* Closing.                                                                *)

ReadStop(c) == [c EXCEPT !.read = "none"]
ReadStart(c, cb) == [c EXCEPT !.read = cb]
\* write_ssl_bytes and flush_pending_ssl
Flush(c, cb) == [c EXCEPT !.pending = FALSE, !.write = cb]

\* dispose_socket, destroy_ssl
Dispose(c) ==
    [Asserted(Asserted(c, ~c.inflight, "async.inflight"), ~c.wbuf, "async.ptls_wbuf")
        EXCEPT !.sock = "disposed", !.ssl = FALSE, !.ptls = FALSE, !.ossl = FALSE, !.read = "none", !.write = "none"]

\* shutdown_ssl: a close_notify, where the library can send one
ShutdownSsl(c) ==
    IF c.write # "none" THEN Dispose(c)
    ELSE IF c.ptls \/ (c.ossl /\ c.engine = "done") THEN Flush(ReadStop(c), "dispose")
    ELSE Dispose(c)
CloseSocket(c) ==
    IF ~c.ssl THEN Dispose(c)
    ELSE IF c.inflight THEN [c EXCEPT !.closed = TRUE]
    ELSE ShutdownSsl(c)

-----------------------------------------------------------------------------
(* The accept data: destroyed once, with no lookup in flight.              *)

Destroy(c) ==
    [Asserted(Asserted(c, c.data, "accept data freed twice"), ~c.get, "get_req") EXCEPT !.data = FALSE, !.timer = "none"]

\* on_ssl_handshake_complete; the caller of a client's handshake is told likewise
HandshakeCallback(c, err) ==
    LET told == [c EXCEPT !.told = Append(@, IF err THEN "error" ELSE "ok")]
    IN  IF ~Server(c) THEN told
        ELSE IF err THEN Destroy(CloseSocket(told))
        ELSE Destroy([told EXCEPT !.read = "http"])

\* switch_to_picotls: the keys of TLS 1.2 are handed over
SwitchToPicotls(c) == IF c.ossl /\ c.scene.switch /\ c.scene.version = 12 THEN [c EXCEPT !.ptls = TRUE, !.ossl = FALSE] ELSE c
SetUp(c, err) == IF err THEN c ELSE SwitchToPicotls(Asserted(c, c.ptls \/ c.ossl, "ossl != NULL"))

CallBack(c, err) == HandshakeCallback([c EXCEPT !.write = "none", !.cb = FALSE], err)
OnHandshakeComplete(c, err) ==
    IF c.closed THEN ShutdownSsl(Asserted(c, ~c.inflight, "on_handshake_complete: inflight"))
    ELSE CallBack(SetUp(Asserted(c, c.cb, "handshake.cb"), err), err)

-----------------------------------------------------------------------------
(* A private key operation runs elsewhere.                                 *)

ProceedAsync(c) ==
    [ReadStop(Asserted(c, ~c.inflight, "do_proceed_handshake_async")) EXCEPT !.inflight = TRUE, !.wbuf = c.ptls, !.key = TRUE]

-----------------------------------------------------------------------------
(* The libraries.  A call answers: "progress" (more input is needed),      *)
(* "output" (progress, with bytes to send), "async", "version" (picotls:   *)
(* an older client), "lookup" (OpenSSL asks for a session), "error" (with  *)
(* an alert), "mute" (an error without one), "ok", "okout" (complete, with *)
(* bytes to send).                                                         *)

WholeHello(c) == In("h2", c.enc)
FirstAnswers(c) ==
    (IF c.key THEN {} ELSE c.scene.answers \cap {"async"}) \cup (c.scene.answers \cap {"error", "mute"}) \cup {"output"}
ServerAnswers(c) ==
    CASE c.engine \in {"new", "part"} -> (IF WholeHello(c) THEN FirstAnswers(c) ELSE {"progress"})
      [] c.engine = "flight" -> (IF In("fin", c.enc) THEN {"ok"} \cup (c.scene.answers \cap {"error", "okout"}) ELSE {"progress"})
      [] OTHER -> {"error"}
PicotlsAnswers(c) == IF c.engine = "new" /\ WholeHello(c) /\ c.scene.version = 12 THEN {"version"} ELSE ServerAnswers(c) \ {"mute"}
Looks(c) == c.resumption = "record" /\ c.engine = "new" /\ WholeHello(c)
OpensslAnswers(c) ==
    IF Looks(c) THEN {"lookup"} ELSE ServerAnswers(c)
ClientAnswers(c) ==
    CASE c.engine = "new" -> {"output"}
      [] c.engine = "flight" ->
            (IF ~In("sh", c.enc) THEN {"progress"}
             ELSE (c.scene.answers \cap {"error", "mute"}) \cup (IF c.scene.version = 13 THEN {"okout"} ELSE {"output"}))
      [] c.engine = "kex" -> (IF In("sfin", c.enc) THEN {"ok"} ELSE {"progress"})
      [] OTHER -> {"error"}
Undetermined(c) == ~c.ptls /\ ~c.ossl /\ c.scene.picotls
Answers(c) ==
    IF ~Server(c) THEN ClientAnswers(c)
    ELSE IF Undetermined(c) /\ c.scene.version = 12 /\ WholeHello(c) THEN OpensslAnswers(c)
    ELSE IF c.ptls \/ Undetermined(c) THEN PicotlsAnswers(c) ELSE OpensslAnswers(c)

\* how far the handshake is after the answer
Engine(c, a) ==
    CASE a = "progress" -> (IF c.engine = "new" /\ c.enc # <<>> THEN "part" ELSE c.engine)
      [] a = "output" -> (IF c.engine = "flight" THEN "kex" ELSE "flight")
      [] a \in {"ok", "okout"} -> "done"
      [] a \in {"error", "mute"} -> "failed"
      [] OTHER -> c.engine
Answered(c, a) == [c EXCEPT !.engine = Engine(c, a), !.enc = IF a = "async" THEN @ ELSE <<>>, !.pending = a \in {"output", "okout", "error"},
                            !.key = IF a = "async" THEN @ ELSE FALSE]

\* proceed_handshake_picotls
PicotlsNext(c, a) ==
    CASE a = "async" -> ProceedAsync(c)
      [] a = "progress" -> ReadStart(c, "proceed")
      [] a = "output" -> Flush(ReadStop(c), "proceed")
      [] a = "okout" -> Flush(ReadStop(c), "complete")
      [] a = "ok" -> OnHandshakeComplete(c, FALSE)
      [] a = "error" -> Flush(ReadStop(c), "fail")
ProceedPicotls(c, a) == PicotlsNext(Answered([c EXCEPT !.wbuf = FALSE], a), a)

\* proceed_handshake_openssl.  A lookup starts the handshake again from the input that was retained;
\* an input that is too long for that is not looked up.
Lookup(c) == ReadStop([c EXCEPT !.resumption = "sent", !.get = TRUE, !.pending = FALSE, !.engine = "new"])
Complete(c, err) == OnHandshakeComplete(ReadStop(c), err)
OpensslNext(c, a) ==
    CASE a = "lookup" -> Lookup(c)
      [] a = "async" -> ProceedAsync(c)
      [] a = "error" -> Flush(ReadStop(c), "fail")
      [] a = "mute" -> Complete(c, TRUE)
      [] a = "output" -> Flush(ReadStop(c), "proceed")
      [] a = "okout" -> Flush(ReadStop(c), "complete")
      [] a = "ok" -> Complete(c, FALSE)
      [] a = "progress" -> ReadStart(c, "proceed")
NotTriggered(c, a) == IF a # "lookup" /\ c.resumption = "record" THEN [c EXCEPT !.resumption = "complete"] ELSE c
OpensslAnswered(c, a) == IF a = "lookup" THEN c ELSE Answered(c, a)
ProceedOpenssl(c, a) == OpensslNext(NotTriggered(OpensslAnswered(Asserted(c, c.ossl, "ossl"), a), a), a)

\* proceed_handshake_undetermined: picotls tries first
PicotlsTakes(c, a) ==
    IF a = "async" THEN ProceedAsync(Answered(c, a))
    ELSE Flush(ReadStop(Answered(c, a)), CASE a \in {"ok", "okout"} -> "complete" [] a = "output" -> "proceed" [] OTHER -> "fail")
ProceedUndetermined(c, a) ==
    IF a = "progress" THEN c
    ELSE IF c.scene.version = 12 THEN ProceedOpenssl([c EXCEPT !.ossl = TRUE], a)
    ELSE PicotlsTakes([c EXCEPT !.ptls = TRUE, !.resumption = "complete"], a)

Proceeded(c, a) ==
    IF c.ptls THEN ProceedPicotls(c, a)
    ELSE IF c.ossl THEN ProceedOpenssl(c, a)
    ELSE IF Undetermined(c) THEN ProceedUndetermined(c, a)
    ELSE ProceedOpenssl([c EXCEPT !.ossl = TRUE], a)
ProceedHandshake(c, err, a) ==
    IF err THEN OnHandshakeComplete(ReadStop([c EXCEPT !.write = "none"]), TRUE)
    ELSE Proceeded([Asserted(c, ~c.inflight, "proceed_handshake: inflight") EXCEPT !.write = "none"], a)

\* the answer is drawn when the library is called
ProceedAny(c, err) == IF err THEN {ProceedHandshake(c, TRUE, "error")} ELSE {ProceedHandshake(c, FALSE, a) : a \in Answers(c)}

\* h2o_socket_ssl_handshake: what was read already is the first input
StartSsl(c) ==
    [c EXCEPT !.ssl = TRUE, !.cb = TRUE, !.enc = c.input, !.input = <<>>, !.ossl = ~Server(c),
              !.resumption = IF Server(c) /\ c.scene.store # "none" THEN "record" ELSE "complete"]
SslHandshake(c) ==
    IF Server(c) /\ c.enc = <<>> THEN {ReadStart(c, "proceed")} ELSE ProceedAny(c, FALSE)

-----------------------------------------------------------------------------
(* h2o_accept and the PROXY line.                                          *)

Init ==
    \E scene \in Scenes :
        ac = [scene |-> scene, sock |-> "open", ssl |-> FALSE, ptls |-> FALSE, ossl |-> FALSE, read |-> "none", write |-> "none",
              cb |-> FALSE, pending |-> FALSE, input |-> <<>>, enc |-> <<>>, engine |-> "new", resumption |-> "complete",
              inflight |-> FALSE, key |-> FALSE, closed |-> FALSE, wbuf |-> FALSE, data |-> FALSE, timer |-> "none", get |-> FALSE,
              told |-> <<>>, at |-> 1, phase |-> "accept", failed |-> {}]

CreateAcceptData(c) == [c EXCEPT !.data = TRUE, !.timer = "accept"]
Accept ==
    /\ ac.phase = "accept"
    /\ LET c == [ac EXCEPT !.phase = "run"]
       IN  IF ~Server(c) THEN ac' \in SslHandshake(StartSsl(c))
           ELSE IF c.scene.proxy THEN ac' = ReadStart(CreateAcceptData(c), "proxy")
           ELSE ac' \in SslHandshake(StartSsl(CreateAcceptData(c)))

Running == ac.phase = "run" /\ Open(ac)
\* on_read_proxy_line: a line that is not one is left to what follows
ProxyLine(c) ==
    IF c.input = <<>> \/ c.input = <<"p1">> THEN {c}
    ELSE SslHandshake(StartSsl([c EXCEPT !.input = IF Head(@) \in {"px", "p1"} THEN SelectSeq(@, LAMBDA p : p \notin {"px", "p1", "p2"}) ELSE @]))

OnRead(c) ==
    CASE c.read = "proxy" -> ProxyLine(c)
      [] c.read = "proceed" -> ProceedAny(c, FALSE)
      [] OTHER -> {c}

\* read_on_ready: with TLS the bytes are encrypted ones, whichever callback is set
Arrive ==
    /\ Running /\ ac.read \in {"proxy", "proceed"} /\ ac.at <= Len(ac.scene.segments)
    /\ LET s == ac.scene.segments[ac.at]
       IN  ac' \in OnRead(IF ac.ssl THEN [ac EXCEPT !.enc = @ \o s, !.at = @ + 1] ELSE [ac EXCEPT !.input = @ \o s, !.at = @ + 1])
ReadFails ==
    /\ Running /\ ac.read \in {"proxy", "proceed"} /\ ac.scene.fails
    /\ ac' = IF ac.read = "proxy" THEN Dispose(Destroy(ac)) ELSE ProceedHandshake(ac, TRUE, "error")

WriteDone(err) ==
    /\ Running /\ ac.write # "none" /\ (err => ac.scene.fails)
    /\ LET c == [ac EXCEPT !.write = "none"]
       IN  CASE ac.write = "proceed" -> ac' \in ProceedAny(c, err)
             [] ac.write = "complete" -> ac' = OnHandshakeComplete(c, err)
             [] ac.write = "fail" -> ac' = OnHandshakeComplete(c, TRUE)
             [] ac.write = "dispose" -> ac' = Dispose(c)

\* on_async_job_complete and on_async_proceed_handshake
AsyncComplete ==
    /\ Running /\ ac.inflight
    /\ ac' \in ProceedAny([ac EXCEPT !.inflight = FALSE], FALSE)

-----------------------------------------------------------------------------
(* The session store.                                                      *)

\* h2o_socket_ssl_resume_server_handshake, which looks at the socket after the handshake went on
Resume(c) == {Asserted(d, d.ssl, "resumed after the socket was disposed") : d \in ProceedAny([c EXCEPT !.get = FALSE, !.resumption = "complete"], FALSE)}

StoreReplies ==
    /\ Running /\ ac.get /\ ac.timer # "redis"
    /\ ac' \in Resume(Asserted(ac, ac.data, "reply to freed accept data"))

\* redis_resumption_get while there is no connection: the accept timer is used to go on at once
RedisUnavailable ==
    /\ Running /\ ac.get /\ ac.scene.store = "redis" /\ ac.timer = "accept"
    /\ ac' = [ac EXCEPT !.timer = "redis"]
RedisGetFailed ==
    /\ Running /\ ac.timer = "redis"
    /\ ac' \in {Asserted(d, d.data, "timer of freed accept data") : d \in Resume([ac EXCEPT !.timer = "none"])}

\* on_accept_timeout, on_memcached_accept_timeout, on_redis_accept_timeout
AcceptTimeout ==
    /\ Running /\ ac.timer = "accept"
    /\ ac' = CloseSocket(Destroy([ac EXCEPT !.get = FALSE]))

-----------------------------------------------------------------------------

Step ==
    \/ Accept \/ Arrive \/ ReadFails \/ AsyncComplete \/ StoreReplies \/ RedisUnavailable \/ RedisGetFailed \/ AcceptTimeout
    \/ \E err \in BOOLEAN : WriteDone(err)

Next == ac.failed = {} /\ Step
Spec == Init /\ [][Next]_ac

-----------------------------------------------------------------------------

\* No assertion fails; accept data is destroyed once, and no lookup or timer of it is left.
NoAssertionFails == ac.failed = {}

InHandshake == Running /\ ac.told = <<>> /\ ~ac.closed /\ ac.write # "dispose"
\* A handshake that is not over waits for something that calls it again.
HandshakeIsDriven ==
    InHandshake => \/ ac.read = "proceed" \/ (ac.read = "proxy" /\ ~ac.ssl)
                   \/ ac.write # "none" \/ ac.inflight \/ ac.get \/ ac.timer = "redis"

\* A handshake that is not over is timed.
HandshakeIsTimed == (InHandshake /\ Server(ac)) => ac.timer # "none"

\* The one who asked is told once, and only if the socket was not closed in the meantime.
ToldOnce == Len(ac.told) <= 1 /\ (ac.closed => ac.told = <<>>)

\* A socket that was closed waits for nothing of the peer.
ClosedIsDisposed == (Running /\ ac.closed /\ ac.failed = {}) => (ac.inflight \/ ac.write # "none")
=============================================================================
