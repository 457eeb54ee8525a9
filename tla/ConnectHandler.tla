--------------------------- MODULE ConnectHandler ---------------------------
(***************************************************************************)
(* The CONNECT and CONNECT-UDP tunnels (lib/handler/connect.c): name       *)
(* lookups of both families, connection attempts in the order of RFC 8305, *)
(* and then the two directions of the tunnel, closed one by one.           *)
(*                                                                         *)
(* One request.  The protocol handler that serves it is seen through the   *)
(* calls it makes and receives: `turn` is the request body (write_req and  *)
(* proceed_req), `out` the response (h2o_send and proceed).  The loop of   *)
(* try_connect is the stage "try", in which nothing else happens.          *)
(***************************************************************************)
EXTENDS Integers, Sequences, FiniteSets, SequencesExt

CONSTANTS
    MaxPerFamily,   \* MAX_ADDRESSES_PER_FAMILY
    AddrBits,       \* bits of an address
    MaxReads,       \* bound on what the destination sends
    Scenes

VARIABLE cn

-----------------------------------------------------------------------------

Asserted(c, ok, name) == IF ok THEN c ELSE [c EXCEPT !.failed = @ \cup {name}]
Can(event) == event \in cn.scene.events

-----------------------------------------------------------------------------
(* Access control.  An entry of the configuration is "*" or an address     *)
(* with an optional mask (0: none) and an optional port (0: none).         *)

\* TO_BITMASK
Masked(addr, mask) == addr - (addr % 2^(AddrBits - mask))

AclMask(raw) == IF raw.fam # "any" /\ raw.mask = 0 THEN AddrBits ELSE raw.mask
\* h2o_connect_parse_acl: a server with a list it does not accept does not start
AclAccepted(raw) == IF raw.fam = "any" THEN raw.mask = 0 ELSE AclMask(raw) <= AddrBits
ParseAcl(raw) ==
    [allow |-> raw.allow, fam |-> raw.fam, mask |-> AclMask(raw), port |-> raw.port,
     addr |-> IF raw.fam = "any" THEN 0 ELSE Masked(raw.addr, AclMask(raw))]

\* mutant: the family of the target is not compared
AclEntryMatchesAnyFamily(e, target) ==
    /\ e.port = 0 \/ e.port = target.port
    /\ e.fam = "any" \/ e.addr = Masked(target.addr, e.mask)
AclEntryMatches(e, target) ==
    /\ e.port = 0 \/ e.port = target.port
    /\ e.fam = "any" \/ (e.fam = target.fam /\ e.addr = Masked(target.addr, e.mask))
\* h2o_connect_lookup_acl: the first entry that matches decides
LookupAcl(acl, target) ==
    LET hits == {i \in DOMAIN acl : AclEntryMatches(acl[i], target)}
    IN  hits # {} /\ acl[CHOOSE i \in hits : \A j \in hits : i <= j].allow

-----------------------------------------------------------------------------
(* State *)

\* on_req_core
NewTunnel(scene) ==
    [scene |-> scene, acl |-> [i \in DOMAIN scene.acl |-> ParseAcl(scene.acl[i])],
     stage |-> "run", v4 |-> TRUE, v6 |-> TRUE, list |-> <<>>, used |-> 0, pick4 |-> FALSE, err |-> 0,
     sock |-> "none", writing |-> FALSE, reading |-> FALSE, input |-> 0, detached |-> -1, sendbuf |-> 0, delayed |-> FALSE,
     timer |-> TRUE, tcb |-> "connect", eye |-> FALSE, ecb |-> "none",
     wclosed |-> FALSE, rclosed |-> FALSE, sclosed |-> FALSE,
     turn |-> "handler", more |-> scene.more, out |-> "none", reads |-> 0, failed |-> {}]

NameResolution == 0
AccessProhibited == 1
ConnectError == 2

LinkTimer(c) == [Asserted(c, ~c.timer, "timeout is linked") EXCEPT !.timer = TRUE]
UnlinkTimer(c) == [c EXCEPT !.timer = FALSE]
LinkEye(c, cb) == [Asserted(c, ~c.eye, "eyeball_delay is linked") EXCEPT !.eye = TRUE, !.ecb = cb]
\* set_last_error
SetLastError(c, class) == [c EXCEPT !.err = IF @ <= class THEN class ELSE @]

\* reset_io_timeout
ResetIoTimeout(c) == IF c.sock # "none" THEN [c EXCEPT !.timer = TRUE] ELSE c

\* stop_eyeballs
StopEyeballs(c) ==
    [c EXCEPT !.v4 = FALSE, !.v6 = FALSE, !.eye = IF c.ecb # "none" THEN FALSE ELSE @, !.ecb = "none"]

CloseSock(c) == [c EXCEPT !.sock = "none", !.reading = FALSE, !.writing = FALSE]

-----------------------------------------------------------------------------
(* The protocol handler's side of the calls *)

\* h2o_send.  One at a time, and after the generator was asked to proceed
Send(c, final) ==
    [Asserted(c, c.out = "idle", "h2o_send in flight") EXCEPT !.out = IF final THEN "final" ELSE "sending"]
\* h2o_start_response, then h2o_send without content
StartResponse(c) == Send([Asserted(c, c.out = "none", "h2o_start_response") EXCEPT !.out = "idle"], FALSE)
\* h2o_send_error_generic
SendError(c) == [Asserted(c, c.out = "none", "h2o_send_error") EXCEPT !.out = "error"]
\* proceed_req
ProceedReq(c, error) ==
    [Asserted(c, c.turn = "handler" /\ c.scene.streaming, "proceed_req") EXCEPT !.turn = IF error THEN "refused" ELSE "server"]

-----------------------------------------------------------------------------
(* Closing *)

\* send_connect_error
SendConnectError(c) == SendError(CloseSock(UnlinkTimer(StopEyeballs(c))))

\* close_socket
CloseSocket(c) == [CloseSock(c) EXCEPT !.sclosed = TRUE, !.detached = IF c.scene.tcp THEN c.input ELSE @]
InFlight(c) ==
    IF c.sock # "none" THEN IF c.scene.tcp THEN c.input # 0 ELSE ~c.reading
    ELSE c.scene.tcp /\ c.detached # 0

\* close_readwrite
NotifyClose(c, inflight) ==
    IF ~c.rclosed /\ ~inflight THEN Send(LinkTimer([c EXCEPT !.rclosed = TRUE]), TRUE)
    ELSE IF ~c.wclosed /\ c.scene.tcp /\ c.sendbuf # 0 THEN ProceedReq(LinkTimer([c EXCEPT !.wclosed = TRUE]), TRUE)
    ELSE c
CloseReadwrite(c) ==
    NotifyClose(UnlinkTimer(IF c.sock # "none" THEN CloseSocket(c)
                            ELSE Asserted(c, c.scene.tcp => c.detached >= 0, "recvbuf_detached")),
                InFlight(c))

\* dispose_generator
DisposeGenerator(c) ==
    [UnlinkTimer(CloseSock(StopEyeballs(c))) EXCEPT !.sclosed = TRUE, !.delayed = FALSE, !.out = "disposed", !.stage = "disposed"]

-----------------------------------------------------------------------------
(* The body of the request, towards the destination *)

\* tcp_do_write
TcpDoWrite(c) == [Asserted(ResetIoTimeout(c), ~c.writing, "h2o_socket_write") EXCEPT !.writing = TRUE]
\* tcp_write with the bytes of one chunk
TcpWrite(c, len, end) ==
    IF c.sclosed THEN [c EXCEPT !.turn = "refused"]
    ELSE TcpDoWrite([Asserted(Asserted(c, ~c.wclosed /\ c.sendbuf = 0, "tcp_write"), c.sock # "none", "write_req before proceed_req")
                       EXCEPT !.sendbuf = len, !.wclosed = end, !.turn = "handler"])

\* udp_do_write_stream.  A chunk that holds no whole capsule stays in egress.buf, which
\* sendbuf stands for; the capsules sent are not told apart.
UdpDoWriteStream(c, keep) ==
    [Asserted(ResetIoTimeout(c), ~c.delayed, "delayed is linked") EXCEPT !.sendbuf = keep, !.delayed = TRUE]
\* udp_write_stream
UdpWriteStream(c, keep, end) ==
    IF c.sclosed THEN [c EXCEPT !.turn = "refused"]
    ELSE UdpDoWriteStream([Asserted(Asserted(c, ~c.wclosed, "udp_write_stream"), c.sock # "none", "write_req before proceed_req")
                             EXCEPT !.wclosed = end, !.turn = "handler"], keep)

WriteReq(c, len, end) == IF c.scene.tcp THEN TcpWrite(c, len, end) ELSE UdpWriteStream(c, len, end)

-----------------------------------------------------------------------------
(* Connecting *)

\* store_server_addresses: stops when MaxPerFamily were added
RECURSIVE Stored(_, _, _)
Stored(c, res, added) ==
    IF res = <<>> \/ added = MaxPerFamily THEN <<>>
    ELSE IF LookupAcl(c.acl, Head(res)) THEN <<Head(res)>> \o Stored(c, Tail(res), added + 1)
    ELSE Stored(c, Tail(res), added)
StoreServerAddresses(c, new) ==
    IF new = <<>> THEN SetLastError(c, AccessProhibited)
    ELSE [Asserted(c, Len(c.list) + Len(new) <= 2 * MaxPerFamily, "server_addresses.list") EXCEPT !.list = @ \o new]

\* get_next_server_address_for_connect
Candidates(c) == {i \in c.used + 1 .. Len(c.list) : c.list[i].fam = (IF c.pick4 THEN "v4" ELSE "v6")}
\* pick_and_swap
PickAndSwap(c, i) ==
    [c EXCEPT !.list = [@ EXCEPT ![i] = c.list[c.used + 1], ![c.used + 1] = c.list[i]], !.used = @ + 1, !.pick4 = ~@]
NextServerAddress(c) ==
    IF Candidates(c) # {} THEN PickAndSwap(c, CHOOSE i \in Candidates(c) : \A j \in Candidates(c) : i <= j)
    ELSE [c EXCEPT !.used = @ + 1]

\* try_connect, up to the call that connects: the stage "try" stands for that call
TryConnect(c) ==
    IF c.used < Len(c.list) THEN [NextServerAddress(c) EXCEPT !.stage = "try"]
    ELSE IF c.v4 \/ c.v6 THEN [c EXCEPT !.stage = "run"]
    ELSE SendConnectError(Asserted([c EXCEPT !.stage = "run"], c.err = ConnectError, "last_error.class"))

\* on_getaddr, after the addresses were stored
BothDone(c) == [c EXCEPT !.eye = IF c.ecb = "resolution" THEN FALSE ELSE @]
AfterLookup(c) ==
    IF c.sock = "none" THEN TryConnect(c)
    ELSE IF c.eye \/ c.used = Len(c.list) THEN c
    ELSE TryConnect(CloseSock(c))
Looked(c) ==
    IF c.v4 THEN AfterLookup(c)
    ELSE IF c.v6
    THEN IF c.list # <<>> THEN LinkEye(Asserted(c, c.used = 0, "v4 completed late"), "resolution")
         ELSE Asserted(c, c.used = 0, "v4 completed late")
    ELSE IF c.list = <<>> THEN SendConnectError(BothDone(c))
    ELSE AfterLookup(BothDone(c))

-----------------------------------------------------------------------------
(* Actions *)

Run(c) == c.stage = "run"

\* on_getaddr; an empty result is an error
OnGetaddr(fam, res) ==
    /\ Run(cn)
    /\ IF fam = "v4" THEN cn.v4 ELSE cn.v6
    /\ LET c == IF fam = "v4" THEN [cn EXCEPT !.v4 = FALSE] ELSE [cn EXCEPT !.v6 = FALSE]
       IN  cn' = Looked(IF res = <<>> THEN SetLastError(c, NameResolution) ELSE StoreServerAddresses(c, Stored(c, res, 0)))

\* on_resolution_delay_timeout, on_connection_attempt_delay_timeout
OnResolutionDelay ==
    /\ Run(cn) /\ cn.eye /\ cn.ecb = "resolution"
    /\ cn' = TryConnect(Asserted([cn EXCEPT !.eye = FALSE], cn.used = 0, "resolution delay"))
OnAttemptDelay ==
    /\ Run(cn) /\ cn.eye /\ cn.ecb = "attempt"
    /\ cn' = IF cn.used = Len(cn.list) THEN [cn EXCEPT !.eye = FALSE]
             ELSE TryConnect(CloseSock(Asserted([cn EXCEPT !.eye = FALSE], cn.sock # "none", "h2o_socket_close")))

\* the call of tcp_start_connect or udp_connect returns an error
ConnectFails ==
    /\ cn.stage = "try" /\ Can("unreachable")
    /\ cn' = TryConnect(SetLastError(cn, ConnectError))
\* tcp_start_connect
TcpStartConnect ==
    /\ cn.stage = "try" /\ cn.scene.tcp
    /\ cn' = LinkEye([cn EXCEPT !.sock = "connecting", !.stage = "run"], "attempt")
\* udp_connect
UdpConnect ==
    /\ cn.stage = "try" /\ ~cn.scene.tcp
    /\ cn' = UdpWriteStream(StartResponse([StopEyeballs(Asserted(cn, cn.sendbuf = 0, "egress.buf"))
                                             EXCEPT !.sock = "open", !.tcb = "io", !.stage = "run"]),
                            0, ~cn.scene.streaming)

\* tcp_on_connect
TcpOnConnect ==
    /\ Run(cn) /\ cn.sock = "connecting"
    /\ cn' = StartResponse(TcpWrite(ResetIoTimeout([StopEyeballs(cn) EXCEPT !.sock = "open", !.tcb = "io"]),
                                    cn.scene.first, ~cn.scene.streaming))
TcpOnConnectError ==
    /\ Run(cn) /\ cn.sock = "connecting" /\ Can("refused")
    /\ cn' = TryConnect(CloseSock(SetLastError(cn, ConnectError)))

\* a write of no bytes completes at once and without an error
EmptyWrite == cn.writing /\ cn.sendbuf = 0

\* on_connect_timeout, on_io_timeout
OnConnectTimeout ==
    /\ Run(cn) /\ cn.timer /\ cn.tcb = "connect" /\ Can("timeout")
    /\ cn' = SendConnectError(UnlinkTimer(cn))
\* the timer of close_readwrite has no delay, nor has egress.delayed, which is set when the
\* timeout is
OnIoTimeout ==
    /\ Run(cn) /\ cn.timer /\ cn.tcb = "io" /\ (cn.sclosed \/ (Can("timeout") /\ ~cn.delayed /\ ~EmptyWrite))
    /\ cn' = CloseReadwrite(UnlinkTimer(cn))

\* the server calls write_req
Write(len, end) ==
    /\ Run(cn) /\ cn.turn = "server" /\ cn.more > 0
    /\ cn' = WriteReq([cn EXCEPT !.more = @ - 1, !.turn = IF end THEN "ended" ELSE "handler"], len, end)
\* tcp_on_write_complete
TcpOnWriteComplete(err) ==
    /\ Run(cn) /\ cn.writing /\ (err => Can("reset") /\ ~EmptyWrite)
    /\ cn' = IF err \/ cn.wclosed THEN CloseReadwrite([cn EXCEPT !.writing = FALSE])
             ELSE ProceedReq([ResetIoTimeout(cn) EXCEPT !.writing = FALSE, !.sendbuf = 0], FALSE)
\* udp_write_stream_complete_delayed
UdpWriteComplete ==
    /\ Run(cn) /\ cn.delayed
    /\ LET c == [cn EXCEPT !.delayed = FALSE]
       IN  cn' = IF c.wclosed THEN CloseReadwrite(c) ELSE ProceedReq(c, FALSE)
\* udp_write_datagrams
UdpWriteDatagrams ==
    /\ Run(cn) /\ cn.scene.dgram /\ cn.out \in {"sending", "idle", "final"} /\ Can("datagram")
    /\ cn' = ResetIoTimeout(Asserted(cn, cn.sock # "none", "h2o_socket_get_fd"))

\* tcp_on_read
TcpOnRead(err) ==
    /\ Run(cn) /\ cn.reading /\ cn.scene.tcp /\ cn.reads < MaxReads
    /\ LET c == UnlinkTimer([cn EXCEPT !.reading = FALSE, !.reads = @ + 1])
       IN  cn' = IF err THEN Send([c EXCEPT !.rclosed = TRUE], TRUE) ELSE Send([c EXCEPT !.input = 1], FALSE)
\* udp_on_read
UdpOnRead(err) ==
    /\ Run(cn) /\ cn.reading /\ ~cn.scene.tcp /\ cn.reads < MaxReads /\ (err => Can("reset"))
    /\ LET c == [cn EXCEPT !.reads = @ + 1]
       IN  cn' = IF err THEN CloseReadwrite(c)
                 ELSE IF cn.scene.dgram THEN c
                 ELSE Send(UnlinkTimer([c EXCEPT !.reading = FALSE]), FALSE)

\* the server sent what it was given: tcp_on_proceed, udp_on_proceed
OnProceed ==
    /\ Run(cn) /\ cn.out = "sending"
    /\ LET c == [Asserted(cn, cn.scene.tcp => ~cn.rclosed, "tcp_on_proceed") EXCEPT !.out = "idle"]
       IN  cn' = IF c.sock # "none" THEN [ResetIoTimeout(c) EXCEPT !.input = 0, !.reading = TRUE]
                 ELSE Send([c EXCEPT !.rclosed = TRUE], TRUE)

\* on_stop, on_generator_dispose: the server is through with the request, or drops it
Dispose ==
    /\ Run(cn) /\ (cn.out \in {"final", "error"} \/ Can("drop"))
    /\ cn' = DisposeGenerator(cn)

Init == \E scene \in Scenes : (\A i \in DOMAIN scene.acl : AclAccepted(scene.acl[i])) /\ cn = NewTunnel(scene)
Step ==
    \/ \E fam \in {"v4", "v6"} : \E res \in cn.scene.results : (\A i \in DOMAIN res : res[i].fam = fam) /\ OnGetaddr(fam, res)
    \/ OnResolutionDelay \/ OnAttemptDelay \/ ConnectFails \/ TcpStartConnect \/ UdpConnect \/ TcpOnConnect \/ TcpOnConnectError
    \/ OnConnectTimeout \/ OnIoTimeout
    \/ \E len \in {0, 1}, end \in BOOLEAN : Write(len, end)
    \/ \E err \in BOOLEAN : TcpOnWriteComplete(err) \/ TcpOnRead(err) \/ UdpOnRead(err)
    \/ UdpWriteComplete \/ UdpWriteDatagrams \/ OnProceed \/ Dispose
Next == cn.failed = {} /\ Step

-----------------------------------------------------------------------------
(* Properties *)

\* What an entry of the access control list says: its first mask bits are the address's.
Covers(raw, target) ==
    /\ raw.port \in {0, target.port}
    /\ \/ raw.fam = "any"
       \/ raw.fam = target.fam /\ \A b \in AddrBits - AclMask(raw) .. AddrBits - 1 :
                                     (raw.addr \div 2^b) % 2 = (target.addr \div 2^b) % 2
Permitted(acl, target) ==
    \E i \in DOMAIN acl : acl[i].allow /\ Covers(acl[i], target) /\ \A j \in 1 .. i - 1 : ~Covers(acl[j], target)
\* Only destinations that the configuration permits are connected to, and each address
\* of the lookups at most once.
OnlyPermittedDestinations ==
    /\ \A i \in 1 .. Len(cn.list) : Permitted(cn.scene.acl, cn.list[i])
    /\ cn.used <= Len(cn.list)
    /\ Cardinality(Range(cn.list)) = Len(cn.list)

\* A request that was not answered is being worked on: a lookup, an attempt, or the
\* timer that ends the wait.
TunnelIsDriven ==
    cn.out = "none" /\ cn.stage = "run" /\ cn.failed = {} => cn.timer /\ (cn.v4 \/ cn.v6 \/ cn.sock = "connecting")

\* An open destination is under the I/O timeout unless the tunnel waits for the client.
OpenTunnelIsTimed ==
    cn.sock = "open" /\ cn.stage = "run" /\ cn.failed = {} => cn.timer \/ cn.out = "sending"

\* When the destination is gone, both directions of the tunnel are told.
BothSidesTold ==
    cn.sclosed /\ cn.stage = "run" /\ cn.failed = {} /\ ~cn.timer /\ ~cn.delayed
        => /\ cn.out \in {"sending", "final"}
           /\ cn.turn = "handler" => cn.wclosed

\* h2o_send is called again before the generator was asked to proceed
KnownFailures == {"h2o_send in flight"}
\* No assertion of connect.c and of the lists and sockets it uses fails, but
\* the known one.
NoAssertionFails == cn.failed \subseteq KnownFailures
=============================================================================
