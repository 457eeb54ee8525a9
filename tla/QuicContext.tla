---------------------------- MODULE QuicContext ----------------------------
(***************************************************************************)
(* The QUIC contexts of h2o, one per worker thread (h2o/lib/http3/common.c *)
(* and the callbacks of h2o/src/main.c): datagrams are read in batches,    *)
(* grouped, matched to a connection by connection ID or by the 4-tuple,    *)
(* forwarded to the thread or the node they belong to, or answered with a  *)
(* stateless reset or a version negotiation.                               *)
(*                                                                         *)
(* A context is <<node, thread>>.  A connection ID decrypts to the context *)
(* and the connection it names; the one a client makes up decrypts to      *)
(* whatever it happens to.  Clients, paths and the kernel's choice of the  *)
(* context that gets a datagram are the environment.                       *)
(***************************************************************************)
EXTENDS Integers, Sequences, FiniteSets, SequencesExt

CONSTANTS
    Contexts,       \* <<node, thread>> of every QUIC thread
    Clients,        \* clients, named by the number their connection gets
    NumPaths,       \* 4-tuples a client uses, one after another
    MaxConns,       \* conf.max_quic_connections
    BatchSize,      \* datagrams read at once (PTLS_ELEMENTSOF(dgrams))
    QueueSize,      \* forwarded datagrams a socket pair holds
    Claims          \* functions from clients to what their own connection IDs decrypt to

VARIABLE quic

DefaultTtl == 4         \* run_loop: h2o_quic_set_forwarding_context(.., 0, 4, ..)

NoConn == 0

\* The 4-tuples; no two clients have one in common.
Paths == Clients \X (1..NumPaths)

\* The connection IDs: that of connection k at context c, and the one client k
\* invented, which decrypts to the context and the connection it claims.
ServerCid(c, k) == [server |-> TRUE, owner |-> k, at |-> c, master |-> k]
ClientCid(k, claim) == [server |-> FALSE, owner |-> k, at |-> claim[1], master |-> claim[2]]

\* A datagram: packets of one client on one path, or nothing at all ("empty").
\* might_be_client_generated is true of Initial and 0-RTT packets.
Packet(type, cid, path) == [type |-> type, cid |-> cid, path |-> path]
MightBeClientGenerated(p) == p.type = "initial"
Datagram(pkts, path, ttl, hops) == [pkts |-> pkts, path |-> path, ttl |-> ttl, hops |-> hops]

InitQuic(claims) ==
    [conn |-> [k \in Clients |-> [state |-> "none", at |-> <<0, 0>>, path |-> <<0, 0>>, key |-> <<>>, timer |-> FALSE]],
     byId |-> [c \in Contexts |-> {}], accepting |-> [c \in Contexts |-> {}],
     acceptor |-> [c \in Contexts |-> TRUE], queue |-> [c \in Contexts |-> <<>>],
     claim |-> claims, numConns |-> 0,
     hops |-> 0, wrong |-> {}, failed |-> {}]

\* An observation: what happened contradicts the property of that name.
Observed(q, ok, name) == IF ok THEN q ELSE [q EXCEPT !.wrong = @ \cup {name}]

\* assert(ok) of the code
Asserted(q, ok, name) == IF ok THEN q ELSE [q EXCEPT !.failed = @ \cup {name}]

Live(q, k) == q.conn[k].state \in {"connected", "closing"}

-----------------------------------------------------------------------------
(* Registration *)

\* calc_accept_hashkey: the 4-tuple and the client's own connection ID
AcceptHashkey(p) == <<p.path, p.cid.owner>>

\* The connection that conns_accepting of context c has under a key.
AcceptingConn(q, c, key) ==
    LET hit == {k \in q.accepting[c] : q.conn[k].key = key}
    IN  IF hit = {} THEN NoConn ELSE CHOOSE k \in hit : TRUE

\* h2o_quic_init_conn, h2o_quic_setup (through h2o_http3_setup, which ends by
\* scheduling the timer) and the registration that process_packets adds
QuicSetup(q, c, k, path, key) ==
    LET a == Asserted(q, k \notin q.byId[c], "connection set up twice")
    IN  [a EXCEPT !.conn[k] = [state |-> "connected", at |-> c, path |-> path, key |-> key, timer |-> TRUE],
                  !.byId[c] = @ \cup {k}, !.accepting[c] = @ \cup {k}]

\* drop_from_acceptmap
DropFromAcceptmap(q, k) ==
    LET c == q.conn[k].at
    IN  [q EXCEPT !.accepting[c] = @ \ {AcceptingConn(q, c, q.conn[k].key)}, !.conn[k].key = <<>>]

\* Mutant of QuicDisposeConn: it leaves the connection in conns_accepting.
QuicDisposeConnForgets(q, k) ==
    [q EXCEPT !.byId[q.conn[k].at] = @ \ {k}, !.numConns = @ - 1,
              !.conn[k].state = "freed", !.conn[k].timer = FALSE]

\* on_http3_conn_destroy, h2o_http3_dispose_conn, h2o_quic_dispose_conn
QuicDisposeConn(q, k) ==
    LET c == q.conn[k].at
        unregistered == DropFromAcceptmap([q EXCEPT !.byId[c] = @ \ {k}, !.numConns = @ - 1], k)
    IN  [unregistered EXCEPT !.conn[k].state = "freed", !.conn[k].timer = FALSE]

\* h2o_quic_schedule_timer
ScheduleTimer(q, k) == [q EXCEPT !.conn[k].timer = TRUE]

\* h2o_quic_close_connection of a server's connection: it stays registered
\* until quicly_send says that it is to be freed
QuicCloseConnection(q, k) ==
    IF q.conn[k].state = "connected" THEN ScheduleTimer([q EXCEPT !.conn[k].state = "closing"], k) ELSE q

-----------------------------------------------------------------------------
(* Forwarding *)

\* The sockets a context may write to: its own threads', or that of a node,
\* where the kernel of that node chooses the thread.
Destinations(node, thread, own) ==
    IF node = own[1] THEN {d \in Contexts : d = <<node, thread>>} ELSE {d \in Contexts : d[1] = node}

\* forward_quic_packets for Initial packets without an acceptor (node_id is
\* NULL and the thread is this one): not forwarded
ForwardToNextGeneration(q, c) == Asserted(q, ~q.acceptor[c], "forwarding while accepting")

\* forward_quic_packets with a node and a thread: every packet becomes a
\* datagram of its own, with the path and the TTL in front
\* (encode_quic_forwarded_header); an unknown node or thread, or a full socket,
\* loses it.  d is the context that gets it.
ForwardQuicPackets(q, c, d, cid, grp) ==
    LET a == Asserted(q, cid.at # c, "forwarding to oneself")
        fits == SubSeq(grp.pkts, 1, QueueSize - Len(q.queue[d]))
        one(i) == Datagram(<<fits[i]>>, grp.path, grp.ttl, grp.hops + 1)
    IN  IF d \notin Destinations(cid.at[1], cid.at[2], c) THEN a
        ELSE [a EXCEPT !.queue[d] = @ \o [i \in DOMAIN fits |-> one(i)],
                       !.hops = IF grp.hops + 1 > @ THEN grp.hops + 1 ELSE @]

-----------------------------------------------------------------------------
(* Dispatch *)

\* quicly_is_destination: a long-header packet must come from the connection's
\* path and carry the client's first connection ID or one of the server's
IsDestination(q, k, path, p) ==
    /\ p.type = "initial" => path = q.conn[k].path
    /\ \/ p.type = "initial" /\ ~p.cid.server /\ p.cid.owner = k
       \/ p.cid.at = q.conn[k].at /\ p.cid.master = k

\* The last part of process_packets: quicly_receive of every packet but the
\* accepted one, the timer.  A fatal error (state exhausted, no memory)
\* destroys the connection at once.
ReceivePackets(q, k, grp, skip, fatal) ==
    LET got == {grp.pkts[i] : i \in DOMAIN grp.pkts \ {skip}}
        r == Observed(Observed(q, \A p \in got : p.cid.owner = k, "owner"),
                      \A p \in got : p.path = grp.path, "path")
    IN  IF fatal /\ got # {} THEN QuicDisposeConn(r, k) ELSE ScheduleTimer(r, k)

\* on_http3_accept: over the limit, or a Retry or an invalid token, gives
\* "null"; the keys of the first Initial come from the client's own ID, so one
\* that carries a server's ID does not decrypt; "closed" is a connection that
\* h2o_http3_server_accept made and destroyed.
OnHttp3Accept(q, p) ==
    IF q.numConns >= MaxConns THEN {"null"}
    ELSE IF p.cid.server THEN {"null", "decryption_failed"}
    ELSE IF q.conn[p.cid.owner].state # "none" THEN {"null"}      \* a client connects once
    ELSE {"null", "closed", "conn"}

\* The index of the first Initial packet of the group (0 if there is none).
FirstInitial(grp) ==
    LET is == {i \in DOMAIN grp.pkts : grp.pkts[i].type = "initial"}
    IN  IF is = {} THEN 0 ELSE CHOOSE i \in is : \A j \in is : i <= j

\* process_packets, from the accept map on (the Initial packets): a new
\* connection, a rejection, or the connection being established.  The result
\* is the set of outcomes.
ProcessInitial(q, c, grp) ==
    LET first == grp.pkts[1]
        key == AcceptHashkey(first)
        known == AcceptingConn(q, c, key)
        i == FirstInitial(grp)
        forward(cid) == {ForwardQuicPackets(q, c, d, cid, grp) : d \in Contexts}
    IN  IF known # NoConn
        THEN IF IsDestination(q, known, grp.path, first)
             THEN {ReceivePackets(q, known, grp, 0, fatal) : fatal \in BOOLEAN}
             ELSE IF first.cid.at # c /\ grp.ttl # 0 THEN forward(first.cid) ELSE {q}
        ELSE IF ~q.acceptor[c] THEN {ForwardToNextGeneration(q, c)}
        ELSE IF i = 0 THEN {q}
        ELSE UNION {CASE result \in {"null", "closed"} -> {q}
                      [] result = "decryption_failed" ->
                           IF grp.ttl > 0 /\ grp.pkts[i].cid.at # c THEN forward(grp.pkts[i].cid) ELSE {q}
                      [] result = "conn" ->
                           LET k == grp.pkts[i].cid.owner
                               new == QuicSetup([q EXCEPT !.numConns = @ + 1], c, k, grp.path, key)
                           IN  {ReceivePackets(new, k, grp, i, fatal) : fatal \in BOOLEAN}
                    : result \in OnHttp3Accept(q, grp.pkts[i])}

\* process_packets: first by connection ID, then by the 4-tuple.  The result
\* is the set of outcomes.
ProcessPackets(q, c, grp) ==
    LET first == grp.pkts[1]
        k == first.cid.master
    IN  IF first.cid.at = c
        THEN IF k \in q.byId[c]
             THEN IF IsDestination(q, k, grp.path, first)
                  THEN {ReceivePackets(q, k, grp, 0, fatal) : fatal \in BOOLEAN}
                  ELSE IF MightBeClientGenerated(first) THEN ProcessInitial(q, c, grp) ELSE {q}
             ELSE IF MightBeClientGenerated(first) THEN ProcessInitial(q, c, grp)
             ELSE {Observed(q, ~Live(q, first.cid.owner), "reset")}
        ELSE IF MightBeClientGenerated(first) THEN ProcessInitial(q, c, grp)
        ELSE IF grp.ttl = 0 THEN {q}
        ELSE {ForwardQuicPackets(q, c, d, first.cid, grp) : d \in Contexts}

-----------------------------------------------------------------------------
(* Reading *)

\* One datagram of the loop of h2o_quic_read_socket: g is the group being
\* collected and the groups that are done; dgrams[i - 1] is the datagram
\* before this one, whatever became of it.  A finished group is processed with
\* the addresses and the TTL of the datagram that the index has just passed.
AddDatagram(dgrams, g, i) ==
    LET d == dgrams[i]
        prev == dgrams[i - 1]
        done(at) == Append(g.done, [pkts |-> g.pkts, path |-> at.path, ttl |-> at.ttl, hops |-> at.hops])
    IN  IF d.pkts = <<>> THEN g
        ELSE IF g.pkts = <<>> THEN [g EXCEPT !.pkts = d.pkts]
        ELSE IF d.path # prev.path \/ d.ttl # prev.ttl
             THEN [pkts |-> d.pkts, done |-> done(prev)]
        ELSE IF d.pkts[1].cid # Last(g.pkts).cid
             \* has_decoded: the first packet is kept, the ones coalesced with it are not
             THEN [pkts |-> SubSeq(d.pkts, 1, 1), done |-> done(d)]
        ELSE [g EXCEPT !.pkts = @ \o d.pkts]

\* h2o_quic_read_socket: the groups of a batch, in the order they are processed
Groups(dgrams) ==
    LET last == dgrams[Len(dgrams)]
        g == FoldLeft(LAMBDA a, i : AddDatagram(dgrams, a, i), [pkts |-> <<>>, done |-> <<>>],
                      [i \in DOMAIN dgrams |-> i])
    IN  IF g.pkts = <<>> THEN g.done
        ELSE Append(g.done, [pkts |-> g.pkts, path |-> last.path, ttl |-> last.ttl, hops |-> last.hops])

\* What h2o_quic_read_socket makes of a batch: the outcomes of its groups.
ReadSocket(q, c, dgrams) ==
    FoldLeft(LAMBDA qs, grp : UNION {ProcessPackets(x, c, grp) : x \in qs},
             {q}, Groups(dgrams))

\* What client k can send: packets with its own ID or, once there is a
\* connection, with the server's, on any path; two packets may be coalesced.
CidsOf(q, k) == {ClientCid(k, q.claim[k])} \cup
                (IF Live(q, k) THEN {ServerCid(q.conn[k].at, k)} ELSE {})
PacketsOf(q, k, path) ==
    {Packet("initial", cid, path) : cid \in CidsOf(q, k)} \cup
    {Packet("short", cid, path) : cid \in {x \in CidsOf(q, k) : x.server}}
DatagramsOf(q, path) ==
    {Datagram(<<p>>, path, DefaultTtl, 0) : p \in PacketsOf(q, path[1], path)} \cup
    {Datagram(<<>>, path, DefaultTtl, 0)}

\* on_read: datagrams of the listening socket
OnRead(c) ==
    \E n \in 1..BatchSize : \E paths \in [1..n -> Paths] :
        \E dgrams \in {f \in [1..n -> UNION {DatagramsOf(quic, p) : p \in Paths}] :
                          \A i \in 1..n : f[i].path = paths[i]} :
            quic' \in ReadSocket(quic, c, dgrams)

\* forwarded_quic_socket_on_read: rewrite_forwarded_quic_datagram takes the
\* path and the TTL from the header of a forwarded datagram
ForwardedQuicSocketOnRead(c) ==
    /\ quic.queue[c] # <<>>
    /\ quic' \in ReadSocket([quic EXCEPT !.queue[c] = Tail(@)], c, <<Head(quic.queue[c])>>)

\* on_timeout, h2o_quic_send: quicly_send says when a closing connection ends;
\* any other call sends what there is and schedules the next timer
OnTimeout(k) ==
    /\ quic.conn[k].timer
    /\ quic' = IF quic.conn[k].state = "closing" THEN QuicDisposeConn(quic, k) ELSE ScheduleTimer(quic, k)

\* The HTTP/3 layer closes the connection.
Close(k) ==
    /\ quic.conn[k].state = "connected"
    /\ quic' = QuicCloseConnection(quic, k)

\* run_loop on SIGTERM: the context stops accepting
StopAccepting(c) ==
    /\ quic.acceptor[c]
    /\ quic' = [quic EXCEPT !.acceptor[c] = FALSE]

Init == quic \in {InitQuic(claims) : claims \in Claims}

Next ==
    \/ \E c \in Contexts : OnRead(c) \/ ForwardedQuicSocketOnRead(c) \/ StopAccepting(c)
    \/ \E k \in Clients : OnTimeout(k) \/ Close(k)

Spec == Init /\ [][Next]_quic

-----------------------------------------------------------------------------
(* Properties *)

\* A connection is in the two maps of its context from its creation to its
\* disposal and in no other map, as h2o_quic_num_connections counts on, and
\* the process-wide count (num_quic_connections) is the number of them.
MapsAreExact ==
    /\ \A c \in Contexts :
          /\ quic.byId[c] = {k \in Clients : Live(quic, k) /\ quic.conn[k].at = c}
          /\ quic.accepting[c] = quic.byId[c]
    /\ quic.numConns = Cardinality({k \in Clients : Live(quic, k)})

\* A stateless reset is never sent for a connection that is alive on some
\* thread or node, whichever context its datagrams reach.
NoResetOfLiveConnection == "reset" \notin quic.wrong

\* The TTL is never decremented, so nothing but the addressing ends the
\* forwarding: a packet goes to its node and there to its thread, no further.
ForwardingEnds == quic.hops <= 2

\* A connection only gets packets that name it.
DeliveredToOwner == "owner" \notin quic.wrong

\* "process them in group of (4-tuple, dcid)": the path a packet is processed
\* with is the one it was received on.
DeliveredOnOwnPath == "path" \notin quic.wrong

\* No assertion of http3/common.c fails: connections are put into the maps
\* once.
NoAssertionFails == quic.failed = {}
=============================================================================
