---------------------------- MODULE ConnectionIds -----------------------------
(***************************************************************************)
(* The connection IDs of one direction: an issuer (local_cid.c) hands out  *)
(* CIDs in NEW_CONNECTION_ID frames, and a user (remote_cid.c and the      *)
(* paths of quicly.c) puts them on its paths and gives them back in        *)
(* RETIRE_CONNECTION_ID frames.  Packets are lost, delayed and reordered;  *)
(* a sentmap entry is acknowledged, declared lost, or discarded.           *)
(*                                                                         *)
(* The frames that one call of send_other_control_frames writes share a    *)
(* packet.  An error destroys the connection (lib/http3/common.c).         *)
(*                                                                         *)
(* local_cid.c, the connection IDs an endpoint issues: a set is a          *)
(* record: cids, the array of size _size, each entry with its state and    *)
(* sequence number; next, the sequence number of the next CID              *)
(* (plaintext.path_id); fifo, a reference: the pending sequence numbers in *)
(* the order in which they became pending.                                 *)
(*                                                                         *)
(* remote_cid.c, the connection IDs it has received from its peer: a set   *)
(* is a record: cids, the array, each entry with its state and sequence    *)
(* number (an unavailable entry is reserved for the CID of that number);   *)
(* largest, _largest_sequence_expected; retired, the queue of sequence     *)
(* numbers to be sent in RETIRE_CONNECTION_ID frames; error, what the last *)
(* call returned.  The CID and the stateless reset token are functions of  *)
(* the sequence number, as an honest peer chooses them.                    *)
(***************************************************************************)
EXTENDS Integers, Sequences, SequencesExt, FiniteSets

CONSTANTS LocalSize,  \* local_cid_size: the peer's limit, at most 4
          MaxPathId   \* QUICLY_MAX_PATH_ID: sequence numbers are below it

ASSUME LocalCidsAssumption ==
    LocalSize \in Nat \ {0} /\ MaxPathId \in Nat \ {0}

NoSeq == -1           \* UINT64_MAX

LocalEntry == [state : {"idle", "pending", "inflight", "delivered"},
               seq : -1 .. MaxPathId - 1]

PendingAt(c) == {i \in DOMAIN c : c[i].state = "pending"}

(* sequence numbers the peer may use or will be told of *)
Issued(set) == {set.cids[i].seq : i \in {j \in DOMAIN set.cids : set.cids[j].state # "idle"}}

Swap(c, i, j) == [c EXCEPT ![i] = c[j], ![j] = c[i]]

(* The entry where i ends up when it is swapped, again and again, with the  *)
(* pending entry after it.                                                  *)
BehindPending(c, i) ==
    CHOOSE k \in i .. Len(c) : i + 1 .. k \subseteq PendingAt(c) /\ k + 1 \notin PendingAt(c)

MovedBehindPending(c, i) ==
    LET k == BehindPending(c, i)
    IN  [j \in DOMAIN c |-> IF j \in i .. k - 1 THEN c[j + 1] ELSE IF j = k THEN c[i] ELSE c[j]]

(* do_mark_pending: swap with the first entry that is not pending *)
MarkPending(set, i) ==
    LET c    == [set.cids EXCEPT ![i].state = "pending"]
        rest == (1 .. i - 1) \ PendingAt(c)
        q    == c[i].seq
    IN  [set EXCEPT !.cids = IF rest = {} THEN c
                             ELSE Swap(c, i, CHOOSE j \in rest : \A k \in rest : j <= k),
                    !.fifo = IF Contains(@, q) THEN @ ELSE Append(@, q)]

(* do_mark_delivered *)
MarkDelivered(set, i) ==
    LET c == [set.cids EXCEPT ![i].state = "delivered"]
    IN  [set EXCEPT !.cids = IF i \in PendingAt(set.cids) THEN MovedBehindPending(c, i) ELSE c,
                    !.fifo = RemoveFirst(@, set.cids[i].seq)]

(* generate_cid for entry i, followed by do_mark_pending if it succeeds *)
Generate(set, i) ==
    IF set.next >= MaxPathId THEN set
    ELSE MarkPending([set EXCEPT !.cids[i].seq = set.next, !.next = @ + 1], i)

(* quicly_local_cid_init_set *)
FirstCid ==
    [cids |-> [i \in 1 .. LocalSize |-> IF i = 1 THEN [state |-> "delivered", seq |-> 0]
                                        ELSE [state |-> "idle", seq |-> NoSeq]],
     next |-> 1, fifo |-> << >>]

(* quicly_local_cid_set_size, when the 1-RTT write key is installed: the    *)
(* sets after entry i has been filled                                       *)
SetSize == LET fill[i \in 0 .. LocalSize - 1] == IF i = 0 THEN FirstCid ELSE Generate(fill[i - 1], i + 1)
           IN  fill

InitLocal == SetSize[LocalSize - 1]

(* Mutant: what remains pending stays behind what was sent. *)
OnSentInPlace(set, n) ==
    [set EXCEPT !.cids = [i \in DOMAIN @ |->
                            IF i <= n THEN [@[i] EXCEPT !.state = "inflight"] ELSE @[i]],
                !.fifo = SubSeq(@, n + 1, Len(@))]

(* The entries c after each of the swaps that move what remains pending to  *)
(* the front, when the first n entries were sent: up to the first entry     *)
(* that is not pending.                                                     *)
MovedToFront(c, n) ==
    LET move[i \in 0 .. LocalSize] ==
            IF i <= n THEN c
            ELSE IF n + 1 .. i \subseteq PendingAt(c) THEN Swap(move[i - 1], i, i - n)
            ELSE move[i - 1]
    IN  move

(* quicly_local_cid_on_sent *)
OnSent(set, n) ==
    LET marked == [i \in DOMAIN set.cids |->
                     IF i <= n THEN [set.cids[i] EXCEPT !.state = "inflight"] ELSE set.cids[i]]
    IN  [set EXCEPT !.cids = MovedToFront(marked, n)[LocalSize], !.fifo = SubSeq(@, n + 1, Len(@))]

(* find_index *)
IndicesOf(set, q) == {i \in DOMAIN set.cids : set.cids[i].seq = q}

(* quicly_local_cid_on_acked *)
OnAcked(set, q) ==
    IF IndicesOf(set, q) = {} THEN set
    ELSE MarkDelivered(set, CHOOSE i \in IndicesOf(set, q) : TRUE)

(* The sets after each of the NEW_CONNECTION_ID frames qs is acknowledged. *)
AckedInTurn(set, qs) ==
    LET after[k \in 0 .. Len(qs)] == IF k = 0 THEN set ELSE OnAcked(after[k - 1], qs[k])
    IN  after

(* Mutant: the loss of a NEW_CONNECTION_ID frame is ignored. *)
OnLostIgnored(set, q) == set

(* quicly_local_cid_on_lost *)
OnLost(set, q) ==
    LET i == CHOOSE j \in IndicesOf(set, q) : TRUE
    IN  IF IndicesOf(set, q) = {} THEN set
        ELSE IF set.cids[i].state = "delivered" THEN set
        ELSE MarkPending(set, i)

(* The sets after each of the NEW_CONNECTION_ID frames qs is declared lost. *)
LostInTurn(set, qs) ==
    LET after[k \in 0 .. Len(qs)] == IF k = 0 THEN set ELSE OnLost(after[k - 1], qs[k])
    IN  after

(* the only CID the peer has cannot be retired *)
BecomesEmpty(set, q) == Issued(set) = {q}

(* quicly_local_cid_retire, when it succeeds *)
Retire(set, q) ==
    LET i == CHOOSE j \in IndicesOf(set, q) : TRUE
        c == [set.cids EXCEPT ![i] = [state |-> "idle", seq |-> NoSeq]]
    IN  IF IndicesOf(set, q) = {} THEN set
        ELSE Generate([set EXCEPT !.cids = MovedBehindPending(c, i), !.fifo = RemoveFirst(@, q)],
                      BehindPending(c, i))

(* The pending entries come first, in the order they became pending.        *)
PendingIsFifo(set) ==
    /\ PendingAt(set.cids) = 1 .. Len(set.fifo)
    /\ \A i \in 1 .. Len(set.fifo) : set.cids[i].seq = set.fifo[i]

-------------------------------------------------------------------------------
(* remote_cid.c *)

CONSTANTS Limit,          \* QUICLY_LOCAL_ACTIVE_CONNECTION_ID_LIMIT
          RetireCapacity  \* of the queue: twice the limit in remote_cid.h

ASSUME RemoteCidsAssumption == Limit \in Nat \ {0} /\ RetireCapacity \in Nat \ {0}

RemoteStates == {"unavailable", "in_use", "available"}

(* quicly_remote_cid_init_set *)
InitRemote ==
    [cids    |-> [i \in 1 .. Limit |-> [state |-> IF i = 1 THEN "in_use" ELSE "unavailable",
                                        seq |-> i - 1]],
     largest |-> Limit - 1, retired |-> << >>, error |-> "none"]

EntriesOf(set, q) == {i \in DOMAIN set.cids : set.cids[i].seq = q}

(* Mutant: the capacity of the queue is not checked. *)
PushRetiredUnbounded(set, q) ==
    IF Contains(set.retired, q) THEN set ELSE [set EXCEPT !.retired = Append(@, q)]

(* quicly_remote_cid_push_retired *)
PushRetired(set, q) ==
    IF Contains(set.retired, q) THEN set
    ELSE IF Len(set.retired) >= RetireCapacity THEN [set EXCEPT !.error = "exhausted"]
    ELSE [set EXCEPT !.retired = Append(@, q)]

(* Mutant: the entry is reserved without expecting one more CID. *)
UnregisterAtKeepsLimit(set, i) ==
    PushRetired([set EXCEPT !.cids[i] = [state |-> "unavailable", seq |-> set.largest]],
                set.cids[i].seq)

(* do_unregister: entry i is reserved for the next CID *)
UnregisterAt(set, i) ==
    PushRetired([set EXCEPT !.cids[i] = [state |-> "unavailable", seq |-> set.largest + 1],
                            !.largest = @ + 1],
                set.cids[i].seq)

(* quicly_remote_cid_unregister *)
Unregister(set, q) == UnregisterAt(set, CHOOSE i \in EntriesOf(set, q) : TRUE)

(* unregister_prior_to: the entries in turn, each until its number is not   *)
(* below prior, or until a call fails                                       *)
PriorTo(set, prior) == {i \in DOMAIN set.cids : set.cids[i].seq < prior}

UnregisterFirst(set, prior) ==
    IF set.error # "none" \/ PriorTo(set, prior) = {} THEN set
    ELSE UnregisterAt(set, CHOOSE i \in PriorTo(set, prior) : \A j \in PriorTo(set, prior) : i <= j)

UnregisterInTurn(set, prior) ==
    LET after[n \in 0 .. prior] == IF n = 0 THEN set ELSE UnregisterFirst(after[n - 1], prior)
    IN  after

UnregisterPriorTo(set, prior) == UnregisterInTurn(set, prior)[prior]

(* do_register: an entry that was reserved for the CID takes it; a CID that *)
(* is present already, or was retired already, is ignored                   *)
DoRegister(set, q) ==
    IF set.largest < q THEN [set EXCEPT !.error = "limit"]
    ELSE [set EXCEPT !.cids = [i \in DOMAIN @ |->
             IF @[i].seq = q /\ @[i].state = "unavailable"
               THEN [@[i] EXCEPT !.state = "available"] ELSE @[i]]]

(* quicly_remote_cid_register: nothing but the error is kept on failure *)
Register(set, q, prior) ==
    LET freed == UnregisterPriorTo(set, prior)
        new   == IF freed.error = "none" THEN DoRegister(freed, q) ELSE freed
    IN  IF new.error = "none" THEN new ELSE [set EXCEPT !.error = new.error]

(* quicly_remote_cid_shift_retired: the loop runs over the count entries    *)
(* removed, not over those that remain                                      *)
ShiftRetired(set, count) ==
    [set EXCEPT !.retired = [i \in 1 .. Len(@) - count |->
                               IF i <= count THEN @[i + count] ELSE @[i]]]

-------------------------------------------------------------------------------
(* The two endpoints, their paths and their packets. *)

CONSTANTS NumPaths,      \* PTLS_ELEMENTSOF(conn->paths)
          MaxPackets,    \* bound: packets that exist at one time
          RotateAt,      \* CIDs from this number on are sent with
          RotateBelow,   \* this retire_prior_to; quicly itself sends 0
          PartialNew,    \* a packet may be full before all new CIDs are in it
          PartialRetire  \* a packet may be full before all retirements are in it

ASSUME ConnectionIdsAssumption ==
    /\ NumPaths \in Nat \ {0} /\ MaxPackets \in Nat
    /\ RotateAt \in Nat /\ RotateBelow \in 0 .. RotateAt
    /\ PartialNew \in BOOLEAN /\ PartialRetire \in BOOLEAN
    /\ LocalSize <= Limit

VARIABLES local,    \* the issuer's quicly_local_cid_set_t
          remote,   \* the user's quicly_remote_cid_set_t
          paths,    \* the user's conn->paths
          packets,  \* in the order of packet numbers
          closed    \* none, or why the connection has been destroyed

vars == <<local, remote, paths, packets, closed>>

NoPath == [dcid |-> NoSeq, phase |-> "none"]

(* phase: a path is new until its first PATH_CHALLENGE is sent, then probed *)
(* until a PATH_RESPONSE validates it.                                      *)
Path == [dcid : -1 .. MaxPathId - 1, phase : {"none", "new", "probed", "valid"}]

Packet == [kind : {"new", "retire"}, seqs : Seq(0 .. MaxPathId - 1),
           map : {"inflight", "lost", "gone"}, net : {"transit", "received", "none"}]

-------------------------------------------------------------------------------
(* Paths. *)

Available(r) == {i \in DOMAIN r.cids : r.cids[i].state = "available"}

(* dissociate_cid *)
Dissociated(ps, Q) ==
    [p \in DOMAIN ps |-> IF ps[p].dcid \in Q THEN [ps[p] EXCEPT !.dcid = NoSeq] ELSE ps[p]]

(* Mutant: the largest sequence number is taken, whether it is free or not. *)
SetupPathDcidAny(p, phase) ==
    LET i == CHOOSE j \in DOMAIN remote.cids :
               \A k \in DOMAIN remote.cids :
                  remote.cids[k].state = "unavailable" \/ remote.cids[j].seq >= remote.cids[k].seq
    IN  /\ remote' = [remote EXCEPT !.cids[i].state = "in_use"]
        /\ paths' = [paths EXCEPT ![p] = [dcid |-> remote.cids[i].seq, phase |-> phase]]

(* setup_path_dcid: the available CID with the smallest sequence number *)
SetupPathDcid(p, phase) ==
    LET i == CHOOSE j \in Available(remote) :
               \A k \in Available(remote) : remote.cids[j].seq <= remote.cids[k].seq
    IN  /\ remote' = [remote EXCEPT !.cids[i].state = "in_use"]
        /\ paths' = [paths EXCEPT ![p] = [dcid |-> remote.cids[i].seq, phase |-> phase]]

(* Mutant: a deleted path keeps its CID. *)
DeletedPathKeepsCid(r, path) == r

(* do_delete_path, on the CIDs: the CID of the path is retired *)
DeletedPathCids(r, path) ==
    IF path.dcid = NoSeq THEN r ELSE Unregister(r, path.dcid)

(* open_path for a packet from an address that is not known: an unused slot, *)
(* or else one that has completed validation (the least recently used one)  *)
OpenPath(p) ==
    /\ closed = "none" /\ p # 0
    /\ \/ paths[p].phase = "none"
       \/ paths[p].phase = "valid" /\ \A q \in DOMAIN paths : paths[q].phase # "none"
    /\ remote' = DeletedPathCids(remote, paths[p])
    /\ closed' = remote'.error
    /\ paths' = [Dissociated(paths, {paths[p].dcid}) EXCEPT
                    ![p] = IF closed' = "none" THEN [dcid |-> NoSeq, phase |-> "new"] ELSE NoPath]
    /\ UNCHANGED <<local, packets>>

(* quicly_send on the default path, when it has no CID *)
SetupDefaultPath ==
    /\ closed = "none" /\ paths[0].dcid = NoSeq
    /\ Available(remote) # {}
    /\ SetupPathDcid(0, paths[0].phase)
    /\ UNCHANGED <<local, packets, closed>>

(* quicly_send on another path: a PATH_CHALLENGE, or a PATH_RESPONSE, is    *)
(* sent; without a CID the path is discarded.  The default path gets its    *)
(* CID first.                                                               *)
ProbePath(p) ==
    /\ closed = "none" /\ p # 0 /\ paths[0].dcid # NoSeq
    /\ paths[p].phase # "none"
    /\ LET phase == IF paths[p].phase = "valid" THEN "valid" ELSE "probed"
       IN  \/ /\ paths[p].dcid # NoSeq
              /\ paths' = [paths EXCEPT ![p].phase = phase] /\ UNCHANGED remote
           \/ paths[p].dcid = NoSeq /\ Available(remote) # {} /\ SetupPathDcid(p, phase)
           \/ /\ paths[p].dcid = NoSeq /\ Available(remote) = {}
              /\ paths' = [paths EXCEPT ![p] = NoPath] /\ UNCHANGED remote
    /\ UNCHANGED <<local, packets, closed>>

(* quicly_send: more than max_probe_packets PATH_CHALLENGEs were sent *)
GiveUpPath(p) ==
    /\ closed = "none" /\ p # 0 /\ paths[0].dcid # NoSeq /\ paths[p].phase = "probed"
    /\ remote' = DeletedPathCids(remote, paths[p])
    /\ closed' = remote'.error
    /\ paths' = [Dissociated(paths, {paths[p].dcid}) EXCEPT ![p] = NoPath]
    /\ UNCHANGED <<local, packets>>

(* Mutant: any response is accepted, even before a challenge was sent. *)
ValidatePathUnprobed(p) ==
    /\ closed = "none" /\ p # 0 /\ paths[p].phase \in {"new", "probed"}
    /\ paths' = [paths EXCEPT ![p].phase = "valid"]
    /\ UNCHANGED <<local, remote, packets, closed>>

(* handle_path_response_frame: the response matches the challenge *)
ValidatePath(p) ==
    /\ closed = "none" /\ p # 0 /\ paths[p].phase = "probed"
    /\ paths' = [paths EXCEPT ![p].phase = "valid"]
    /\ UNCHANGED <<local, remote, packets, closed>>

(* Mutant: a lost RETIRE_CONNECTION_ID frame is not queued again. *)
RetirementsLostIgnored(r, qs) == r

(* the set after the RETIRE_CONNECTION_ID frames qs have been declared lost: *)
(* on_ack_retire_connection_id for each, up to the first error              *)
PushedInTurn(r, qs) ==
    LET after[k \in 0 .. Len(qs)] ==
            IF k = 0 THEN r
            ELSE IF after[k - 1].error = "none" THEN PushRetired(after[k - 1], qs[k])
            ELSE after[k - 1]
    IN  after

RetirementsLost(r, qs) == PushedInTurn(r, qs)[Len(qs)]

(* the sets after each packet of ps, when all those in flight are lost *)
IsRetireInFlight(k) == k.kind = "retire" /\ k.map = "inflight"

AllLostInTurn(r, ps) ==
    LET after[i \in 0 .. Len(ps)] ==
            IF i = 0 THEN r
            ELSE IF IsRetireInFlight(ps[i]) /\ after[i - 1].error = "none"
              THEN RetirementsLost(after[i - 1], ps[i].seqs)
            ELSE after[i - 1]
    IN  after

(* promote_path, when a non-probing packet arrives on a validated path: all *)
(* packets in flight are declared lost (_PTO), the paths are exchanged and  *)
(* the old default path is deleted                                          *)
PromotePath(p) ==
    /\ closed = "none" /\ p # 0 /\ paths[p].phase = "valid"
    /\ LET lost == AllLostInTurn(remote, packets)[Len(packets)]
       IN  remote' = IF lost.error = "none" THEN DeletedPathCids(lost, paths[0]) ELSE lost
    /\ packets' = [i \in DOMAIN packets |->
                     IF IsRetireInFlight(packets[i]) THEN [packets[i] EXCEPT !.map = "lost"]
                     ELSE packets[i]]
    /\ closed' = remote'.error
    /\ paths' = [Dissociated(paths, {paths[0].dcid}) EXCEPT ![0] = paths[p], ![p] = NoPath]
    /\ UNCHANGED local

-------------------------------------------------------------------------------
(* Frames. *)

(* The packets when packet i becomes k: a settled packet is forgotten. *)
Changed(ps, i, k) ==
    IF k.map = "gone" /\ k.net # "transit" THEN RemoveAt(ps, i) ELSE [ps EXCEPT ![i] = k]

(* the retire_prior_to of the frame for CID q.  send_new_connection_id uses *)
(* 0; a peer that is not quicly may ask for its older CIDs to be retired.   *)
RetirePriorTo(q) == IF q >= RotateAt THEN RotateBelow ELSE 0

SendPacket(kind, seqs) ==
    /\ Len(packets) < MaxPackets
    /\ packets' = Append(packets, [kind |-> kind, seqs |-> seqs,
                                   map |-> "inflight", net |-> "transit"])

(* send_other_control_frames, NEW_CONNECTION_ID: the first n pending CIDs *)
SendNew(n) ==
    /\ closed = "none"
    /\ LET pending == Cardinality(PendingAt(local.cids))
           seqs    == [i \in 1 .. n |-> local.cids[i].seq]
       IN  /\ IF PartialNew THEN n <= pending ELSE n = pending
           /\ SendPacket("new", seqs)
    /\ local' = OnSent(local, n)
    /\ UNCHANGED <<remote, paths, closed>>

(* send_other_control_frames, RETIRE_CONNECTION_ID: the first n of the queue *)
SendRetire(n) ==
    /\ closed = "none" /\ paths[0].dcid # NoSeq
    /\ IF PartialRetire THEN n <= Len(remote.retired) ELSE n = Len(remote.retired)
    /\ SendPacket("retire", SubSeq(remote.retired, 1, n))
    /\ remote' = ShiftRetired(remote, n)
    /\ UNCHANGED <<local, paths, closed>>

Lose(i) ==
    /\ closed = "none" /\ packets[i].net = "transit"
    /\ packets' = Changed(packets, i, [packets[i] EXCEPT !.net = "none"])
    /\ UNCHANGED <<local, remote, paths, closed>>

(* The sets after each of the NEW_CONNECTION_ID frames qs, up to the first  *)
(* error.                                                                   *)
RegisteredInTurn(r, qs) ==
    LET after[k \in 0 .. Len(qs)] ==
            IF k = 0 THEN r
            ELSE IF after[k - 1].error = "none" THEN Register(after[k - 1], qs[k], RetirePriorTo(qs[k]))
            ELSE after[k - 1]
    IN  after

(* handle_new_connection_id_frame for each frame of the packet *)
ReceiveNew(i) ==
    /\ closed = "none" /\ packets[i].net = "transit" /\ packets[i].kind = "new"
    /\ LET new == RegisteredInTurn(remote, packets[i].seqs)[Len(packets[i].seqs)]
       IN  /\ remote' = new /\ closed' = new.error
           /\ paths' = Dissociated(paths, ToSet(SubSeq(new.retired, Len(remote.retired) + 1,
                                                       Len(new.retired))))
    /\ packets' = Changed(packets, i, [packets[i] EXCEPT !.net = "received"])
    /\ UNCHANGED local

(* handle_retire_connection_id_frame: the errors *)
RetireError(l, q) ==
    IF q >= l.next \/ (q \in Issued(l) /\ BecomesEmpty(l, q)) THEN "violation" ELSE "none"

(* The sets, with the error, after each of the RETIRE_CONNECTION_ID frames. *)
RetiredInTurn(l, qs) ==
    LET step(a, q) == IF a.error # "none" THEN a
                      ELSE IF RetireError(a.set, q) # "none"
                        THEN [set |-> a.set, error |-> RetireError(a.set, q)]
                      ELSE [set |-> Retire(a.set, q), error |-> "none"]
        after[k \in 0 .. Len(qs)] == IF k = 0 THEN [set |-> l, error |-> "none"]
                                     ELSE step(after[k - 1], qs[k])
    IN  after

(* handle_retire_connection_id_frame for each frame of the packet *)
ReceiveRetire(i) ==
    /\ closed = "none" /\ packets[i].net = "transit" /\ packets[i].kind = "retire"
    /\ LET after == RetiredInTurn(local, packets[i].seqs)[Len(packets[i].seqs)]
       IN  local' = after.set /\ closed' = after.error
    /\ packets' = Changed(packets, i, [packets[i] EXCEPT !.net = "received"])
    /\ UNCHANGED <<remote, paths>>

(* An ACK arrives: on_ack_new_connection_id, on_ack_retire_connection_id *)
OnAck(i) ==
    /\ closed = "none" /\ packets[i].net = "received" /\ packets[i].map # "gone"
    /\ local' = IF packets[i].kind = "new" THEN AckedInTurn(local, packets[i].seqs)[Len(packets[i].seqs)] ELSE local
    /\ packets' = Changed(packets, i, [packets[i] EXCEPT !.map = "gone"])
    /\ UNCHANGED <<remote, paths, closed>>

(* A packet in flight is declared lost; its sentmap entry stays for a while. *)
DeclareLost(i) ==
    /\ closed = "none" /\ packets[i].map = "inflight"
    /\ local' = IF packets[i].kind = "new" THEN LostInTurn(local, packets[i].seqs)[Len(packets[i].seqs)] ELSE local
    /\ remote' = IF packets[i].kind = "retire" THEN RetirementsLost(remote, packets[i].seqs) ELSE remote
    /\ closed' = remote'.error
    /\ packets' = [packets EXCEPT ![i].map = "lost"]
    /\ UNCHANGED paths

(* The sentmap entry of a packet that was declared lost is discarded. *)
Expire(i) ==
    /\ closed = "none" /\ packets[i].map = "lost"
    /\ packets' = Changed(packets, i, [packets[i] EXCEPT !.map = "gone"])
    /\ UNCHANGED <<local, remote, paths, closed>>

-------------------------------------------------------------------------------
Init ==
    /\ local = InitLocal /\ remote = InitRemote
    /\ paths = [p \in 0 .. NumPaths - 1 |->
                  IF p = 0 THEN [dcid |-> 0, phase |-> "valid"] ELSE NoPath]
    /\ packets = << >> /\ closed = "none"

PathNext ==
    \/ SetupDefaultPath
    \/ \E p \in DOMAIN paths : OpenPath(p)
    \/ \E p \in DOMAIN paths : ProbePath(p)
    \/ \E p \in DOMAIN paths : GiveUpPath(p)
    \/ \E p \in DOMAIN paths : ValidatePath(p)
    \/ \E p \in DOMAIN paths : PromotePath(p)

FrameNext ==
    \/ \E n \in 1 .. LocalSize : SendNew(n)
    \/ \E n \in 1 .. RetireCapacity : SendRetire(n)
    \/ \E i \in DOMAIN packets : Lose(i)
    \/ \E i \in DOMAIN packets : ReceiveNew(i)
    \/ \E i \in DOMAIN packets : ReceiveRetire(i)
    \/ \E i \in DOMAIN packets : OnAck(i)
    \/ \E i \in DOMAIN packets : DeclareLost(i)
    \/ \E i \in DOMAIN packets : Expire(i)

Next == PathNext \/ FrameNext

Spec == Init /\ [][Next]_vars

-------------------------------------------------------------------------------
(* Every variable has its type. *)
TypeOK ==
    /\ local.cids \in [1 .. LocalSize -> LocalEntry] /\ local.next \in 1 .. MaxPathId
    /\ \A i \in 1 .. Limit : remote.cids[i].state \in RemoteStates
                             /\ remote.cids[i].seq \in 0 .. remote.largest
    /\ Len(remote.retired) <= RetireCapacity
    /\ paths \in [0 .. NumPaths - 1 -> Path]
    /\ packets \in Seq(Packet) /\ Len(packets) <= MaxPackets
    /\ closed \in {"none", "exhausted", "limit", "violation"}

(* NEW_CONNECTION_ID frames are sent in the order in which they became      *)
(* necessary, whatever mix of losses, late ACKs and retirements moves the   *)
(* entries of the array (local_cid.h:72-74).                                *)
NewCidsAreFifo == PendingIsFifo(local)

(* Two quicly endpoints never accuse each other: the issuer never hands out *)
(* more CIDs than the user expects, nor does the user retire a CID that was *)
(* not issued or the only one it has (remote_cid.c:56, quicly.c:6955,       *)
(* local_cid.c:206).                                                        *)
NoFalseAccusation == closed \notin {"limit", "violation"}

(* The CID of every path is one that the issuer still answers to, is marked *)
(* in use, and is not shared: get_dcid finds it (quicly.c:3785).            *)
PathCidsAreLive ==
    closed = "none" => \A p \in DOMAIN paths : paths[p].dcid # NoSeq =>
        /\ paths[p].dcid \in Issued(local)
        /\ \E i \in EntriesOf(remote, paths[p].dcid) : remote.cids[i].state = "in_use"
        /\ \A q \in DOMAIN paths : q # p => paths[q].dcid # paths[p].dcid

(* A CID in use belongs to a path: none is lost when paths come and go. *)
NoCidLeak ==
    closed = "none" => \A i \in DOMAIN remote.cids : remote.cids[i].state = "in_use" =>
        \E p \in DOMAIN paths : paths[p].dcid = remote.cids[i].seq

(* The user's retired CIDs that the issuer still holds are queued, or in a  *)
(* packet whose loss would queue them: every retirement gets there, and the *)
(* issuer replaces the CID (remote_cid.h:88, "queue containing CID sequence *)
(* numbers that should be sent using RETIRE_CONNECTION_ID frames").         *)
RetirementNotForgotten ==
    closed = "none" => \A q \in Issued(local) : q <= remote.largest =>
        \/ EntriesOf(remote, q) # {}
        \/ Contains(remote.retired, q)
        \/ \E i \in DOMAIN packets : /\ packets[i].kind = "retire" /\ packets[i].map = "inflight"
                                     /\ Contains(packets[i].seqs, q)

(* Every CID the issuer holds that has not been received by the user is     *)
(* pending or in flight.                                                    *)
NewCidNotForgotten ==
    closed = "none" => \A i \in DOMAIN local.cids :
        local.cids[i].state = "inflight" =>
            \E k \in DOMAIN packets : /\ packets[k].kind = "new" /\ packets[k].map = "inflight"
                                      /\ Contains(packets[k].seqs, local.cids[i].seq)

(* quicly_send finds a CID for the default path: "doing so is guaranteed to *)
(* succeed as the protocol guarantees that there will always be at least    *)
(* one non-retired CID available" (quicly.c:5872).                          *)
DefaultPathFindsCid ==
    closed = "none" /\ paths[0].dcid = NoSeq => Available(remote) # {}
===============================================================================
