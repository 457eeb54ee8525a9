-------------------------------- MODULE Qpack --------------------------------
(***************************************************************************)
(* Header compression of HTTP/3 (lib/http3/qpack.c): an encoder, a         *)
(* decoder, the ordered streams of instructions between them, and header   *)
(* blocks that overtake the instructions they depend on.                   *)
(*                                                                         *)
(* In a scene of the mode "h2o" the encoder is that of this code; in one   *)
(* of the mode "peer" it is any encoder that follows RFC 9204, which also  *)
(* evicts, duplicates and resizes.  A header is a name and a value; a      *)
(* value of LongValues is 8 bytes or more.  The size of an entry is in     *)
(* units of its overhead.  `ins` are the entries inserted so far, by       *)
(* absolute index, the live ones being those from `lo` on.                 *)
(***************************************************************************)
EXTENDS Integers, Sequences, FiniteSets, SequencesExt

CONSTANTS
    Streams,        \* streams of the header blocks, all of them below 256
    LongValues,
    StaticNames,    \* names of the static table
    StaticHeaders,  \* <<name, value>> of the static table
    Repeated,       \* names whose token is likely_to_repeat
    MaxInserts,     \* bound on the insertions of the peer
    MaxUnread,      \* bound on the peer's instructions not yet read
    MaxInflight,    \* bound on the header blocks not acknowledged
    Scenes

VARIABLE qp

-----------------------------------------------------------------------------

Asserted(c, ok, name) == IF ok THEN c ELSE [c EXCEPT !.failed = @ \cup {name}]
Failed(c, name) == [c EXCEPT !.err = name]
Name(h) == h[1]
Value(h) == h[2]
Size(h) == IF Value(h) \in LongValues THEN 2 ELSE 1
Bytes(entries) == FoldSeq(LAMBDA h, sum : sum + Size(h), 0, entries)

-----------------------------------------------------------------------------
(* The header table *)

\* header_table_init
NewTable(max) == [entries |-> <<>>, base |-> 1, bytes |-> 0, max |-> max]
\* qpack_table_total_inserts
TotalInserts(t) == t.base + Len(t.entries)

\* header_table_evict
RECURSIVE Evict(_, _)
\* a bug: the entry that would just fit is evicted too
RECURSIVE EvictOneMore(_, _)
EvictOneMore(t, delta) ==
    IF t.entries = <<>> \/ t.bytes + delta < t.max THEN t
    ELSE EvictOneMore([t EXCEPT !.bytes = @ - Size(Head(t.entries)), !.entries = Tail(@), !.base = @ + 1], delta)
Evict(t, delta) ==
    IF t.entries = <<>> \/ t.bytes + delta <= t.max THEN t
    ELSE Evict([t EXCEPT !.bytes = @ - Size(Head(t.entries)), !.entries = Tail(@), !.base = @ + 1], delta)
\* header_table_insert
TableAppend(t, h) == [t EXCEPT !.entries = Append(@, h), !.bytes = @ + Size(h)]
TableInsert(t, h) == TableAppend(Evict(t, Size(h)), h)

\* resolve_dynamic_abs
Resolves(t, index) == index >= t.base /\ index - t.base < Len(t.entries)
ResolveDynamicAbs(t, index) == t.entries[index - t.base + 1]

-----------------------------------------------------------------------------
(* State *)

\* h2o_qpack_create_decoder, h2o_qpack_create_encoder
NewDecoder(size, blocked) ==
    [table |-> NewTable(size), size |-> size, count |-> 0, total |-> 0, maxBlocked |-> blocked, blocked |-> <<>>, unblocked |-> 0]
NewEncoder(size, blocked) == [table |-> NewTable(size), known |-> 0, maxBlocked |-> blocked, numBlocked |-> 0, inflight |-> <<>>]
NewQpack(scene) ==
    [scene |-> scene, enc |-> NewEncoder(scene.size, scene.maxBlocked), dec |-> NewDecoder(scene.size, scene.maxBlocked),
     ins |-> <<>>, lo |-> 1, estream |-> <<>>, dstream |-> <<>>, blocks |-> {}, waiting |-> {}, decoded |-> {},
     err |-> "none", failed |-> {}]

-----------------------------------------------------------------------------
(* The encoder *)

\* lookup_dynamic: the latest entry that matches, else the latest of the name, else -1
LatestOf(S) == IF S = {} THEN -1 ELSE CHOOSE i \in S : \A j \in S : j <= i
Matching(t, last, P(_)) == LatestOf({i \in t.base .. last : P(ResolveDynamicAbs(t, i))})
LookupExact(t, h, last) == Matching(t, last, LAMBDA e : e = h)
LookupName(t, h, last) == Matching(t, last, LAMBDA e : Name(e) = Name(h))
LastIndex(e, ackedOnly) == IF ackedOnly THEN e.known ELSE TotalInserts(e.table) - 1

\* prepare_flatten
NewFlatten(e) ==
    [enc |-> e, usesStream |-> e.numBlocked < e.maxBlocked, base |-> TotalInserts(e.table) - 1, ref |-> 0, reps |-> <<>>, instr |-> <<>>]

Referred(x, index) == IF index > x.ref THEN [x EXCEPT !.ref = index] ELSE x
Relative(x, index) == IF index <= x.base THEN [post |-> FALSE, off |-> x.base - index] ELSE [post |-> TRUE, off |-> index - x.base - 1]
Emit(x, kind, at, h) == [x EXCEPT !.reps = Append(@, [kind |-> kind, at |-> at, h |-> h])]
Nowhere == [post |-> FALSE, off |-> 0]
\* flatten_static_indexed, flatten_static_nameref, flatten_without_nameref
FlattenLiteral(x, h) == Emit(x, "literal", Nowhere, h)
\* flatten_dynamic_indexed, flatten_dynamic_nameref
FlattenDynamicIndexed(x, index, h) == Emit(Referred(x, index), "indexed", Relative(x, index), <<>>)
FlattenDynamicNameref(x, index, h) == Emit(Referred(x, index), "nameref", Relative(x, index), <<"", Value(h)>>)

\* emit_insert_with_nameref, emit_insert_without_nameref: the index of a dynamic entry is the absolute one
InsertInstruction(h, isStatic, dynamicIndex) ==
    IF isStatic \/ dynamicIndex < 0 THEN [kind |-> "insert", index |-> 0, h |-> h]
    ELSE [kind |-> "insert nameref", index |-> dynamicIndex, h |-> <<"", Value(h)>>]
WantsInsert(x, h, isStatic, dynamicIndex) ==
    /\ Name(h) \in Repeated /\ x.usesStream
    /\ (~isStatic /\ dynamicIndex < 0) \/ Value(h) \in LongValues
    /\ Size(h) <= x.enc.table.max - x.enc.table.bytes
Inserted(x, h, instruction) == [x EXCEPT !.instr = Append(@, instruction), !.enc.table = TableInsert(@, h)]
FlattenInserted(x, h) == FlattenDynamicIndexed(x, TotalInserts(x.enc.table) - 1, h)

\* do_flatten_header
FlattenByName(x, h, isStatic, dynamicIndex) ==
    IF WantsInsert(x, h, isStatic, dynamicIndex)
    THEN FlattenInserted(Inserted(x, h, InsertInstruction(h, isStatic, dynamicIndex)), h)
    ELSE IF ~isStatic /\ dynamicIndex >= 0 THEN FlattenDynamicNameref(x, dynamicIndex, h)
    ELSE FlattenLiteral(x, h)
FlattenLookedUp(x, h, exact, last) ==
    IF exact >= 0 THEN FlattenDynamicIndexed(x, exact, h)
    ELSE FlattenByName(x, h, Name(h) \in StaticNames, LookupName(x.enc.table, h, last))
DoFlattenHeader(x, h) ==
    IF h \in StaticHeaders THEN FlattenLiteral(x, h)
    ELSE FlattenLookedUp(x, h, LookupExact(x.enc.table, h, LastIndex(x.enc, ~x.usesStream)), LastIndex(x.enc, ~x.usesStream))
RECURSIVE FlattenHeaders(_, _)
FlattenHeaders(x, list) == IF list = <<>> THEN x ELSE FlattenHeaders(DoFlattenHeader(x, Head(list)), Tail(list))

\* finalize_flatten
Blocking(x) == x.ref > x.enc.known
FinalRef(x) == IF x.ref = 0 \/ x.ref > x.enc.known THEN x.ref ELSE x.enc.known
Prefix(ref, base) ==
    [ric |-> IF ref = 0 THEN 0 ELSE ref + 1, sign |-> ref > base, delta |-> IF ref <= base THEN base - ref ELSE ref - base - 1]
Tracked(e, id, ref, blocking) ==
    [e EXCEPT !.numBlocked = IF blocking THEN @ + 1 ELSE @, !.inflight = Append(@, [id |-> id, ref |-> ref, blocking |-> blocking])]
FinalizeFlatten(c, x, id, list) ==
    [Asserted(c, Blocking(x) => x.enc.numBlocked < x.enc.maxBlocked, "num_blocked") EXCEPT
        !.enc = IF x.ref = 0 THEN x.enc ELSE Tracked(x.enc, id, FinalRef(x), Blocking(x)),
        !.ins = x.enc.table.entries, !.estream = @ \o x.instr,
        !.blocks = @ \cup {[id |-> id, prefix |-> Prefix(FinalRef(x), IF x.ref = 0 THEN 0 ELSE x.base), reps |-> x.reps, list |-> list]}]

\* evict_inflight_by_index: memmove is given a number of entries where it takes a number of
\* bytes, which moves the low bytes of one stream_id only
EvictInflight(e, i) ==
    [e EXCEPT !.numBlocked = IF e.inflight[i].blocking THEN (@ - 1) % 65536 ELSE @,
              !.inflight = SubSeq(IF i < Len(@) THEN [@ EXCEPT ![i].id = e.inflight[i + 1].id] ELSE @, 1, Len(@) - 1)]
IndexOf(e, id) == {i \in DOMAIN e.inflight : e.inflight[i].id = id}
First(S) == CHOOSE i \in S : \A j \in S : i <= j
\* handle_header_ack
HandleHeaderAck(c, id) ==
    IF IndexOf(c.enc, id) = {} THEN Failed(c, "Header Acknowledgement: invalid stream id")
    ELSE LET i == First(IndexOf(c.enc, id))
             ref == c.enc.inflight[i].ref
         IN  [c EXCEPT !.enc = EvictInflight([@ EXCEPT !.known = IF @ < ref THEN ref ELSE @], i)]
\* handle_stream_cancellation
RECURSIVE CancelFrom(_, _, _)
CancelFrom(e, id, i) ==
    IF i > Len(e.inflight) THEN e
    ELSE IF e.inflight[i].id = id THEN CancelFrom(EvictInflight(e, i), id, i) ELSE CancelFrom(e, id, i + 1)
\* handle_table_state_synchronize
HandleTableStateSynchronize(c, n) ==
    IF n = 0 \/ c.enc.known + n >= TotalInserts(c.enc.table) THEN Failed(c, "Table State Synchronize: invalid argument")
    ELSE [c EXCEPT !.enc.known = @ + n]

-----------------------------------------------------------------------------
(* The decoder *)

\* decode_value_and_insert, decoder_insert
DecoderInsert(c, h) ==
    [c EXCEPT !.dec.count = @ + 1, !.dec.total = @ + 1, !.dec.table = TableInsert(@, h)]
DecodeValueAndInsert(c, h) == IF Size(h) > c.dec.table.max THEN Failed(c, "header exceeds table size") ELSE DecoderInsert(c, h)
\* insert_with_name_reference, for an entry of the dynamic table
InsertWithNameReference(c, index, value) ==
    LET abs == TotalInserts(c.dec.table) - 1 - index
    IN  IF ~Resolves(c.dec.table, abs) THEN Failed(c, "invalid dynamic reference")
        ELSE DecodeValueAndInsert(c, <<Name(ResolveDynamicAbs(c.dec.table, abs)), value>>)
\* duplicate: the entry is appended after the eviction
Duplicate(c, index) ==
    IF index >= Len(c.dec.table.entries) THEN Failed(c, "invalid duplicate")
    ELSE DecoderInsert(c, c.dec.table.entries[Len(c.dec.table.entries) - index])
\* dynamic_table_size_update
DynamicTableSizeUpdate(c, max) ==
    IF max > c.dec.size THEN Failed(c, "invalid max size") ELSE [c EXCEPT !.dec.table = Evict([@ EXCEPT !.max = max], 0)]
HandleInstruction(c, i) ==
    CASE i.kind = "insert" -> DecodeValueAndInsert(c, i.h)
      [] i.kind = "insert nameref" -> InsertWithNameReference(c, i.index, Value(i.h))
      [] i.kind = "duplicate" -> Duplicate(c, i.index)
      [] i.kind = "size" -> DynamicTableSizeUpdate(c, i.index)

\* h2o_qpack_decoder_handle_input: first the streams reported last time are dropped; the list is
\* moved from the number of those that remain, not of those to drop.  What lies beyond the list
\* is whatever the memory holds: the scene's garbage.
PastTheEnd(c, n) == [i \in 1 .. n |-> [id |-> 0, ref |-> c.scene.garbage]]
DropUnblocked(c) ==
    LET remaining == Len(c.dec.blocked) - c.dec.unblocked
    IN  IF c.dec.unblocked = 0 THEN c
        ELSE [c EXCEPT !.dec.blocked = SubSeq(@ \o PastTheEnd(c, remaining), remaining + 1, 2 * remaining), !.dec.unblocked = 0]
RECURSIVE HandleInstructions(_, _)
HandleInstructions(c, n) ==
    IF n = 0 \/ c.err # "none" THEN c
    ELSE HandleInstructions(HandleInstruction([c EXCEPT !.estream = Tail(@)], Head(c.estream)), n - 1)
\* a bug: a stream waits for one insertion more than it needs
NumUnblockedStrict(c) ==
    Len(SelectSeq([i \in DOMAIN c.dec.blocked |-> \A j \in 1 .. i : c.dec.blocked[j].ref < c.dec.total], LAMBDA b : b))
NumUnblocked(c) ==
    Len(SelectSeq([i \in DOMAIN c.dec.blocked |-> \A j \in 1 .. i : c.dec.blocked[j].ref <= c.dec.total], LAMBDA b : b))
ReportUnblocked(c) ==
    IF c.err # "none" THEN c
    ELSE [c EXCEPT !.dec.unblocked = NumUnblocked(c),
                   !.waiting = {w \in @ : \A i \in 1 .. NumUnblocked(c) : c.dec.blocked[i].id # w.id},
                   !.blocks = @ \cup {w \in c.waiting : \E i \in 1 .. NumUnblocked(c) : c.dec.blocked[i].id = w.id}]
HandleInput(c, n) == ReportUnblocked(HandleInstructions(DropUnblocked(c), n))

\* decoder_link_blocked: sorted by ref, after those of the same ref
LinkBlocked(s, new) ==
    LET keep == LatestOf({0} \cup {i \in DOMAIN s : s[i].ref <= new.ref})
    IN  SubSeq(s, 1, keep) \o <<new>> \o SubSeq(s, keep + 1, Len(s))

\* parse_decode_context: what req_insert_count stands for, -1 when there is no such value
ReqInsertCount(d, ric) ==
    LET full == 2 * d.size
        most == d.total + d.size
        v == ric + (most \div full) * full - 1
        w == IF v <= most THEN v ELSE IF v <= full THEN 0 ELSE v - full
    IN  IF ric = 0 THEN 0 ELSE IF full = 0 \/ w = 0 THEN -1 ELSE w
BaseIndex(req, prefix) == IF prefix.sign THEN req - prefix.delta - 1 ELSE req + prefix.delta

\* resolve_dynamic, resolve_dynamic_postbase
Position(rep, base) == IF rep.at.post THEN base + rep.at.off + 1 ELSE IF rep.at.off >= base THEN -1 ELSE base - rep.at.off
\* decode_header
Decodable(t, rep, base) == rep.kind = "literal" \/ Resolves(t, Position(rep, base))
DecodeHeader(t, rep, base) ==
    CASE rep.kind = "literal" -> rep.h
      [] rep.kind = "indexed" -> ResolveDynamicAbs(t, Position(rep, base))
      [] rep.kind = "nameref" -> <<Name(ResolveDynamicAbs(t, Position(rep, base))), Value(rep.h)>>
\* h2o_hpack_parse_request, send_header_ack
ParseHeaders(c, b, req, base) ==
    IF \E i \in DOMAIN b.reps : ~Decodable(c.dec.table, b.reps[i], base) THEN Failed(c, "QPACK_DECOMPRESSION_FAILED")
    ELSE [c EXCEPT !.decoded = @ \cup {[id |-> b.id, list |-> b.list, got |-> [i \in DOMAIN b.reps |-> DecodeHeader(c.dec.table, b.reps[i], base)]]},
                   !.dstream = IF req = 0 THEN @ ELSE Append(@, [kind |-> "ack", id |-> b.id])]
ParseInContext(c, b, req, base) ==
    CASE req < 0 \/ base < 0 -> Failed(c, "QPACK_DECOMPRESSION_FAILED")
      [] req >= TotalInserts(c.dec.table) /\ Len(c.dec.blocked) + 1 >= c.dec.maxBlocked -> Failed(c, "too many blocked streams")
      [] req >= TotalInserts(c.dec.table) /\ Len(c.dec.blocked) + 1 < c.dec.maxBlocked ->
            [c EXCEPT !.dec.blocked = LinkBlocked(@, [id |-> b.id, ref |-> req]), !.waiting = @ \cup {b}]
      [] OTHER -> ParseHeaders(c, b, req, base)
\* h2o_qpack_parse_request, h2o_qpack_parse_response
Parse(c, b, req) == ParseInContext(c, b, req, BaseIndex(req, b.prefix))

-----------------------------------------------------------------------------
(* Actions *)

Unused == {s \in Streams : \A b \in qp.blocks \cup qp.waiting \cup qp.decoded : b.id # s}
Going == qp.err = "none"
IsPeer == qp.scene.mode = "peer"

\* h2o_qpack_flatten_request, h2o_qpack_flatten_response
Flatten ==
    /\ ~IsPeer /\ Len(qp.enc.inflight) < MaxInflight
    /\ \E id \in Unused, list \in qp.scene.lists : qp' = FinalizeFlatten(qp, FlattenHeaders(NewFlatten(qp.enc), list), id, list)
\* qpack_encoder_stream_handle_input
EncoderStream ==
    \E n \in 1 .. Len(qp.estream) : qp' = HandleInput(qp, n)
ParseBlock ==
    \E b \in qp.blocks : qp' = Parse([qp EXCEPT !.blocks = @ \ {b}], b, ReqInsertCount(qp.dec, b.prefix.ric))
\* h2o_qpack_decoder_send_state_sync, which nothing in the server calls
SendStateSync ==
    /\ qp.scene.syncs /\ qp.dec.count > 0
    /\ qp' = [qp EXCEPT !.dstream = Append(@, [kind |-> "sync", n |-> qp.dec.count]), !.dec.count = 0]
\* h2o_qpack_decoder_send_stream_cancel, of a stream whose header block is not going to be read
SendStreamCancel ==
    /\ ~IsPeer
    /\ \E b \in qp.blocks :
         qp' = [qp EXCEPT !.blocks = @ \ {b}, !.decoded = @ \cup {[id |-> b.id, list |-> b.list, got |-> b.list]},
                          !.dstream = Append(@, [kind |-> "cancel", id |-> b.id])]
\* qpack_decoder_stream_handle_input, h2o_qpack_encoder_handle_input
DecoderStream ==
    /\ ~IsPeer /\ qp.dstream # <<>>
    /\ LET i == Head(qp.dstream)
           c == [qp EXCEPT !.dstream = Tail(@)]
       IN  qp' = CASE i.kind = "ack" -> HandleHeaderAck(c, i.id)
                   [] i.kind = "sync" -> HandleTableStateSynchronize(c, i.n)
                   [] i.kind = "cancel" -> [c EXCEPT !.enc = CancelFrom(@, i.id, 1)]

\* The encoder of a peer.  It evicts only what was received and no header block on the way refers to.
Live(ins, lo, max) == CHOOSE n \in lo .. Len(ins) + 1 :
    /\ Bytes(SubSeq(ins, n, Len(ins))) <= max
    /\ \A m \in lo .. n - 1 : Bytes(SubSeq(ins, m, Len(ins))) > max
PeerUpdate(ins, max, instruction) ==
    LET lo == Live(ins, qp.lo, max)
    IN  /\ Len(qp.estream) < MaxUnread
        /\ lo = qp.lo \/ (qp.blocks = {} /\ qp.waiting = {} /\ qp.estream = <<>>)
        /\ qp' = [qp EXCEPT !.ins = ins, !.lo = lo, !.enc.table.max = max, !.estream = Append(@, instruction)]
PeerInsert ==
    /\ IsPeer /\ Len(qp.ins) < MaxInserts
    /\ \E h \in qp.scene.headers :
         /\ Size(h) <= qp.enc.table.max
         /\ PeerUpdate(Append(qp.ins, h), qp.enc.table.max, [kind |-> "insert", index |-> 0, h |-> h])
PeerInsertNameref ==
    /\ IsPeer /\ Len(qp.ins) < MaxInserts
    /\ \E i \in qp.lo .. Len(qp.ins), v \in {Value(h) : h \in qp.scene.headers} :
         LET h == <<Name(qp.ins[i]), v>>
         IN  /\ Size(h) <= qp.enc.table.max
             /\ PeerUpdate(Append(qp.ins, h), qp.enc.table.max, [kind |-> "insert nameref", index |-> Len(qp.ins) - i, h |-> <<"", v>>])
PeerDuplicate ==
    /\ IsPeer /\ Len(qp.ins) < MaxInserts
    /\ \E i \in qp.lo .. Len(qp.ins) :
         PeerUpdate(Append(qp.ins, qp.ins[i]), qp.enc.table.max, [kind |-> "duplicate", index |-> Len(qp.ins) - i, h |-> <<>>])
PeerResize ==
    /\ IsPeer
    /\ \E m \in 0 .. qp.scene.size : m # qp.enc.table.max /\ PeerUpdate(qp.ins, m, [kind |-> "size", index |-> m, h |-> <<>>])
\* a header block of one or two indexed fields; required insert count as in section 4.5.1.1 of the RFC
PeerBlock ==
    /\ IsPeer /\ Cardinality(qp.waiting) + Cardinality(qp.blocks) + 1 < qp.scene.maxBlocked
    /\ \E id \in Unused, r1 \in qp.lo .. Len(qp.ins), r2 \in qp.lo .. Len(qp.ins) : \E base \in {0, r1, r2} :
         LET ref == IF r1 > r2 THEN r1 ELSE r2
             x == [NewFlatten(qp.enc) EXCEPT !.base = base]
         IN  qp' = [qp EXCEPT !.blocks = @ \cup
                {[id |-> id, prefix |-> [Prefix(ref, base) EXCEPT !.ric = (ref % (2 * qp.scene.size)) + 1],
                  reps |-> FlattenDynamicIndexed(FlattenDynamicIndexed(x, r1, <<>>), r2, <<>>).reps, list |-> <<qp.ins[r1], qp.ins[r2]>>]}]

Init == \E scene \in Scenes : qp = NewQpack(scene)
Step ==
    /\ Going
    /\ \/ Flatten \/ EncoderStream \/ ParseBlock \/ SendStateSync \/ SendStreamCancel \/ DecoderStream
       \/ PeerInsert \/ PeerInsertNameref \/ PeerDuplicate \/ PeerResize \/ PeerBlock
Next == qp.failed = {} /\ Step

-----------------------------------------------------------------------------
(* Properties *)

\* What is decoded is what was encoded, however the header block and the instructions for the
\* dynamic table were interleaved.
RoundTrip == \A d \in qp.decoded : d.got = d.list

\* Once the instructions are read the decoder's table holds the entries that the encoder
\* takes for live, under their absolute indexes.
TablesAgree ==
    qp.estream = <<>> /\ Going =>
        /\ qp.dec.table.entries = SubSeq(qp.ins, qp.lo, Len(qp.ins)) /\ qp.dec.table.base = qp.lo
        /\ qp.dec.table.bytes = Bytes(qp.dec.table.entries) /\ qp.dec.total = Len(qp.ins)

\* Neither side finds fault with what a side that follows the protocol sends.
NoFalseAccusation == Going

\* A header block that waits for insertions is reported once they were made.
BlockedStreamsWake == \A w \in qp.waiting : ReqInsertCount(qp.dec, w.prefix.ric) > qp.dec.total \/ ~Going

\* The encoder takes for received no more than was, and its list and its count of blocked
\* header blocks are those of the blocks that are not acknowledged.
Unacked == {b \in qp.blocks \cup qp.waiting : b.prefix.ric # 0} \cup
           {d \in qp.decoded : \E i \in DOMAIN qp.dstream : qp.dstream[i].kind # "sync" /\ qp.dstream[i].id = d.id}
\* The encoder counts the header blocks in flight that may block a stream, and
\* never more than it may (h2o_qpack_encoder_handle_input).
EncoderIsExact ==
    ~IsPeer /\ Going =>
        /\ qp.enc.known <= qp.dec.total
        /\ {qp.enc.inflight[i].id : i \in DOMAIN qp.enc.inflight} \subseteq {b.id : b \in Unacked}
        /\ {b.id : b \in qp.blocks \cup qp.waiting} \subseteq
               {qp.enc.inflight[i].id : i \in DOMAIN qp.enc.inflight} \cup {b.id : b \in {c \in qp.blocks : c.prefix.ric = 0}}
        /\ qp.enc.numBlocked = Cardinality({i \in DOMAIN qp.enc.inflight : qp.enc.inflight[i].blocking})

\* No assertion of qpack.c fails, and no entry that is referred to is evicted.
NoAssertionFails == qp.failed = {}
=============================================================================
