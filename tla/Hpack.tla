-------------------------------- MODULE Hpack --------------------------------
(***************************************************************************)
(* Header compression of HTTP/2 (lib/http2/hpack.c): the ring buffers of   *)
(* the two header tables, the encoder and the decoder that must keep them  *)
(* in step, and the conversions around them: integers of a prefix and      *)
(* digits, header blocks cut into frames, and the checks of the pseudo     *)
(* header fields.                                                          *)
(*                                                                         *)
(* A header is [name, value, secret]; a value of LongValues takes one unit *)
(* more of the table than the others.  A scene of the mode "tables" runs   *)
(* an encoder and a decoder; the others feed one conversion.               *)
(***************************************************************************)
EXTENDS Integers, Sequences, FiniteSets, SequencesExt

CONSTANTS
    StaticNames,        \* names of the static table
    LongValues,
    MaxEntries,         \* entries of the output header table: 32
    FirstRing,          \* first size of the ring buffer: 16
    MaxBlocks,          \* bound on the header blocks
    DigitBits,          \* bits in a digit of an integer: 7
    SafeDigits,         \* digits that cannot overflow: 8
    Inputs,             \* what is converted, for each mode
    Scenes

VARIABLE hp

-----------------------------------------------------------------------------

Asserted(t, ok, name) == IF ok THEN t ELSE [t EXCEPT !.failed = @ \cup {name}]
Size(h) == IF h.value \in LongValues THEN 2 ELSE 1

-----------------------------------------------------------------------------
(* The header table: `ring` is indexed from 0, `start` is the newest entry *)

NoEntry == [name |-> "none", value |-> "none"]
NewTable(capacity) ==
    [ring |-> <<>>, num |-> 0, cap |-> 0, start |-> 0, size |-> 0, capacity |-> capacity, max |-> capacity, failed |-> {}]

\* h2o_hpack_header_table_get
Slot(t, i) == (t.start + i) % t.cap
Get(t, i) == t.ring[Slot(t, i)]

\* header_table_evict_one
EvictOne(t) ==
    [Asserted(t, t.num # 0, "header_table_evict_one") EXCEPT
        !.num = @ - 1, !.size = @ - Size(Get(t, t.num - 1)), !.ring = [@ EXCEPT ![Slot(t, t.num - 1)] = NoEntry]]
RECURSIVE EvictTo(_, _)
EvictTo(t, room) == IF t.num = 0 \/ t.size + room <= t.capacity THEN t ELSE EvictTo(EvictOne(t), room)
RECURSIVE EvictNum(_, _)
EvictNum(t, most) == IF t.num < most THEN t ELSE EvictNum(EvictOne(t), most)

\* header_table_add: grow the entries if full
NewCap(t) == IF 2 * t.num < FirstRing THEN FirstRing ELSE 2 * t.num
\* a bug: the ring is copied as it lies
GrowAsIs(t) ==
    [t EXCEPT !.cap = NewCap(t), !.start = 0,
              !.ring = [i \in 0 .. NewCap(t) - 1 |-> IF i < t.num THEN t.ring[i] ELSE NoEntry]]
Grow(t) ==
    IF t.num # t.cap THEN t
    ELSE [t EXCEPT !.cap = NewCap(t), !.start = 0,
                   !.ring = [i \in 0 .. NewCap(t) - 1 |-> IF i < t.num THEN Get(t, i) ELSE NoEntry]]
Put(t, h) ==
    LET at == (t.start + t.cap - 1) % t.cap
    IN  [t EXCEPT !.num = @ + 1, !.start = at, !.ring = [@ EXCEPT ![at] = [name |-> h.name, value |-> h.value]]]
AddTo(t, h) ==
    IF t.num = 0 /\ Size(h) > t.capacity THEN Asserted(t, t.size = 0, "hpack_size")
    ELSE Put(Grow([Asserted(t, t.num = 0 => t.size = 0, "hpack_size") EXCEPT !.size = @ + Size(h)]), h)
HeaderTableAdd(t, h, most) == AddTo(EvictNum(EvictTo(t, Size(h)), most), h)

\* The entries, newest first.
Entries(t) == [i \in 1 .. t.num |-> Get(t, i - 1)]

-----------------------------------------------------------------------------
(* The encoder.  A representation is a size update, an index, or a literal *)
(* with a name or with the index of one; indexes of the dynamic table      *)
(* count from 0.                                                           *)

Rep(kind, index, h, add) == [kind |-> kind, index |-> index, name |-> h.name, value |-> h.value, add |-> add]

\* do_encode_header: the newest entry that matches
Find(t, P(_)) ==
    LET S == {i \in 0 .. t.num - 1 : P(Get(t, i))} IN IF S = {} THEN -1 ELSE CHOOSE i \in S : \A j \in S : i <= j
NameRep(h, nameIndex, add) ==
    IF h.name \in StaticNames \/ nameIndex < 0
    THEN Rep("literal", 0, h, add \/ h.name \notin StaticNames) ELSE Rep("nameref", nameIndex, h, add)
Literal(x, h, nameIndex) ==
    [x EXCEPT !.reps = Append(@, NameRep(h, nameIndex, ~h.secret)),
              !.table = IF h.secret THEN @ ELSE HeaderTableAdd(@, h, MaxEntries)]
EncodeFound(x, h, exact) ==
    IF exact >= 0 THEN [x EXCEPT !.reps = Append(@, Rep("indexed", exact, h, FALSE))]
    ELSE Literal(x, h, Find(x.table, LAMBDA e : e.name = h.name))
DoEncodeHeader(x, h) == EncodeFound(x, h, Find(x.table, LAMBDA e : e.name = h.name /\ e.value = h.value))

\* header_table_adjust_size
HeaderTableAdjustSize(t, capacity) ==
    IF capacity >= t.capacity THEN [table |-> t, reps |-> <<>>]
    ELSE [table |-> EvictTo([t EXCEPT !.capacity = capacity], 0), reps |-> <<Rep("size", capacity, NoEntry, FALSE)>>]

RECURSIVE EncodeHeaders(_, _)
EncodeHeaders(x, list) == IF list = <<>> THEN x ELSE EncodeHeaders(DoEncodeHeader(x, Head(list)), Tail(list))

-----------------------------------------------------------------------------
(* The decoder *)

\* h2o_hpack_decode_header
SizeUpdate(c, capacity) ==
    IF capacity > c.dec.max THEN [c EXCEPT !.err = TRUE] ELSE [c EXCEPT !.dec = EvictTo([@ EXCEPT !.capacity = capacity], 0)]
Decoded(c, rep) ==
    CASE rep.kind = "literal" -> [name |-> rep.name, value |-> rep.value]
      [] rep.kind = "nameref" -> [name |-> Get(c.dec, rep.index).name, value |-> rep.value]
      [] rep.kind = "indexed" -> Get(c.dec, rep.index)
Take(c, rep, h) ==
    [c EXCEPT !.got = Append(@, h), !.dec = IF rep.add THEN HeaderTableAdd(@, h, 1000) ELSE @]
DecodeHeader(c, rep) ==
    IF rep.kind = "size" THEN SizeUpdate(c, rep.index)
    ELSE IF rep.kind \in {"nameref", "indexed"} /\ rep.index >= c.dec.num THEN [c EXCEPT !.err = TRUE]
    ELSE Take(c, rep, Decoded(c, rep))
RECURSIVE DecodeBlock(_, _)
DecodeBlock(c, reps) == IF reps = <<>> \/ c.err THEN c ELSE DecodeBlock(DecodeHeader(c, Head(reps)), Tail(reps))

-----------------------------------------------------------------------------
(* Integers.  The first element of the code is the prefix, the others are  *)
(* digits [more, digit].                                                   *)

Base == 2 ^ DigitBits
IntMax == 2 ^ (DigitBits * (SafeDigits + 1)) - 1    \* INT64_MAX
\* h2o_hpack_encode_int
RECURSIVE Digits(_)
Digits(v) == IF v >= Base THEN <<[more |-> TRUE, digit |-> v % Base]>> \o Digits(v \div Base) ELSE <<[more |-> FALSE, digit |-> v]>>
EncodeInt(v, prefixMax) == IF v < prefixMax THEN [prefix |-> v, digits |-> <<>>] ELSE [prefix |-> prefixMax, digits |-> Digits(v - prefixMax)]
\* h2o_hpack_decode_int
Incomplete == -1
Compression == -2
\* a bug: the last digit may overflow
RECURSIVE DecodeDigitsWraps(_, _, _)
DecodeDigitsWraps(v, digits, n) ==
    IF digits = <<>> THEN Incomplete
    ELSE IF n > SafeDigits /\ Head(digits).more THEN Compression
    ELSE IF Head(digits).more THEN DecodeDigitsWraps(v + Head(digits).digit * Base ^ n, Tail(digits), n + 1)
    ELSE (v + Head(digits).digit * Base ^ n) % (IntMax + 1)
RECURSIVE DecodeDigits(_, _, _)
DecodeDigits(v, digits, n) ==
    IF digits = <<>> THEN Incomplete
    ELSE IF n = SafeDigits /\ (Head(digits).more \/ v + Head(digits).digit * Base ^ n > IntMax) THEN Compression
    ELSE IF Head(digits).more THEN DecodeDigits(v + Head(digits).digit * Base ^ n, Tail(digits), n + 1)
    ELSE v + Head(digits).digit * Base ^ n
DecodeInt(code, prefixMax) == IF code.prefix # prefixMax THEN code.prefix ELSE DecodeDigits(prefixMax, code.digits, 0)

-----------------------------------------------------------------------------
(* fixup_frame_headers: a header block of n bytes in frames *)

Frame(type, len, end) == [type |-> type, len |-> len, end |-> end]
RECURSIVE Continuations(_, _)
Continuations(left, most) ==
    IF left <= most THEN <<Frame("CONTINUATION", left, TRUE)>>
    ELSE <<Frame("CONTINUATION", most, FALSE)>> \o Continuations(left - most, most)
FixupFrameHeaders(n, most) ==
    IF n <= most THEN <<Frame("HEADERS", n, TRUE)>> ELSE <<Frame("HEADERS", most, FALSE)>> \o Continuations(n - most, most)

-----------------------------------------------------------------------------
(* The checks on the fields of a message.  A field is a pseudo header of   *)
(* the request, ":status", "regular", "bad char" (a soft error),           *)
(* "content-length", "host", "connection" or "te".                         *)

RequestPseudo == {":authority", ":method", ":protocol", ":path", ":scheme"}
Pseudo == RequestPseudo \cup {":status", ":unknown"}
\* h2o_hpack_parse_request: p.map tells whether pseudo header fields may still come
ParseRequestField(p, f) ==
    CASE f \in RequestPseudo /\ p.map /\ f \notin p.seen -> [p EXCEPT !.seen = @ \cup {f}]
      [] f \in Pseudo /\ ~(f \in RequestPseudo /\ p.map /\ f \notin p.seen) -> [p EXCEPT !.ret = "PROTOCOL"]
      [] f = "connection" -> [p EXCEPT !.map = FALSE, !.ret = "PROTOCOL"]
      [] f = "bad char" -> [p EXCEPT !.map = FALSE, !.soft = TRUE]
      [] f = "host" -> [p EXCEPT !.map = FALSE, !.seen = @ \cup {":authority"}]
      [] OTHER -> [p EXCEPT !.map = FALSE]
\* h2o_hpack_parse_response
ParseResponseField(p, f) ==
    CASE f = ":status" /\ p.seen = {} -> [p EXCEPT !.seen = {f}]
      [] f \in Pseudo /\ ~(f = ":status" /\ p.seen = {}) -> [p EXCEPT !.ret = "PROTOCOL"]
      [] f \notin Pseudo /\ p.seen = {} -> [p EXCEPT !.ret = "PROTOCOL"]
      [] f \in {"connection", "te"} /\ p.seen # {} -> [p EXCEPT !.ret = "PROTOCOL"]
      [] f = "bad char" /\ p.seen # {} -> [p EXCEPT !.soft = TRUE]
      [] OTHER -> p
RECURSIVE ParseFields(_, _, _)
ParseFields(p, list, isRequest) ==
    IF p.ret # "OK" THEN p.ret
    ELSE IF list = <<>> THEN IF p.soft THEN "INVALID_HEADER_CHAR" ELSE "OK"
    ELSE ParseFields(IF isRequest THEN ParseRequestField(p, Head(list)) ELSE ParseResponseField(p, Head(list)), Tail(list), isRequest)
ParseMessage(list, isRequest) ==
    IF ~isRequest /\ list = <<>> THEN "PROTOCOL" ELSE ParseFields([map |-> TRUE, seen |-> {}, soft |-> FALSE, ret |-> "OK"], list, isRequest)

-----------------------------------------------------------------------------
(* Actions *)

NewHpack(scene) ==
    [scene |-> scene, enc |-> NewTable(scene.capacity), dec |-> NewTable(scene.capacity), settings |-> scene.capacity, wire |-> <<>>,
     sent |-> <<>>, got |-> <<>>, added |-> <<>>, blocks |-> 0, input |-> <<>>, result |-> <<>>, err |-> FALSE]

\* h2o_hpack_flatten_request, h2o_hpack_flatten_response, h2o_hpack_flatten_push_promise, h2o_hpack_flatten_trailers
Flattened(c, x, list) ==
    [c EXCEPT !.enc = x.table, !.wire = Append(@, x.reps), !.sent = @ \o [i \in DOMAIN list |-> [name |-> list[i].name, value |-> list[i].value]],
              !.blocks = @ + 1]
Flatten ==
    /\ hp.scene.mode = "tables" /\ hp.blocks < MaxBlocks
    /\ \E list \in hp.scene.lists : hp' = Flattened(hp, EncodeHeaders(HeaderTableAdjustSize(hp.enc, hp.settings), list), list)
\* the peer's SETTINGS_HEADER_TABLE_SIZE, which its decoder announced
Settings ==
    /\ hp.scene.mode = "tables"
    /\ \E s \in hp.scene.settings : s # hp.settings /\ hp' = [hp EXCEPT !.settings = s]
Decode ==
    /\ hp.wire # <<>> /\ ~hp.err
    /\ hp' = DecodeBlock([hp EXCEPT !.wire = Tail(@)], Head(hp.wire))

Convert ==
    /\ hp.scene.mode # "tables" /\ hp.result = <<>>
    /\ \E i \in Inputs[hp.scene.mode] :
         hp' = [hp EXCEPT !.input = <<i>>,
                          !.result = <<CASE hp.scene.mode = "encode" -> DecodeInt(EncodeInt(i.value, i.prefix), i.prefix)
                                         [] hp.scene.mode = "decode" -> DecodeInt([prefix |-> i.prefix, digits |-> i.digits], i.prefix)
                                         [] hp.scene.mode = "frames" -> FixupFrameHeaders(i.size, i.most)
                                         [] hp.scene.mode = "fields" -> ParseMessage(i.fields, i.request)>>]

Init == \E scene \in Scenes : hp = NewHpack(scene)
Step == Flatten \/ Settings \/ Decode \/ Convert
Next == hp.enc.failed = {} /\ hp.dec.failed = {} /\ Step

-----------------------------------------------------------------------------
(* Properties *)

\* The decoder obtains the headers that were encoded, block after block.
RoundTrip == ~hp.err /\ hp.got = SubSeq(hp.sent, 1, Len(hp.got))

\* When every block was read, what the encoder can refer to are the newest entries of the
\* decoder's table, though it holds fewer of them; sizes are those of the entries.
SizeOfEntries(t) == FoldSeq(LAMBDA h, sum : sum + Size(h), 0, Entries(t))
\* The tables of both ends hold the same entries in the same order, and their
\* size is that of the entries.
TablesInStep ==
    /\ hp.wire = <<>> => hp.enc.num <= hp.dec.num /\ Entries(hp.enc) = SubSeq(Entries(hp.dec), 1, hp.enc.num)
    /\ \A t \in {hp.enc, hp.dec} : t.size = SizeOfEntries(t) /\ t.size <= t.capacity

\* An integer is read back as it was written; what does not fit is refused, never wrapped.
RECURSIVE ValueOf(_, _)
ValueOf(digits, n) == IF digits = <<>> THEN 0 ELSE Head(digits).digit * Base ^ n + (IF Head(digits).more THEN ValueOf(Tail(digits), n + 1) ELSE 0)
Ends(digits) == \E n \in DOMAIN digits : ~digits[n].more /\ n <= SafeDigits + 1
\* Decoding is the inverse of encoding, and whatever is too long or too large
\* is refused (h2o_hpack_decode_int).
IntegersAreExact ==
    \A k \in DOMAIN hp.result :
        LET i == hp.input[k] IN
        /\ hp.scene.mode = "encode" => hp.result[k] = i.value
        /\ hp.scene.mode = "decode" /\ hp.result[k] >= 0 => Ends(i.digits) /\ hp.result[k] = i.prefix + ValueOf(i.digits, 0)
        /\ hp.scene.mode = "decode" /\ Ends(i.digits) /\ i.prefix + ValueOf(i.digits, 0) <= IntMax => hp.result[k] >= 0

\* The frames carry the whole block, none is too long, and the last one and no other ends it.
FramesCarryBlock ==
    hp.scene.mode = "frames" => \A k \in DOMAIN hp.result :
        LET f == hp.result[k] IN
        /\ FoldSeq(LAMBDA x, sum : sum + x.len, 0, f) = hp.input[k].size
        /\ \A n \in DOMAIN f :
             /\ f[n].len <= hp.input[k].most /\ f[n].end = (n = Len(f)) /\ (f[n].type = "HEADERS") = (n = 1)
             /\ n > 1 => f[n].len > 0

\* A message is accepted when its pseudo header fields come first and once, are those of its
\* kind, and no field is about the connection.
Acceptable(list, isRequest) ==
    /\ \A i, j \in DOMAIN list : list[j] \in Pseudo /\ i < j => list[i] \in Pseudo /\ list[i] # list[j]
    /\ \A i \in DOMAIN list : list[i] # "connection" /\ (list[i] \in Pseudo => list[i] \in (IF isRequest THEN RequestPseudo ELSE {":status"}))
    /\ ~isRequest => Len(list) > 0 /\ list[1] = ":status" /\ \A i \in DOMAIN list : list[i] # "te"
\* A header list is accepted exactly when the rules of pseudo-headers and
\* characters hold (hpack_parse_request, hpack_parse_response).
FieldsAreChecked ==
    hp.scene.mode = "fields" => \A k \in DOMAIN hp.result :
        LET i == hp.input[k] IN
        hp.result[k] = IF ~Acceptable(i.fields, i.request) THEN "PROTOCOL"
                       ELSE IF \E n \in DOMAIN i.fields : i.fields[n] = "bad char" THEN "INVALID_HEADER_CHAR" ELSE "OK"

\* No assertion of hpack.c fails: evictions and copies of the ring stay within
\* it.
NoAssertionFails == hp.enc.failed = {} /\ hp.dec.failed = {}
=============================================================================
