------------------------------ MODULE Buffers -------------------------------
(***************************************************************************)
(* lib/common/memory.c: growing byte buffers (h2o_buffer_t), which move    *)
(* from the prototype to the heap to a mapped temporary file as they grow, *)
(* and the recycle bins of a thread that their memory comes from.          *)
(*                                                                         *)
(* A buffer owner appends the bytes of a numbered stream and consumes them *)
(* in order; mem is the memory behind the header, and bytes starts at off. *)
(***************************************************************************)
EXTENDS Integers, Sequences, FiniteSets, SequencesExt

CONSTANTS Bufs,
          Header,     \* offsetof(h2o_buffer_t, _buf)
          MinPower,   \* H2O_BUFFER_MIN_ALLOC_POWER
          MaxPower,   \* bound: the largest bin
          PageSize,
          MaxBytes,   \* bound: bytes appended to a buffer
          Scenes      \* [initial, threshold, fails, lens]: the capacity of the prototype, where mapping starts (0: never),
                      \* the calls that may fail, and the lengths of appends

VARIABLE bf

Asserted(c, ok, name) == IF ok THEN c ELSE [c EXCEPT !.failed = @ \cup {name}]
Powers == MinPower..MaxPower
\* the initial buffer of the prototype, which nobody owns
Initial == [kind |-> "initial", cap |-> 0, off |-> 0, size |-> 0, mem |-> <<>>]
\* mutant: a power of two takes the next one
SizeToPowerNext(sz) == CHOOSE p \in MinPower..(MaxPower + 1) : sz < 2^p /\ (p = MinPower \/ sz >= 2^(p - 1))
\* buffer_size_to_power
SizeToPower(sz) == CHOOSE p \in MinPower..(MaxPower + 1) : sz <= 2^p /\ (p = MinPower \/ sz > 2^(p - 1))
\* topagesize
PagesOf(cap) == ((Header + cap + PageSize - 1) \div PageSize) * PageSize

-----------------------------------------------------------------------------
(* Recycle bins: the chunks kept, and the least number kept since the last *)
(* time the bin was cleared.  Bin 0 has the headers without bytes.         *)

\* h2o_mem_alloc_recycle
Alloc(c, p) ==
    IF c.bin[p].chunks = 0 THEN [c EXCEPT !.out[p] = @ + 1]
    ELSE [c EXCEPT !.out[p] = @ + 1, !.bin[p] = [chunks |-> @.chunks - 1, low |-> IF @.low > @.chunks - 1 THEN @.chunks - 1 ELSE @.low]]
\* h2o_mem_free_recycle
FreeChunk(c, p) == [c EXCEPT !.out[p] = @ - 1, !.bin[p].chunks = @ + 1]
\* h2o_mem_clear_recycle: "Division by 2 is rounded up so that `low_watermark` eventually reaches zero"
Kept(b) == b.chunks - ((b.low + 1) \div 2)
ClearBin(b, full) == IF full THEN [chunks |-> 0, low |-> 0] ELSE [chunks |-> Kept(b), low |-> Kept(b)]
\* h2o_buffer_clear_recycle
ClearRecycle(c, full) ==
    [Asserted(c, \A p \in DOMAIN c.bin : Kept(c.bin[p]) >= 0, "allocator->chunks.size >= delta") EXCEPT
        !.bin = [p \in DOMAIN @ |-> ClearBin(@[p], full)], !.largest = IF full THEN MinPower - 1 ELSE @]
\* buffer_get_recycle
GetRecycle(c, p) == [c EXCEPT !.largest = IF p > @ THEN p ELSE @]

-----------------------------------------------------------------------------
(* Buffers.                                                                *)

\* h2o_buffer__do_free
FreeHeap(c, p, cap) == FreeChunk(GetRecycle(Asserted(c, 2^p = Header + cap, "1 << power == offsetof + capacity"), p), p)
DoFree(c, o) ==
    CASE o.kind = "map" -> [c EXCEPT !.fds = @ - 1]
      [] o.kind = "zero" -> FreeChunk(c, 0)
      [] OTHER -> FreeHeap(c, SizeToPower(Header + o.cap), o.cap)
\* the bytes of the buffer, moved to the start of memory of another size
Moved(o, cap) == [i \in 1..cap |-> IF i <= o.size THEN o.mem[o.off + i] ELSE 0]
Heap(c, b, p, o) ==
    [Alloc(GetRecycle(c, p), p) EXCEPT !.buf[b] = [kind |-> "heap", cap |-> 2^p - Header, off |-> 0, size |-> o.size, mem |-> Moved(o, 2^p - Header)]]
\* buffer_allocate: a chunk of the recorded capacity if there is one to reuse
Larger(x, y) == IF x > y THEN x ELSE y
Desired(c, cap, p) == p <= c.largest /\ c.bin[p].chunks # 0
AllocateFor(c, b, least, desired) ==
    IF desired > least /\ SizeToPower(Header + desired) \in Powers /\ Desired(c, desired, SizeToPower(Header + desired))
    THEN Heap(c, b, SizeToPower(Header + desired), Initial) ELSE Heap(c, b, SizeToPower(Header + least), Initial)
BufferAllocate(c, b, least, desired) == AllocateFor(c, b, Larger(least, c.scene.initial), desired)
\* "new_capacity *= 2" until the bytes and what is asked for fit
Doublings == 1..6
NewCapacity(o, n) == CHOOSE x \in {o.cap * 2^i : i \in Doublings} : x - o.size >= n /\ (x = o.cap * 2 \/ (x \div 2) - o.size < n)
\* into a temporary file, or a larger mapping of the same file, in which every byte stays where it was
Mapped(c, b, o, cap) ==
    IF o.kind = "map"
    THEN [c EXCEPT !.buf[b].cap = cap, !.buf[b].mem = [i \in 1..cap |-> IF i <= o.cap THEN o.mem[i] ELSE 0], !.pages[b] = PagesOf(cap)]
    ELSE DoFree([c EXCEPT !.buf[b] = [kind |-> "map", cap |-> cap, off |-> 0, size |-> o.size, mem |-> Moved(o, cap)], !.fds = @ + 1,
                          !.pages[b] = PagesOf(cap)], o)
\* MapError, by the call that failed: the file of a buffer that had none stays open
MapError(c, o, call) == [c EXCEPT !.ok = FALSE, !.fds = IF o.kind # "map" /\ call # "mktemp" THEN @ + 1 ELSE @]
Grow(c, b, o, cap, fail) ==
    IF c.scene.threshold # 0 /\ c.scene.threshold <= cap
    THEN IF fail # "none" THEN MapError(c, o, fail) ELSE Mapped(c, b, o, cap)
    ELSE DoFree(Heap(c, b, SizeToPower(Header + cap), o), o)
\* h2o_buffer_try_reserve
Reserve(c, b, o, n, fail) ==
    CASE o.kind = "initial" -> BufferAllocate(c, b, n, 0)
      [] o.kind = "zero" -> BufferAllocate(FreeChunk(c, 0), b, n, o.cap)
      [] o.kind \in {"heap", "map"} /\ n <= o.cap - o.size - o.off -> c
      [] o.kind \in {"heap", "map"} /\ n > o.cap - o.size - o.off /\ (o.size + n) * 2 <= o.cap ->
            [c EXCEPT !.buf[b].mem = Moved(o, o.cap), !.buf[b].off = 0]
      [] OTHER -> Grow(c, b, o, NewCapacity(o, n), fail)
\* h2o_buffer_try_append: the bytes go where the function said, if it did
Written(c, b, o, n) ==
    IF ~c.ok THEN c
    ELSE [Asserted(c, o.off + o.size + n <= o.cap, "fewer bytes reserved than asked for") EXCEPT
            !.buf[b].size = @ + n, !.buf[b].mem = [i \in DOMAIN @ |-> IF i > o.off + o.size /\ i <= o.off + o.size + n THEN c.next[b] + i - o.off - o.size ELSE @[i]],
            !.next[b] = @ + n]
WrittenTo(c, b, n) == Written(c, b, c.buf[b], n)
TryAppend == \E b \in Bufs, n \in bf.scene.lens, fail \in bf.scene.fails \cup {"none"} :
    /\ bf.next[b] + n <= MaxBytes
    /\ bf' = WrittenTo(Reserve([bf EXCEPT !.ok = TRUE], b, bf.buf[b], n, fail), b, n)
\* h2o_buffer_consume_all
Emptied(c, b, o, record) ==
    IF record THEN DoFree([Alloc(c, 0) EXCEPT !.buf[b] = [Initial EXCEPT !.kind = "zero", !.cap = o.cap]], o)
    ELSE DoFree([c EXCEPT !.buf[b] = Initial], o)
ConsumeAll == \E b \in Bufs, record \in BOOLEAN :
    bf.buf[b].size # 0 /\ bf' = [Emptied(bf, b, bf.buf[b], record) EXCEPT !.read[b] = @ + bf.buf[b].size]
\* h2o_buffer_consume
Consumed(c, b, n) == IF c.buf[b].size = n THEN Emptied(c, b, c.buf[b], FALSE) ELSE [c EXCEPT !.buf[b].size = @ - n, !.buf[b].off = @ + n]
Consume == \E b \in Bufs, n \in {1, 2} :
    bf.buf[b].size >= n /\ bf' = [Consumed(bf, b, n) EXCEPT !.read[b] = @ + n]
\* h2o_buffer_dispose, and a new one
Dispose == \E b \in Bufs :
    /\ bf.buf[b].kind # "initial"
    /\ bf' = [DoFree([bf EXCEPT !.buf[b] = Initial], bf.buf[b]) EXCEPT !.read[b] = bf.next[b]]
Clear == \E full \in BOOLEAN : bf.largest >= MinPower /\ bf' = ClearRecycle(bf, full)

Start(s) ==
    [buf |-> [b \in Bufs |-> Initial], next |-> [b \in Bufs |-> 0], read |-> [b \in Bufs |-> 0], pages |-> [b \in Bufs |-> 0],
     bin |-> [p \in Powers \cup {0} |-> [chunks |-> 0, low |-> 0]], out |-> [p \in Powers \cup {0} |-> 0], largest |-> MinPower - 1,
     fds |-> 0, ok |-> TRUE, scene |-> s, failed |-> {}]
Init == \E s \in Scenes : bf = Start(s)
Step == TryAppend \/ ConsumeAll \/ Consume \/ Dispose \/ Clear
Next == bf.failed = {} /\ Step

-----------------------------------------------------------------------------
(* Properties.                                                             *)

\* No assertion of memory.c fails: sizes are those of the recycled bins, and
\* offsets stay within the capacity.
NoAssertionFails == bf.failed = {}

\* "minimum number of additional bytes to reserve": what h2o_buffer_try_reserve returns is no shorter than it was asked for
ReserveIsHonoured == "fewer bytes reserved than asked for" \notin bf.failed

\* the bytes of a buffer are those appended and not yet consumed, in order, wherever its memory has moved to
BytesAreIntact == \A b \in Bufs :
    /\ bf.buf[b].size = bf.next[b] - bf.read[b]
    /\ \A i \in 1..bf.buf[b].size : bf.buf[b].mem[bf.buf[b].off + i] = bf.read[b] + i
    /\ bf.buf[b].kind = "map" => Header + bf.buf[b].cap <= bf.pages[b]

\* every chunk that is out belongs to a buffer, every open file to a mapped one, and no bin is kept that is not known
Uses(p) == Cardinality({b \in Bufs : \/ bf.buf[b].kind = "heap" /\ 2^p = Header + bf.buf[b].cap
                                     \/ bf.buf[b].kind = "zero" /\ p = 0})
\* Every chunk of heap and every file belongs to a buffer or to a recycle bin
\* (h2o_buffer__do_free).
NothingLeaks ==
    /\ \A p \in DOMAIN bf.out : bf.out[p] = Uses(p) /\ bf.bin[p].low <= bf.bin[p].chunks
    /\ \A p \in Powers : p > bf.largest => bf.bin[p].chunks = 0
    /\ bf.fds = Cardinality({b \in Bufs : bf.buf[b].kind = "map"})
=============================================================================
