---------------------------- MODULE FileHandler -----------------------------
(***************************************************************************)
(* lib/handler/file.c, the handler of static files, and                    *)
(* lib/common/filecache.c, the cache of open files of a thread.            *)
(*                                                                         *)
(* A path is <<name, extension>>; "" is the file itself, the others its    *)
(* compressed variants.  A file on disk has a size and an inode, which     *)
(* also stands for its modification time.  A range header is a sequence of *)
(* specs.  The text around the parts of a multipart response is a number   *)
(* of bytes, with the decimal digits of its numbers counted one by one.    *)
(***************************************************************************)
EXTENDS Integers, Sequences, FiniteSets, SequencesExt

CONSTANTS Reqs, Refs, Names,
          Capacity,  \* of the file cache
          PullMax,   \* H2O_PULL_SENDVEC_MAX_SIZE
          MaxBuf,    \* MAX_BUF_SIZE
          Fixed,     \* length of the fixed text of a part, its leading CRLF excluded
          MaxEvents, \* bound: changes of the disk
          Scenes     \* [disk, flags, targets, inputs, uring, index, aborts, truncates, sizes, reqs]

VARIABLE fl

Asserted(c, ok, name) == IF ok THEN c ELSE [c EXCEPT !.failed = @ \cup {name}]
Least(a, b) == IF a < b THEN a ELSE b
Unknown == 999   \* SIZE_MAX
Paths == Names \X {"", "br", "zst", "gz", "zstd"}
Absent == [kind |-> "absent", size |-> 0, ino |-> 0]

-----------------------------------------------------------------------------
(* The cache: references in the order of the LRU list, the newest first.   *)

NoRef == [cnt |-> 0, path |-> <<"", "">>, fd |-> FALSE, err |-> "none", size |-> 0, real |-> 0, ino |-> 0, dir |-> FALSE]
Free(c, r) == c.ref[r].cnt = 0
\* h2o_filecache_close_file
CloseFile(c, r) ==
    IF c.ref[r].cnt > 1 THEN [c EXCEPT !.ref[r].cnt = @ - 1]
    ELSE [Asserted(c, r \notin ToSet(c.lru), "!h2o_linklist_is_linked(&ref->_lru)") EXCEPT !.ref[r] = NoRef]
\* release_from_cache
ReleaseFromCache(c, r) == CloseFile([c EXCEPT !.lru = SelectSeq(@, LAMBDA x : x # r)], r)
\* h2o_filecache_clear
FilecacheClear(c) == FoldLeft(ReleaseFromCache, c, c.lru)
Cached(c, p) == {r \in ToSet(c.lru) : c.ref[r].path = p}
NewRef(c) == CHOOSE r \in Refs : Free(c, r) /\ \A x \in Refs : Free(c, x) => r <= x
\* open and fstat, or the error that is memoized
OnDisk(e) == CASE e.kind = "absent" -> "ENOENT" [] e.kind = "denied" -> "EACCES" [] e.kind = "busy" -> "EMFILE" [] OTHER -> "none"
Opened(p, e, cnt) ==
    [NoRef EXCEPT !.cnt = cnt, !.path = p, !.fd = (OnDisk(e) = "none"), !.err = OnDisk(e), !.size = e.size, !.real = e.size, !.ino = e.ino,
                  !.dir = (e.kind = "dir")]
Purged(c) == IF Capacity # 0 /\ Len(c.lru) = Capacity THEN ReleaseFromCache(c, Last(c.lru)) ELSE c
Assigned(c, r, p) ==
    IF Capacity = 0 THEN [c EXCEPT !.ref[r] = Opened(p, c.disk[p], 1)] ELSE [c EXCEPT !.ref[r] = Opened(p, c.disk[p], 2), !.lru = <<r>> \o @]
\* an entry that retains an error is given back at once
Exit(c, r) ==
    IF c.ref[r].fd THEN [c EXCEPT !.opened = r] ELSE CloseFile([c EXCEPT !.opened = 0, !.errno = c.ref[r].err], r)
ExitNew(c, r, p) == Exit(Assigned(c, r, p), r)
Missed(c, p) == ExitNew(c, NewRef(c), p)
Found(c, r) == Exit([c EXCEPT !.ref[r].cnt = @ + 1], r)
\* h2o_filecache_open_file
OpenFile(c, p) == IF Cached(c, p) # {} THEN Found(c, CHOOSE r \in Cached(c, p) : TRUE) ELSE Missed(Purged(c), p)

-----------------------------------------------------------------------------
(* Ranges: process_range.                                                  *)

\* <<"from", a, b>> (b is Unknown when open), <<"suffix", n, 0>> or <<"bad", 0, 0>>; a range is <<start, length>>
OneRange(spec, size) ==
    CASE spec[1] = "from" /\ spec[2] >= size -> <<>>
      [] spec[1] = "from" /\ spec[3] = Unknown -> <<spec[2], size - spec[2]>>
      [] spec[1] = "from" -> LET last == Least(spec[3], size - 1) IN IF spec[2] <= last THEN <<spec[2], last - spec[2] + 1>> ELSE <<>>
      [] OTHER -> IF spec[2] = 0 THEN <<>> ELSE <<size - Least(spec[2], size), Least(spec[2], size)>>
ProcessRange(specs, size) ==
    IF \E i \in DOMAIN specs : specs[i][1] = "bad" THEN <<>>
    ELSE SelectSeq([i \in DOMAIN specs |-> OneRange(specs[i], size)], LAMBDA r : r # <<>>)

\* what sprintf prints and what the code counts: %zd shows the last position -1 of an empty range in two characters
Digits(n) == IF n < 10 THEN 1 ELSE IF n < 100 THEN 2 ELSE 3
Printed(n) == IF n < 0 THEN 2 ELSE Digits(n)
CountedSize(n) == IF n = 0 THEN 0 ELSE Digits(n)
Counted(n) == IF n < 0 THEN 20 ELSE Digits(n)
End(r) == r[1] + r[2] - 1
PartHead(r, size, first) == (IF first THEN 0 ELSE 2) + Fixed + Printed(r[1]) + Printed(End(r)) + Printed(size)
Trailer == 8
\* the content-length of a multipart response
MultipartLength(ranges, size) ==
    FoldLeft(LAMBDA n, r : n + Counted(r[1]) + r[2] + Counted(End(r)) + 2 + Fixed + CountedSize(size), Trailer - 2, ranges)

-----------------------------------------------------------------------------
(* Generators.                                                             *)

NoReq == [st |-> "none", input |-> <<>>, ref |-> 0, off |-> 0, left |-> 0, enc |-> "none", gunzip |-> FALSE, ranges |-> <<>>, size |-> 0, cur |-> 0,
          pipe |-> FALSE, splice |-> 0, status |-> 0, clen |-> 0, crange |-> <<>>, etag |-> 0, vec |-> <<>>, wait |-> FALSE, final |-> FALSE,
          ended |-> "no", sent |-> 0, data |-> <<>>, idle |-> FALSE]
Gen(c, q) == c.req[q]
\* close_file
CloseGen(c, q) ==
    LET d == [c EXCEPT !.req[q].ref = 0, !.req[q].pipe = FALSE] IN IF Gen(c, q).ref = 0 THEN d ELSE CloseFile(d, Gen(c, q).ref)
Tried == << <<"br", "br">>, <<"zstd", "zst">>, <<"gzip", "gz">>, <<"zstd", "zstd">> >>
TryVariant(c, q, name, v) ==
    IF c.opened # 0 \/ v[1] \notin Gen(c, q).input.accept THEN c
    ELSE LET d == OpenFile(c, <<name, v[2]>>) IN [d EXCEPT !.req[q].enc = IF d.opened # 0 THEN v[1] ELSE "none"]
TryVariants(c, q, name) ==
    IF "compressed" \in c.scene.flags THEN FoldLeft(LAMBDA d, v : TryVariant(d, q, name, v), c, Tried) ELSE c
TryPlain(c, name) == IF c.opened # 0 THEN c ELSE OpenFile(c, <<name, "">>)
TryGunzip(c, q, name) ==
    IF c.opened # 0 \/ "gunzip" \notin c.scene.flags THEN c
    ELSE LET d == OpenFile(c, <<name, "gz">>) IN [d EXCEPT !.req[q].gunzip = (d.opened # 0)]
\* what is opened is a directory, or the file of the generator
Settle(c, q) ==
    CASE c.opened = 0 -> [c EXCEPT !.isdir = FALSE]
      [] c.ref[c.opened].dir -> CloseFile([c EXCEPT !.opened = 0, !.isdir = TRUE], c.opened)
      [] OTHER -> [c EXCEPT !.isdir = FALSE, !.req[q].ref = c.opened, !.req[q].left = c.ref[c.opened].size,
                            !.req[q].pipe = c.scene.uring /\ c.ref[c.opened].size # 0]
\* create_generator
CreateGenerator(c, q, name) == Settle(TryGunzip(TryPlain(TryVariants([c EXCEPT !.opened = 0], q, name), name), q, name), q)

Send(c, q, n, final) == [c EXCEPT !.req[q].sent = @ + n, !.req[q].wait = ~final, !.req[q].ended = IF final THEN "final" ELSE @,
                                  !.req[q].idle = @ \/ (n = 0 /\ ~final)]
SendError(c, q) == [c EXCEPT !.req[q].ended = "error", !.req[q].wait = FALSE]
\* do_proceed: a vector that is read by the connection, or a splice into the pipe
DoProceed(c, q) ==
    LET g == Gen(c, q)
        n == Least(g.left, PullMax)
    IN  IF g.pipe THEN [c EXCEPT !.req[q].splice = n]
        ELSE [c EXCEPT !.req[q] = [g EXCEPT !.vec = <<g.off, n>>, !.off = g.off + n, !.left = g.left - n, !.final = (g.left = n)]]
\* do_pread, when the connection wants the bytes; a file that became short ends the response
Offsets(off, n) == [i \in 1..n |-> off + i - 1]
DoPread(c, q) ==
    LET g == Gen(c, q)
        n == g.vec[2]
    IN  IF c.ref[g.ref].real < g.vec[1] + n THEN SendError([c EXCEPT !.req[q].vec = <<>>], q)
        ELSE Send([c EXCEPT !.req[q].vec = <<>>, !.req[q].data = @ \o Offsets(g.vec[1], n)], q, n, g.final)
\* do_multirange_proceed
NextPart(g) == [g EXCEPT !.cur = g.cur + 1, !.off = g.ranges[g.cur + 1][1], !.left = g.ranges[g.cur + 1][2]]
ReadPart(c, q, g, used) ==
    LET want == Least(g.left, MaxBuf - used)
        have == c.ref[g.ref].real - g.off
        n == IF have <= 0 THEN 0 ELSE Least(want, have)
        last == g.cur = Len(g.ranges) /\ g.left = n
    IN  Send([c EXCEPT !.req[q] = [g EXCEPT !.off = g.off + n, !.left = g.left - n, !.data = g.data \o Offsets(g.off, n)]],
             q, used + n + (IF last THEN Trailer ELSE 0), last)
MultirangeProceed(c, q) ==
    LET g == Gen(c, q)
    IN  IF g.left = 0 THEN ReadPart(c, q, NextPart(g), PartHead(g.ranges[g.cur + 1], g.size, g.cur = 0)) ELSE ReadPart(c, q, g, 0)

\* do_send_file
SetupResponse(c, q, status) ==
    LET g == Gen(c, q)
    IN  [c EXCEPT !.req[q] = [g EXCEPT !.status = status, !.clen = IF g.gunzip THEN Unknown ELSE g.left,
                                       !.etag = c.ref[g.ref].ino,
                                       !.crange = IF Len(g.ranges) = 1 THEN <<g.ranges[1][1], End(g.ranges[1]), g.size>> ELSE <<>>]]
SendData(c, q) ==
    CASE Len(Gen(c, q).ranges) = 0 -> DoProceed(c, q)
      [] Len(Gen(c, q).ranges) = 1 -> DoProceed([c EXCEPT !.req[q].off = Gen(c, q).ranges[1][1]], q)
      [] OTHER -> MultirangeProceed([c EXCEPT !.req[q].left = 0], q)
DoSendFile(c, q, status) ==
    IF Gen(c, q).input.method # "GET" \/ Gen(c, q).left = 0 THEN Send(SetupResponse(c, q, status), q, 0, TRUE)
    ELSE SendData(SetupResponse(c, q, status), q)

\* serve_with_generator
Done(c, q, status) == Send([c EXCEPT !.req[q].status = status], q, 0, TRUE)
Current(c, q, v) == v = c.ref[Gen(c, q).ref].ino
NotModified(c, q) ==
    LET h == Gen(c, q).input
    IN  IF h.inm # 0 THEN Current(c, q, h.inm) ELSE h.ims # 0 /\ h.ims >= c.ref[Gen(c, q).ref].ino
\* an entity tag must be the current one, a date not older than it
IfRange(c, q) == LET v == Gen(c, q).input.ifrange IN v[1] = "none" \/ IF v[1] = "date" THEN v[2] >= c.ref[Gen(c, q).ref].ino ELSE Current(c, q, v[2])
WithRanges(c, q, ranges) ==
    LET size == Gen(c, q).left
        d == [c EXCEPT !.req[q].ranges = ranges, !.req[q].size = size]
    IN  IF ranges = <<>> THEN CloseGen(Done([c EXCEPT !.req[q].crange = <<size>>], q, 416), q)
        ELSE DoSendFile([d EXCEPT !.req[q].left = IF Len(ranges) = 1 THEN ranges[1][2] ELSE MultipartLength(ranges, size)], q, 206)
ServeWithGenerator(c, q) ==
    LET h == Gen(c, q).input
    IN  CASE h.dynamic -> Done(CloseGen(c, q), q, 600)
          [] ~h.dynamic /\ NotModified(c, q) -> CloseGen(Done([c EXCEPT !.req[q].etag = c.ref[Gen(c, q).ref].ino], q, 304), q)
          [] ~h.dynamic /\ ~NotModified(c, q) /\ h.method \notin {"GET", "HEAD"} -> Done(CloseGen(c, q), q, 405)
          [] ~h.dynamic /\ ~NotModified(c, q) /\ h.method \in {"GET", "HEAD"} /\ h.range # <<>> /\ IfRange(c, q) ->
                 WithRanges(c, q, ProcessRange(h.range, Gen(c, q).left))
          [] OTHER -> DoSendFile(c, q, 200)

-----------------------------------------------------------------------------
(* The handlers.  600 stands for the handler of a dynamic type and 404 for *)
(* the next handler.                                                       *)

\* try_dynamic_request: `script` is the first component of the path that is not a directory
Script(c, q) == Gen(c, q).input.script
TryDynamic(c, q) == Script(c, q) # "" /\ c.disk[<<Script(c, q), "">>].kind = "file" /\ Gen(c, q).input.dynamic
\* the file could not be opened
Failed(c, q) ==
    CASE c.errno = "EMFILE" -> Done(c, q, 503)
      [] c.errno # "EMFILE" /\ TryDynamic(c, q) -> Done(c, q, 600)
      [] c.errno = "ENOENT" -> Done(c, q, 404)
      [] OTHER -> Done(c, q, 403)
Redirect(c, q) == Done(c, q, 301)
AfterOpen(c, q) ==
    CASE c.opened # 0 -> ServeWithGenerator(c, q)
      [] c.isdir -> Redirect(c, q)
      [] OTHER -> Failed(c, q)
\* the index files are tried until one is there or an error is not ENOENT
TryIndex(c, q, name) ==
    IF c.opened # 0 \/ c.isdir \/ c.errno # "ENOENT" THEN c ELSE CreateGenerator(c, q, name)
Listing(c, q) ==
    IF Gen(c, q).input.method \in {"GET", "HEAD"} THEN Done(c, q, 200) ELSE Done(c, q, 405)
AfterIndex(c, q) ==
    IF c.opened = 0 /\ ~c.isdir /\ c.errno = "ENOENT" /\ "listing" \in c.scene.flags THEN Listing(c, q) ELSE AfterOpen(c, q)
Fresh(c) == [c EXCEPT !.opened = 0, !.isdir = FALSE, !.errno = "ENOENT"]
\* on_req; a path shorter than the configured one is redirected
OnReq(c, q, target) ==
    CASE target = "prefix" -> Redirect(c, q)
      [] target = "dir" -> AfterIndex(FoldLeft(LAMBDA d, name : TryIndex(d, q, name), Fresh(c), c.scene.index), q)
      [] OTHER -> AfterOpen(CreateGenerator(Fresh(c), q, target), q)
\* specific_handler_on_req
SpecificOnReq(c, q, name) ==
    LET d == CreateGenerator(Fresh(c), q, name)
    IN  IF d.opened = 0 /\ d.isdir THEN Done(d, q, 403) ELSE AfterOpen(d, q)

-----------------------------------------------------------------------------
(* What happens.                                                           *)

Arrive == \E q \in Reqs, target \in fl.scene.targets, h \in fl.scene.inputs :
    /\ fl.req[q].st = "none" /\ q <= fl.scene.reqs /\ (h.specific => target \in Names)
    /\ LET d == [fl EXCEPT !.req[q] = [NoReq EXCEPT !.st = "open", !.input = h]]
       IN  fl' = IF h.specific THEN SpecificOnReq(d, q, target) ELSE OnReq(d, q, target)
Live(q) == fl.req[q].st = "open" /\ fl.req[q].ended = "no"
\* the connection reads what it was given, and asks for more
Read == \E q \in Reqs : Live(q) /\ fl.req[q].vec # <<>> /\ fl' = DoPread(fl, q)
Proceed == \E q \in Reqs :
    /\ Live(q) /\ fl.req[q].wait
    /\ LET d == [fl EXCEPT !.req[q].wait = FALSE] IN fl' = IF Len(fl.req[q].ranges) > 1 THEN MultirangeProceed(d, q) ELSE DoProceed(d, q)
\* do_proceed_on_splice_complete, with the request or after it
Spliced(c, q, n) ==
    LET g == Gen(c, q)
    IN  IF n = 0 THEN SendError(c, q)
        ELSE Send([c EXCEPT !.req[q].off = g.off + n, !.req[q].left = g.left - n, !.req[q].data = @ \o Offsets(g.off, n)], q, n, g.left = n)
Clean(c, q) == [c EXCEPT !.req[q] = [NoReq EXCEPT !.st = "done"]]
SpliceComplete == \E q \in Reqs : \E n \in 0..fl.req[q].splice :
    /\ fl.req[q].splice # 0 /\ fl.ref[fl.req[q].ref].real >= fl.req[q].off + n
    /\ LET d == [fl EXCEPT !.req[q].splice = 0]
       IN  fl' = IF fl.req[q].st = "stopped" THEN Clean(CloseGen(d, q), q) ELSE Spliced(d, q, n)
\* the request is disposed of; a splice in flight keeps the generator (do_stop_async_splice)
Dispose == \E q \in Reqs :
    /\ fl.req[q].st = "open" /\ (fl.req[q].ended # "no" \/ fl.scene.aborts)
    /\ fl' = IF fl.req[q].splice # 0 THEN [fl EXCEPT !.req[q].st = "stopped"] ELSE Clean(CloseGen(fl, q), q)
Clear == fl.lru # <<>> /\ fl' = FilecacheClear(fl)
\* a file is replaced by another, or cut short in place
Replace == \E p \in DOMAIN fl.scene.disk : \E size \in fl.scene.sizes :
    /\ fl.events < MaxEvents
    /\ fl' = [fl EXCEPT !.events = @ + 1, !.disk[p] = [kind |-> "file", size |-> size, ino |-> fl.disk[p].ino + 1]]
Truncate == \E p \in DOMAIN fl.scene.disk :
    /\ fl.scene.truncates /\ fl.events < MaxEvents /\ fl.disk[p].size > 1
    /\ fl' = [fl EXCEPT !.events = @ + 1, !.disk[p].size = 1,
                        !.ref = [r \in Refs |-> IF @[r].path = p /\ @[r].ino = fl.disk[p].ino THEN [@[r] EXCEPT !.real = Least(@, 1)] ELSE @[r]]]

Start(s) ==
    [disk |-> [p \in Paths |-> IF p \in DOMAIN s.disk THEN s.disk[p] ELSE Absent], ref |-> [r \in Refs |-> NoRef], lru |-> <<>>,
     req |-> [q \in Reqs |-> NoReq], opened |-> 0, isdir |-> FALSE, errno |-> "none", events |-> 0, scene |-> s, failed |-> {}]
Init == \E s \in Scenes : fl = Start(s)
Step == Arrive \/ Read \/ Proceed \/ SpliceComplete \/ Dispose \/ Clear \/ Replace \/ Truncate
Next == fl.failed = {} /\ Step

-----------------------------------------------------------------------------
(* Properties.                                                             *)

\* No assertion of file.c and filecache.c fails, and no file is used after it
\* was closed.
NoAssertionFails == fl.failed = {}

\* a reference is counted by the cache and by the generators that use it, and is open as long as one of them has it
Users(r) == Cardinality({q \in Reqs : fl.req[q].ref = r}) + (IF r \in ToSet(fl.lru) THEN 1 ELSE 0)
\* An open file counts the requests that use it and the cache
\* (h2o_filecache_open_file, h2o_filecache_close_file).
ReferencesAreExact ==
    /\ \A r \in Refs : fl.ref[r].cnt = Users(r)
    /\ \A q \in Reqs : fl.req[q].ref # 0 => fl.ref[fl.req[q].ref].fd
    /\ Len(fl.lru) <= Capacity /\ \A i, j \in DOMAIN fl.lru : i # j => fl.ref[fl.lru[i]].path # fl.ref[fl.lru[j]].path

\* a response that ends has as many bytes as it announced
Complete(q) == fl.req[q].ended = "final" /\ fl.req[q].status \in {200, 206} /\ fl.req[q].input.method = "GET"
\* A response that ended as a whole has the length that its header announced
\* (do_proceed, do_multirange_proceed).
ContentLengthIsExact == \A q \in Reqs : Complete(q) /\ fl.req[q].clen # Unknown => fl.req[q].sent = fl.req[q].clen

\* RFC 9110: the bytes each range selects, in the order asked for
Selects(spec, i, size) ==
    CASE spec[1] = "from" -> spec[2] <= i /\ (spec[3] = Unknown \/ (i <= spec[3] /\ spec[2] <= spec[3])) [] OTHER -> i >= size - spec[2]
Selected(spec, size) == SelectSeq(Offsets(0, size), LAMBDA i : Selects(spec, i, size))
Wanted(specs, size) == FlattenSeq([i \in DOMAIN specs |-> Selected(specs[i], size)])
\* The bytes sent are those the Range header selects of the file as it was
\* opened (process_range, against the meaning of RFC 9110).
RangesAreRight == \A q \in Reqs : Complete(q) /\ fl.req[q].ref # 0 =>
    fl.req[q].data = IF fl.req[q].status = 206 THEN Wanted(fl.req[q].input.range, fl.req[q].size) ELSE Offsets(0, fl.ref[fl.req[q].ref].size)
\* and a range is reported only when there is such a byte, and of what is sent
PartialIsNotEmpty == \A q \in Reqs : fl.req[q].status = 206 =>
    ~fl.req[q].gunzip /\ \A i \in DOMAIN fl.req[q].ranges : fl.req[q].ranges[i][2] > 0
\* every answer of the generator that does not end the response has a byte in it
NoEmptyRound == \A q \in Reqs : ~fl.req[q].idle
=============================================================================
