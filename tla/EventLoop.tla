------------------------------ MODULE EventLoop ------------------------------
(***************************************************************************)
(* The event loop over epoll (lib/common/socket/evloop.c.h and             *)
(* evloop/epoll.c.h) and the reading and writing sides of a socket         *)
(* (lib/common/socket.c): partial writes, TLS records, vectors that are    *)
(* pulled, zero-copy buffers, closing and exporting.                       *)
(*                                                                         *)
(* `k` is what the kernel keeps for a descriptor: the room of the send     *)
(* buffer, what was put on the wire, unread bytes, the registration with   *)
(* epoll, the zero-copy sends it still holds.  A byte is a number; bytes   *)
(* are written in increasing order.  A callback of the application is a    *)
(* phase in which the application calls the operations of this module.     *)
(***************************************************************************)
EXTENDS Integers, Sequences, FiniteSets, SequencesExt

CONSTANTS
    Socks,          \* sockets
    Buffers,        \* memory of h2o_socket_zerocopy_buffer_allocator and of h2o_socket_ssl_buffer_allocator
    MaxRoom,        \* room of the kernel's send buffer
    Capacity,       \* bytes a TLS output buffer holds
    SmallRecord,    \* payload of a TLS record while little was written
    Slow,           \* bytes_written below which records are small: 64KB
    ZerocopyMin,    \* a send of fewer bytes is copied: 4096
    MaxWrite,       \* h2o_evloop_socket_max_write_size
    Wrap,           \* the kernel's zero-copy counter wraps at this: 2^32
    Scenes

VARIABLE ev

NoBuf == 0
Bytes(n, from) == [i \in 1..n |-> from + i]
Least(a, b) == IF a < b THEN a ELSE b
Rest(s, n) == SubSeq(s, n + 1, Len(s))
Total(bufs) == Len(FlattenSeq(bufs))
Without(s, x) == SelectSeq(s, LAMBDA y : y # x)

-----------------------------------------------------------------------------
(* One socket.  `mem` is the memory no one uses, `owned` counts            *)
(* h2o_socket_num_zerocopy_buffers_inflight; both travel with the socket   *)
(* while it works and are put back by Put.                                 *)

Kernel(room) == [room |-> room, wire |-> <<>>, reset |-> FALSE, unread |-> 0, eof |-> FALSE,
                 reg |-> FALSE, events |-> {}, edge |-> FALSE, sends |-> {}, next |-> 0, notes |-> <<>>]

NewSocket(flags, tls, zerocopy, room) ==
    [life |-> "open", fd |-> TRUE, flags |-> flags, read |-> FALSE, write |-> "none", held |-> TRUE,
     bufs |-> <<>>, done |-> 0, err |-> FALSE, stop |-> FALSE, sendvec |-> <<>>,
     tls |-> tls, fatal |-> FALSE, out |-> [base |-> NoBuf, bytes |-> <<>>, owned |-> FALSE],
     zerocopy |-> zerocopy, first |-> 0, inflight |-> <<>>,
     given |-> 0, cur |-> 0, prev |-> 0, fresh |-> FALSE, told |-> "none",
     latency |-> "tbd", record |-> 0, minimized |-> FALSE,
     input |-> 0, k |-> Kernel(room), mem |-> {}, owned |-> 0, failed |-> {}]

Absent == [NewSocket({}, "no", FALSE, 0) EXCEPT !.life = "none", !.fd = FALSE, !.held = FALSE]

Asserted(r, ok, name) == IF ok THEN r ELSE [r EXCEPT !.failed = @ \cup {name}]
Has(r, flag) == flag \in r.flags
Pending(r) == r.out.base # NoBuf                        \* has_pending_ssl_bytes

\* h2o_mem_free_recycle
Recycle(r, b) == Asserted([r EXCEPT !.mem = @ \cup {b}], b \notin r.mem, "freed twice")

\* h2o_mem_alloc_recycle
InitOutput(r) ==
    LET b == CHOOSE x \in r.mem : \A y \in r.mem : x <= y
    IN  [r EXCEPT !.mem = @ \ {b}, !.out = [base |-> b, bytes |-> <<>>, owned |-> FALSE]]
DisposeOutput(r) ==
    [(IF r.out.owned THEN r ELSE Recycle(r, r.out.base)) EXCEPT !.out = [base |-> NoBuf, bytes |-> <<>>, owned |-> FALSE]]

-----------------------------------------------------------------------------
(* Zero copy.                                                              *)

PushBuffer(r) ==
    [r EXCEPT !.inflight = Append(@, r.out.base), !.out.owned = TRUE, !.owned = IF r.out.owned THEN @ ELSE @ + 1,
              !.k.sends = @ \cup {[id |-> r.k.next, base |-> r.out.base]}, !.k.next = @ + 1]

\* the nearest entries that are not released yet
NextEntry(q, i) == LET s == {j \in (i + 1)..Len(q) : q[j] # NoBuf} IN IF s = {} THEN NoBuf ELSE q[CHOOSE j \in s : \A x \in s : j <= x]
PrevEntry(q, i) == LET s == {j \in 1..(i - 1) : q[j] # NoBuf} IN IF s = {} THEN NoBuf ELSE q[CHOOSE j \in s : \A x \in s : j >= x]

\* the entries before the first that is not released are dropped
InOrder(r, q) ==
    LET kept == {j \in 2..Len(q) : q[j] # NoBuf}
        first == IF kept = {} THEN Len(q) + 1 ELSE CHOOSE j \in kept : \A x \in kept : j <= x
    IN  [r EXCEPT !.inflight = SubSeq(q, first, Len(q)), !.first = @ + first - 1]

ReleaseSlot(r, slot) == IF slot = 1 THEN InOrder(r, r.inflight) ELSE [r EXCEPT !.inflight[slot] = NoBuf]

\* the memory goes back, unless TLS still has bytes in it
Returned(r, p) ==
    [(IF p = r.out.base THEN [Asserted(r, r.out.owned, "zerocopy_owned") EXCEPT !.out.owned = FALSE] ELSE Recycle(r, p))
        EXCEPT !.owned = @ - 1]

ReleaseEntry(r, slot, p) ==
    IF p \in {NextEntry(r.inflight, slot), PrevEntry(r.inflight, slot)} THEN ReleaseSlot(r, slot) ELSE Returned(ReleaseSlot(r, slot), p)

ReleaseCounter(r, slot) ==
    IF slot \notin DOMAIN r.inflight THEN Asserted(r, FALSE, "free_slot < last")
    ELSE IF r.inflight[slot] = NoBuf THEN Asserted(r, FALSE, "free_ptr != NULL")
    ELSE ReleaseEntry(r, slot, r.inflight[slot])

\* the wrapped value converted back
Unwrap(first, c32) == LET c == (first \div Wrap) * Wrap + c32 IN IF c < first THEN c + Wrap ELSE c
ReleaseOne(r, c32) == ReleaseCounter(r, Unwrap(r.first, c32) - r.first + 1)

\* for (c32 = ee_info; c32 <= ee_data; ++c32): does not end when ee_data is the largest value
ReleaseRange(r, note) ==
    LET released == FoldLeft(ReleaseOne, r, [i \in 1..(note.hi - note.lo + 1) |-> note.lo + i - 1])
    IN  IF note.hi = Wrap - 1 THEN ReleaseOne(released, 0) ELSE released

HandleNotification(r) == [FoldLeft(ReleaseRange, r, r.k.notes) EXCEPT !.k.notes = <<>>]

-----------------------------------------------------------------------------
(* Writing.                                                                *)

\* drop the vectors that were written as a whole, and count what was written of the next
Advanced(r, n) ==
    LET whole(i) == Total(SubSeq(r.bufs, 1, i))
        c == CHOOSE i \in 0..Len(r.bufs) : whole(i) <= n /\ (i = Len(r.bufs) \/ whole(i + 1) > n)
    IN  [r EXCEPT !.bufs = Rest(@, c), !.done = n - whole(c)]

ToWire(r, bytes) == [r EXCEPT !.k.wire = @ \o bytes, !.k.room = @ - Len(bytes)]

WriteVecs(r) ==
    IF r.bufs = <<>> THEN [r EXCEPT !.done = 0]
    ELSE IF r.k.reset THEN [r EXCEPT !.err = TRUE]
    ELSE IF r.k.room = 0 /\ Total(r.bufs) > 0 THEN [r EXCEPT !.done = 0]
    ELSE LET n == Least(r.k.room, Total(r.bufs)) IN ToWire(Advanced(r, n), SubSeq(FlattenSeq(r.bufs), 1, n))

\* flatten_sendvec, and the slot at the end of the vectors
Flatten(r) == IF r.sendvec = <<>> THEN r ELSE [r EXCEPT !.bufs = Append(@, r.sendvec), !.sendvec = <<>>]

RecordSize(r) ==
    IF r.latency \in {"tbd", "disabled"} THEN (IF r.given < Slow THEN SmallRecord ELSE Capacity) ELSE r.record
\* how much of a vector becomes records now
OneVec(r, left, size, space) ==
    IF size < left THEN (IF space < size THEN 0 ELSE size) ELSE Least(space, left)
CalcWriteSize(r) == IF r.latency = "determined" THEN [r EXCEPT !.latency = "update"] ELSE r

Encrypted(r, n) ==
    LET d == r.done + n
        q == [r EXCEPT !.out.bytes = @ \o SubSeq(r.bufs[1], r.done + 1, d)]
    IN  IF n = 0 THEN [r EXCEPT !.stop = TRUE]
        ELSE IF d = Len(r.bufs[1]) THEN [q EXCEPT !.bufs = Tail(@), !.done = 0] ELSE [q EXCEPT !.done = d]
FromOneVec(r) ==
    IF r.fatal THEN [r EXCEPT !.err = TRUE, !.stop = TRUE]
    ELSE CalcWriteSize(Encrypted(r, OneVec(r, Len(r.bufs[1]) - r.done, RecordSize(r), Capacity - Len(r.out.bytes))))
GenerateStep(r, i) ==
    IF r.stop \/ r.bufs = <<>> THEN r
    ELSE IF Head(r.bufs) = <<>> THEN [r EXCEPT !.bufs = Tail(@)]
    ELSE FromOneVec(IF Pending(r) THEN r ELSE InitOutput(r))
GenerateRecords(r) == [FoldLeft(GenerateStep, r, [i \in 1..(Capacity + Len(r.bufs) + 1) |-> i]) EXCEPT !.stop = FALSE]

\* bytes that are encrypted already
SentOutput(r, n) ==
    LET q == ToWire(r, SubSeq(r.out.bytes, 1, n))
    IN  IF n = Len(r.out.bytes) THEN DisposeOutput(q) ELSE [q EXCEPT !.out.bytes = Rest(@, n), !.stop = TRUE]
SendOutput(r, n, zerocopy) == SentOutput(IF zerocopy /\ n > 0 THEN PushBuffer(r) ELSE r, n)
FlushOutput(r) ==
    IF ~Pending(r) THEN r
    ELSE IF r.k.reset THEN [DisposeOutput(r) EXCEPT !.err = TRUE, !.stop = TRUE]
    ELSE SendOutput(r, Least(r.k.room, Len(r.out.bytes)), r.zerocopy /\ Len(r.out.bytes) >= ZerocopyMin)

MoreRecords(r) == IF r.stop THEN r ELSE IF r.bufs = <<>> THEN [r EXCEPT !.stop = TRUE] ELSE GenerateRecords(r)
CoreStep(r, i) == IF r.stop \/ r.err THEN r ELSE MoreRecords(FlushOutput(r))
CoreLoop(r) == [FoldLeft(CoreStep, [r EXCEPT !.stop = FALSE, !.done = 0], [i \in 1..(Total(r.bufs) + 3) |-> i]) EXCEPT !.stop = FALSE]
WriteCore(r) ==
    IF r.tls \in {"no", "kernel"} THEN WriteVecs(Asserted(r, ~Pending(r), "has_pending_ssl_bytes")) ELSE CoreLoop(Flatten(r))

\* sendvec_core
SendVecCore(r) ==
    IF r.k.reset THEN [r EXCEPT !.err = TRUE]
    ELSE ToWire([r EXCEPT !.sendvec = Rest(@, Least(r.k.room, Len(@)))], SubSeq(r.sendvec, 1, Least(r.k.room, Len(r.sendvec))))

\* mutant: buf[0] is kept as a whole
ShiftedNot(r) == [r EXCEPT !.done = 0]
\* buf[0] moved forward by what was written of it: init_write_buf, and the end of write_pending
Shifted(r) == IF r.bufs = <<>> THEN r ELSE [r EXCEPT !.bufs[1] = Rest(@, r.done), !.done = 0]

-----------------------------------------------------------------------------
(* The loop.  `client`, `server` and `changed` are the lists of sockets.   *)

Sock(s) == [ev.sk[s] EXCEPT !.mem = ev.mem, !.owned = ev.owned]
Put(c, s, r) ==
    [c EXCEPT !.sk[s] = [r EXCEPT !.mem = {}, !.owned = 0, !.failed = {}, !.err = FALSE],
              !.mem = r.mem, !.owned = r.owned, !.failed = @ \cup r.failed]
With(c, s) == [c.sk[s] EXCEPT !.mem = c.mem, !.owned = c.owned]

Linked(q, s) == \E i \in DOMAIN q : q[i] = s
LinkToPending(c, s) ==
    IF Linked(c.client \o c.server, s) THEN c
    ELSE IF Has(c.sk[s], "accepted") THEN [c EXCEPT !.server = <<s>> \o @] ELSE [c EXCEPT !.client = <<s>> \o @]
LinkToChanged(c, s) == IF Linked(c.changed, s) THEN c ELSE [c EXCEPT !.changed = Append(@, s)]
NotifyWritten(c, s) == LinkToPending([c EXCEPT !.sk[s].flags = @ \cup {"write_notify"}], s)

\* report_early_write_error: a vector stands for the error
ReportEarlyError(c, s, r) == NotifyWritten(Put(c, s, [r EXCEPT !.bufs = <<<<0>>>>]), s)
WriteDone(c, s, r) == NotifyWritten(Put(c, s, [r EXCEPT !.cur = r.given]), s)
\* mutant: the change of state is not noted
ScheduleWriteSilently(c, s, r) == Put(c, s, r)
ScheduleWrite(c, s, r) == LinkToChanged(Put(c, s, r), s)

WroteSendVec(c, s, r) ==
    IF r.err THEN ReportEarlyError(c, s, r)
    ELSE IF r.sendvec # <<>> THEN ScheduleWrite(c, s, r) ELSE WriteDone(c, s, r)
Wrote(c, s, r) ==
    IF r.err THEN ReportEarlyError(c, s, r)
    ELSE IF r.bufs # <<>> \/ Pending(r) THEN ScheduleWrite(c, s, Shifted(r))
    ELSE IF r.sendvec # <<>> THEN WroteSendVec(c, s, SendVecCore(r)) ELSE WriteDone(c, s, r)
DoWrite(c, s, r) ==
    IF r.fresh /\ r.cur - r.prev >= MaxWrite THEN ScheduleWrite(c, s, r)
    ELSE Wrote(c, s, WriteCore(IF r.fresh THEN r ELSE [r EXCEPT !.prev = r.cur, !.fresh = TRUE]))

\* write_pending
PendingEnd(c, s, r) == LinkToChanged(NotifyWritten(Put(c, s, [r EXCEPT !.cur = r.given]), s), s)
PendingVec(c, s, r) == IF ~r.err /\ r.sendvec # <<>> THEN Put(c, s, r) ELSE PendingEnd(c, s, r)
PendingBufs(c, s, r) ==
    IF ~r.err /\ (r.bufs # <<>> \/ Pending(r)) THEN Put(c, s, Shifted(r))
    ELSE IF r.sendvec # <<>> /\ r.bufs = <<>> /\ ~Pending(r) THEN PendingVec(c, s, SendVecCore(r))
    ELSE PendingEnd(c, s, r)
WritePending(c, s) ==
    PendingBufs(c, s, WriteCore(Asserted(With(c, s), c.sk[s].write # "none", "_cb.write")))

-----------------------------------------------------------------------------
(* Disposal.                                                               *)

CloseFd(k) == [k EXCEPT !.reg = FALSE, !.events = {}, !.edge = FALSE]

\* evloop_do_on_socket_close: with sends in flight the socket is shut down and watched by its edges
Disposed(r) == [r EXCEPT !.flags = {"disposed"} \cup (@ \cap {"registered"}), !.held = FALSE, !.bufs = <<>>, !.input = 0]
ShutdownZerocopy(c, s, r) ==
    LET q == HandleNotification([r EXCEPT !.flags = @ \cup {"registered"},
                                          !.k = [@ EXCEPT !.reg = TRUE, !.events = {"et"}, !.edge = FALSE, !.reset = TRUE]])
    IN  IF r.k.notes # <<>> /\ q.inflight = <<>> THEN LinkToChanged(Put(c, s, q), s) ELSE Put(c, s, q)
DoDispose(c, s, r) ==
    IF r.fd /\ r.zerocopy /\ r.inflight # <<>> THEN ShutdownZerocopy(c, s, Disposed(r))
    ELSE LinkToChanged(Put(c, s, [Disposed(r) EXCEPT !.fd = FALSE, !.k = CloseFd(@)]), s)

\* dispose_socket, destroy_ssl
Dispose(c, s, r) == DoDispose(c, s, [(IF Pending(r) THEN DisposeOutput(r) ELSE r) EXCEPT !.tls = "no"])

\* shutdown_ssl: a close_notify is written before the socket is disposed of
CloseNotify(c, s, r) ==
    DoWrite(LinkToChanged(c, s), s, [(IF Pending(r) THEN r ELSE InitOutput(r))
        EXCEPT !.out.bytes = Append(@, 0), !.read = FALSE, !.flags = @ \ {"read_ready"}, !.write = "dispose", !.held = FALSE])
CloseSocket(c, s, r) ==
    IF r.tls \in {"no", "kernel"} THEN Dispose(c, s, r)
    ELSE IF r.write # "none" THEN Dispose(c, s, [r EXCEPT !.write = "none"])
    ELSE IF r.fatal THEN Dispose(c, s, r) ELSE CloseNotify(c, s, r)

-----------------------------------------------------------------------------
(* h2o_evloop_run.                                                         *)

Step1(c, phase) == [c EXCEPT !.phase = phase]

\* update_status, for the first socket of the list
Interest(r) == (IF r.read THEN {"in"} ELSE {}) \cup (IF r.write # "none" THEN {"out"} ELSE {})
Polled(r) == (IF Has(r, "polled_read") THEN {"in"} ELSE {}) \cup (IF Has(r, "polled_write") THEN {"out"} ELSE {})
PolledFlags(i) == (IF "in" \in i THEN {"polled_read"} ELSE {}) \cup (IF "out" \in i THEN {"polled_write"} ELSE {})
ChangeMode(r) ==
    IF Interest(r) = Polled(r) THEN r
    ELSE [Asserted(r, Has(r, "registered") = r.k.reg, "epoll_ctl")
            EXCEPT !.flags = (@ \ {"polled_read", "polled_write"}) \cup PolledFlags(Interest(r)) \cup {"registered"},
                   !.k.reg = TRUE, !.k.events = Interest(r)]
FreeSocket(r) == IF r.zerocopy /\ r.inflight # <<>> THEN r ELSE [r EXCEPT !.life = "freed", !.fd = FALSE, !.k = CloseFd(@)]
UpdateOne(c, s) == Put(c, s, IF Has(c.sk[s], "disposed") THEN FreeSocket(With(c, s)) ELSE ChangeMode(With(c, s)))
UpdateStatus(c) == [FoldLeft(UpdateOne, c, c.changed) EXCEPT !.changed = <<>>]

Proceed ==
    /\ ev.phase = "status"
    /\ ev' = Step1(UpdateStatus([ev EXCEPT !.sk = [s \in Socks |-> [@[s] EXCEPT !.fresh = FALSE]], !.timers = 1]), "poll")

\* what epoll_wait reports of a descriptor
Ready(k) ==
    IF ~k.reg THEN {}
    ELSE IF "et" \in k.events THEN (IF k.edge THEN {"err", "hup"} ELSE {})
    ELSE (k.events \cap ((IF k.unread > 0 \/ k.eof \/ k.reset THEN {"in"} ELSE {}) \cup (IF k.room > 0 THEN {"out"} ELSE {})))
         \cup (IF k.reset THEN {"hup", "err"} ELSE {}) \cup (IF k.notes # <<>> THEN {"err"} ELSE {})
ReadySocks == {s \in Socks : Ready(ev.sk[s].k) # {}}

EpollWait(got) ==
    /\ ev.phase = "poll"
    /\ ev' = [ev EXCEPT !.phase = "events", !.events = SetToSeq(got),
                        !.sk = [s \in Socks |-> IF s \in got THEN [@[s] EXCEPT !.k.edge = FALSE] ELSE @[s]]]

\* one event: a HUP no one polls for, a zero-copy notification, then reading and writing
UnregisterHup(r, e) ==
    IF "hup" \in e /\ Polled(r) = {} /\ ~(r.zerocopy /\ Has(r, "disposed"))
    THEN [Asserted(r, Has(r, "registered"), "EPOLL_IS_REGISTERED") EXCEPT !.flags = @ \ {"registered"}, !.k = CloseFd(@)]
    ELSE r
Notified(r, e) == "err" \in e /\ r.zerocopy /\ r.k.notes # <<>>
AfterNotification(c, s, r, e) ==
    IF Notified(r, e)
    THEN LET q == HandleNotification(r)
         IN  IF Has(q, "disposed") /\ q.inflight = <<>> THEN LinkToChanged(Put(c, s, q), s) ELSE Put(c, s, q)
    ELSE Put(c, s, r)
ReadEvent(c, s, e) ==
    IF e \cap {"in", "hup", "err"} # {} /\ Has(c.sk[s], "polled_read")
    THEN LinkToPending([c EXCEPT !.sk[s].flags = @ \cup {"read_ready"}], s) ELSE c
WriteEvent(c, s, e) == IF e \cap {"out", "hup", "err"} # {} /\ Has(c.sk[s], "polled_write") THEN WritePending(c, s) ELSE c
EventsOf(r, e) == IF Notified(r, e) THEN e \ {"err"} ELSE e
ReadWrite(c, s, e) == WriteEvent(ReadEvent(c, s, e), s, e)
OnEvent(c, s, r, e) == ReadWrite(AfterNotification(c, s, UnregisterHup(r, e), e), s, EventsOf(r, e))

HandleEvent ==
    /\ ev.phase = "events" /\ ev.events # <<>>
    /\ LET s == Head(ev.events)
           e == Ready(ev.sk[s].k) \cup (IF "et" \in ev.sk[s].k.events THEN {"err", "hup"} ELSE {})
       IN  ev' = OnEvent([ev EXCEPT !.events = Tail(@)], s,
                         Asserted(Sock(s), ev.sk[s].life = "open", "event of a freed socket"), e)
EventsDone ==
    /\ ev.phase = "events" /\ ev.events = <<>>
    /\ ev' = Step1(ev, "pending")

\* run_pending: the sockets to the servers first, then one of a client
PopPending(c) ==
    IF c.client # <<>> THEN [c EXCEPT !.cur = Head(c.client), !.client = Tail(@)]
    ELSE [c EXCEPT !.cur = Head(c.server), !.server = Tail(@)]

\* on_read_core: what is read goes to the application, or to TLS
ReadCore(r) ==
    IF r.k.reset THEN [r EXCEPT !.err = TRUE]
    ELSE IF r.k.unread > 0 THEN [r EXCEPT !.input = 1, !.k.unread = @ - 1]
    ELSE IF r.k.eof THEN [r EXCEPT !.err = TRUE] ELSE r
RunRead(c, s) ==
    Step1(Put(c, s, [ReadCore(Asserted(With(c, s), c.sk[s].read, "_cb.read")) EXCEPT !.flags = @ \ {"read_ready"}]), "read")

\* the part of run_socket after the read callback
Incomplete(r) == r.bufs # <<>> \/ Pending(r) \/ r.sendvec # <<>>
ClearWrite(r) == [(IF Pending(r) THEN DisposeOutput(r) ELSE r) EXCEPT !.bufs = <<>>, !.sendvec = <<>>]
ConnectError(r) == Has(r, "connecting") /\ r.k.reset /\ ~Has(r, "connected")
Tell(r, told) == [r EXCEPT !.told = told, !.flags = @ \ {"write_notify", "connecting", "connected"}]
WriteResult(r) ==
    IF Incomplete(r) THEN [Tell(ClearWrite(r), "error") EXCEPT !.flags = r.flags \ {"write_notify"}]
    ELSE Tell(r, IF ConnectError(r) THEN "error" ELSE "ok")
\* on_write_complete: dispose_socket is the callback of the close_notify
CallWritten(c, s, r) ==
    IF r.write = "dispose" THEN Step1(Dispose(c, s, [r EXCEPT !.write = "none"]), "pending")
    ELSE Step1(Put(c, s, [r EXCEPT !.write = "none"]), "write")
RunWritten(c, s) ==
    IF Has(c.sk[s], "write_notify")
    THEN CallWritten(c, s, WriteResult(Asserted(With(c, s), c.sk[s].write # "none", "write callback")))
    ELSE Step1(c, "pending")

RunSocket(c, s) ==
    IF Has(c.sk[s], "disposed") THEN Asserted(c, c.sk[s].life = "open", "run of a freed socket")
    ELSE IF Has(c.sk[s], "read_ready") THEN RunRead(c, s)
    ELSE RunWritten(c, s)
RunPopped(c) == RunSocket(c, c.cur)
RunPending ==
    /\ ev.phase = "pending" /\ ev.client \o ev.server # <<>>
    /\ ev' = RunPopped(PopPending(ev))

\* the callbacks return
ReadReturns ==
    /\ ev.phase = "read"
    /\ ev' = RunWritten(ev, ev.cur)
WriteReturns ==
    /\ ev.phase = "write"
    /\ ev' = Step1(ev, "pending")

\* the expired timers, one callback after another, each followed by run_pending
TimerFires ==
    /\ ev.phase = "pending" /\ ev.client \o ev.server = <<>> /\ ev.timers > 0 /\ ev.scene.timers
    /\ ev' = [ev EXCEPT !.phase = "timer", !.timers = @ - 1]
TimerReturns ==
    /\ ev.phase = "timer"
    /\ ev' = Step1(ev, "pending")
RunEnds ==
    /\ ev.phase = "pending" /\ ev.client \o ev.server = <<>>
    /\ ev' = Step1(ev, "status")

-----------------------------------------------------------------------------
(* The application: what it calls in a callback.                           *)

InCallback(op) == ev.phase \in {"read", "write", "timer"} /\ ev.calls > 0 /\ op \in ev.scene.ops
Called(c) == [c EXCEPT !.calls = @ - 1]
Mine(s) == ev.sk[s].life = "open" /\ ev.sk[s].held
\* on a socket whose connection was made and did not fail
Usable(s) == Mine(s) /\ ev.sk[s].write = "none" /\ ~Has(ev.sk[s], "connecting") /\ ev.sk[s].told # "error"

Given(r, n) == [r EXCEPT !.write = "app", !.given = @ + n, !.told = "none"]
Vectors(lens, from) == [i \in DOMAIN lens |-> Bytes(lens[i], from + Total([j \in 1..(i - 1) |-> Bytes(lens[j], 0)]))]
Sum(lens) == Total([i \in DOMAIN lens |-> Bytes(lens[i], 0)])

Write(s, lens) ==
    /\ InCallback("write") /\ Usable(s)
    /\ ev' = Called(DoWrite(ev, s, [Given(Sock(s), Sum(lens)) EXCEPT !.bufs = Vectors(lens, ev.sk[s].given)]))

\* h2o_socket_sendvec with a last vector that is pulled, or sent by its own callback
LoadNow(r) == r.tls \in {"no", "kernel"} /\ ~ev.scene.sends
SwitchToKtls(r) == IF r.tls = "tbd" /\ r.given >= Slow THEN [r EXCEPT !.tls = ev.scene.ktls] ELSE r
VecQueued(r, n) ==
    IF LoadNow(r) THEN [r EXCEPT !.bufs = <<Bytes(n, r.given - n)>>]
    ELSE [Asserted(r, r.sendvec = <<>>, "sendvec.callbacks") EXCEPT !.sendvec = Bytes(n, r.given - n)]
SendVec(s, n) ==
    /\ InCallback("sendvec") /\ Usable(s)
    /\ ev' = Called(DoWrite(ev, s, VecQueued(SwitchToKtls(Given(Sock(s), n)), n)))

NotifyWrite(s) ==
    /\ InCallback("notify") /\ Usable(s)
    /\ ev' = Called(LinkToChanged(Put(ev, s, [Asserted(Sock(s), ~Incomplete(ev.sk[s]), "h2o_socket_notify_write")
                                                EXCEPT !.write = "app", !.told = "none"]), s))
ReadStart(s) ==
    /\ InCallback("start") /\ Mine(s) /\ ~ev.sk[s].read
    /\ ev' = Called(LinkToChanged([ev EXCEPT !.sk[s].read = TRUE], s))
ReadStop(s) ==
    /\ InCallback("stop") /\ Mine(s) /\ ev.sk[s].read
    /\ ev' = Called(LinkToChanged([ev EXCEPT !.sk[s].read = FALSE, !.sk[s].flags = @ \ {"read_ready"}], s))
Close(s) ==
    /\ InCallback("close") /\ Mine(s)
    /\ ev' = Called(CloseSocket(ev, s, Sock(s)))

\* h2o_socket_export: the descriptor leaves with what TLS knows
Exported(r) == [Asserted(r, ~r.zerocopy /\ r.write = "none", "h2o_socket_export") EXCEPT !.fd = FALSE, !.tls = "no", !.k = CloseFd(@),
                                                                                        !.out = [@ EXCEPT !.bytes = <<>>]]
Export(s) ==
    /\ InCallback("export") /\ Mine(s) /\ ev.sk[s].write = "none" /\ ~ev.sk[s].zerocopy
    /\ ev' = Called(DoDispose(ev, s, Exported(Sock(s))))

\* h2o_socket_connect: established at once, or awaited as a write
Connected(r, now) == [r EXCEPT !.write = "app", !.flags = {"connecting"} \cup IF now THEN {"connected", "write_notify"} ELSE {}]
Connect(s, now) ==
    /\ InCallback("connect") /\ ev.sk[s].life = "none"
    /\ LET c == Put(ev, s, [Connected(NewSocket({}, "no", FALSE, IF now THEN MaxRoom ELSE 0), now) EXCEPT !.mem = ev.mem, !.owned = ev.owned])
       IN  ev' = Called(IF now THEN LinkToPending(c, s) ELSE LinkToChanged(c, s))

\* h2o_socket_prepare_for_latency_optimized_write, by the state of the connection
Prepared(r, info) ==
    CASE info = "no" -> [r EXCEPT !.latency = "disabled", !.record = Capacity, !.minimized = FALSE]
      [] info = "small" -> [r EXCEPT !.latency = "determined", !.record = SmallRecord, !.minimized = TRUE]
      [] info = "large" -> [r EXCEPT !.latency = "determined", !.record = Capacity, !.minimized = FALSE]
PrepareLatency(s, info) ==
    /\ InCallback("latency") /\ Usable(s) /\ ev.sk[s].latency \in {"tbd", "update"}
    /\ ev' = Called([ev EXCEPT !.sk[s] = Prepared(@, info)])

-----------------------------------------------------------------------------
(* The kernel and the peer, while the loop waits.                          *)

Kernels(s) == ev.phase = "poll" /\ ev.sk[s].fd
Env(op) == op \in ev.scene.env
Drain(s, n) ==
    /\ Kernels(s) /\ ev.sk[s].k.room < n /\ ~ev.sk[s].k.reset
    /\ ev' = [ev EXCEPT !.sk[s].k.room = n]
Arrive(s) ==
    /\ Kernels(s) /\ Env("data") /\ ev.sk[s].k.unread = 0 /\ ~ev.sk[s].k.eof /\ ~ev.sk[s].k.reset
    /\ ev' = [ev EXCEPT !.sk[s].k.unread = 1]
PeerEof(s) ==
    /\ Kernels(s) /\ Env("eof") /\ ~ev.sk[s].k.eof /\ ~ev.sk[s].k.reset
    /\ ev' = [ev EXCEPT !.sk[s].k.eof = TRUE]
PeerReset(s) ==
    /\ Kernels(s) /\ Env("reset") /\ ~ev.sk[s].k.reset
    /\ ev' = [ev EXCEPT !.sk[s].k.reset = TRUE, !.sk[s].k.edge = TRUE]
\* OpenSSL met a fatal error while reading: nothing can be encrypted any more
TlsFatal(s) ==
    /\ ev.phase = "read" /\ Env("fatal") /\ s = ev.cur /\ ev.sk[s].tls = "user" /\ ~ev.sk[s].fatal
    /\ ev' = [ev EXCEPT !.sk[s].fatal = TRUE]
\* sends that are complete are told as a range of counters
CompleteSends(s, lo, hi) ==
    /\ Kernels(s) /\ {n.id : n \in {x \in ev.sk[s].k.sends : x.id \in lo..hi}} = lo..hi
    /\ ev' = [ev EXCEPT !.sk[s].k = [@ EXCEPT !.sends = {x \in @ : x.id \notin lo..hi}, !.edge = TRUE,
                                              !.notes = Append(@, [lo |-> lo % Wrap, hi |-> hi % Wrap])]]

-----------------------------------------------------------------------------

\* socket 1 has been accepted, the others are not there yet
Accepted(scene) ==
    [NewSocket({"accepted"}, scene.tls, scene.zerocopy, scene.room) EXCEPT !.read = scene.reads]
Init ==
    \E scene \in Scenes :
        ev = [scene |-> scene, phase |-> "status", cur |-> 1, events |-> <<>>, client |-> <<>>, server |-> <<>>,
              changed |-> <<1>>, sk |-> [s \in Socks |-> IF s = 1 THEN Accepted(scene) ELSE Absent],
              mem |-> Buffers, owned |-> 0, timers |-> 0, calls |-> scene.calls, failed |-> {}]

Step ==
    \/ Proceed \/ HandleEvent \/ EventsDone \/ RunPending \/ ReadReturns \/ WriteReturns \/ TimerFires \/ TimerReturns \/ RunEnds
    \/ \E got \in SUBSET ReadySocks : EpollWait(got)
    \/ \E s \in Socks :
        \/ \E lens \in ev.scene.writes : Write(s, lens)
        \/ SendVec(s, 2) \/ NotifyWrite(s) \/ ReadStart(s) \/ ReadStop(s) \/ Close(s) \/ Export(s)
        \/ Arrive(s) \/ PeerEof(s) \/ PeerReset(s) \/ TlsFatal(s)
        \/ \E now \in BOOLEAN : Connect(s, now)
        \/ \E info \in {"no", "small", "large"} : PrepareLatency(s, info)
        \/ \E n \in ev.scene.rooms : Drain(s, n)
        \/ \E n \in ev.sk[s].k.sends : \E m \in ev.sk[s].k.sends : n.id <= m.id /\ CompleteSends(s, n.id, m.id)

Next == ev.failed = {} /\ Step
Spec == Init /\ [][Next]_ev

-----------------------------------------------------------------------------


\* No assertion of the loop or of a socket fails, no buffer is returned twice, no freed socket is run.
NoAssertionFails == ev.failed = {}

\* When the loop waits, a socket that is read or written is watched for it, and nothing else is left to run.
NoLostWakeup ==
    ev.phase = "poll" =>
        /\ ev.client \o ev.server \o ev.changed = <<>>
        /\ \A s \in Socks : LET r == ev.sk[s] IN
             (r.life = "open" /\ ~Has(r, "disposed")) =>
                /\ Interest(r) \subseteq r.k.events \/ Interest(r) = {}
                /\ (Interest(r) # {} => r.k.reg)

\* Bytes reach the wire in order, once each; a write that is told to be complete was written as a whole.
WireIsIntact ==
    \A s \in Socks : LET r == ev.sk[s]
                         sent == SelectSeq(r.k.wire, LAMBDA b : b # 0)
                     IN  /\ sent = Bytes(Len(sent), 0)
                         /\ (r.told = "ok" /\ r.write = "none" /\ ~r.k.reset) => Len(sent) = r.given

\* As above, for a connection that was reset too: an error of the last bytes is reported as an error.
WriteErrorIsReported ==
    \A s \in Socks : LET r == ev.sk[s] IN (ev.phase = "write" /\ ev.cur = s /\ r.told = "ok") => Len(r.k.wire) >= r.given

\* Memory the kernel still reads is not used for anything else; all of it comes back; the counter of it is exact.
BuffersAreKept ==
    LET used(s) == {ev.sk[s].inflight[i] : i \in DOMAIN ev.sk[s].inflight} \ {NoBuf}
        held == UNION {used(s) \cup ({ev.sk[s].out.base} \ {NoBuf}) : s \in Socks}
    IN  /\ \A s \in Socks : \A n \in ev.sk[s].k.sends : n.base \in used(s)
        /\ held \cap ev.mem = {} /\ held \cup ev.mem = Buffers
        /\ ev.owned = Cardinality(UNION {used(s) : s \in Socks})

\* A socket that was closed is freed, unless the kernel still holds its memory.
ClosedAreFreed ==
    \A s \in Socks : LET r == ev.sk[s] IN
        (Has(r, "disposed") /\ r.life = "open" /\ ev.phase = "poll") => (r.inflight # <<>> /\ r.k.reg)
=============================================================================
