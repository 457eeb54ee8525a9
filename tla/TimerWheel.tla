----------------------------- MODULE TimerWheel -----------------------------
(***************************************************************************)
(* lib/common/timerwheel.c: the timers of an event loop, kept in wheels of *)
(* 2^Bits slots, each wheel coarser than the one before it by that factor. *)
(* The wheel number and the slot number of an entry are computed as in the *)
(* code, from the highest bit of its delay and from its absolute time.     *)
(*                                                                         *)
(* Callbacks run one at a time, after the expired entries have been taken  *)
(* off the wheels; a callback may link and unlink any timer, an expired    *)
(* one whose turn has not come yet included.                               *)
(***************************************************************************)
EXTENDS Integers, Sequences, FiniteSets, SequencesExt

CONSTANTS Timers,
          Bits,      \* H2O_TIMERWHEEL_BITS_PER_WHEEL
          NumWheels,
          Delays,    \* delays of timers
          Advances,  \* of the clock between two events that wake the loop up
          MaxNow,    \* bound of the clock
          MaxLinks,  \* bound: timers linked
          Scenes     \* [start, rewinds]: the time at which the loop is created, and whether the clock may be set back

VARIABLE tw

Asserted(c, ok, name) == IF ok THEN c ELSE [c EXCEPT !.failed = @ \cup {name}]
SlotsPerWheel == 2^Bits
Span(i) == 2^(Bits * i)
Forever == 2^30   \* UINT64_MAX

-----------------------------------------------------------------------------
(* Where an entry goes.                                                    *)

MaxTicks == Span(NumWheels - 1) * (SlotsPerWheel - 1)
\* timer_wheel
WheelOf(delta) == CHOOSE w \in 0..NumWheels : (w = 0 \/ delta >= Span(w)) /\ delta < Span(w + 1)
\* timer_slot
SlotOf(wheel, at) == (at \div Span(wheel)) % SlotsPerWheel
\* calc_expire_for_slot
SlotBase(last, wheel, slot) == (last - (last % Span(wheel + 1))) + slot * Span(wheel)
IsPast(last, wheel, at) == at < last \/ (wheel # 0 /\ at = last)
SlotMin(last, wheel, slot) ==
    SlotBase(last, wheel, slot) + (IF IsPast(last, wheel, SlotBase(last, wheel, slot)) THEN Span(wheel + 1) ELSE 0)
SlotMax(wheel, least) == IF wheel = NumWheels - 1 THEN Forever ELSE least + Span(wheel) - 1
InSlot(last, wheel, slot, at) == SlotMin(last, wheel, slot) <= at /\ at <= SlotMax(wheel, SlotMin(last, wheel, slot))

\* link_timer, with the check that H2O_TIMER_VALIDATE adds
Put(c, e, wheel, slot) ==
    [Asserted(c, InSlot(c.last, wheel, slot, c.expire[e]), "link_timer: corrupt timer") EXCEPT !.wheels[wheel][slot] = Append(@, e)]
PutAt(c, e, wheel, at) == Put(c, e, wheel, SlotOf(wheel, at))
PutAbs(c, e, at) == PutAt(c, e, WheelOf(at - c.last), at)
LinkTimer(c, e) == PutAbs(c, e, IF c.expire[e] > c.last + MaxTicks THEN c.last + MaxTicks ELSE c.expire[e])
\* h2o_timerwheel_link_abs
LinkAbs(c, e, at) == LinkTimer([c EXCEPT !.expire[e] = IF at < c.last THEN c.last ELSE at], e)

-----------------------------------------------------------------------------
(* h2o_timerwheel_get_expired: one pass of its loops at a time.            *)

\* cascade_one, an entry at a time
CascadeEntry(wheel, slot, c, e) ==
    LET d == LinkTimer(Asserted([c EXCEPT !.wheels[wheel][slot] = Tail(@)], c.expire[e] >= c.last, "cascade_one: corrupt timer"), e)
    IN  Asserted(d, Len(d.wheels[wheel][slot]) < Len(c.wheels[wheel][slot]), "&entry->_link != s->prev")
CascadeOne(c, wheel, slot) == FoldLeft(LAMBDA d, e : CascadeEntry(wheel, slot, d, e), c, c.wheels[wheel][slot])
\* cascade_all: the slots that the carry reaches
\* mutant: the carry stops at the next wheel
CarriedOnce(c, wheel) == {wheel} \cap 0..(NumWheels - 1)
Carried(c, wheel) == {w \in wheel..(NumWheels - 1) : \A v \in wheel..(w - 1) : SlotOf(v, c.last) = 0}
CascadeAll(c, wheel) == FoldLeft(LAMBDA d, w : CascadeOne(d, w, SlotOf(w, c.last)), c, SetToSortSeq(Carried(c, wheel), <))
Cascades(c, wheel) == \E w \in Carried(c, wheel) : c.wheels[w][SlotOf(w, c.last)] # <<>>

Redo(c, wheel) == [c EXCEPT !.wheel = wheel, !.slot = SlotOf(wheel, c.last), !.from = SlotOf(wheel, c.last)]
Exit(c, now) == [Asserted(c, c.last = now, "ctx->last_run == now") EXCEPT !.wheel = NumWheels]
PassFine(c, now) ==
    LET d == [c EXCEPT !.expired = @ \o c.wheels[0][c.slot], !.wheels[0][c.slot] = <<>>]
    IN  IF c.last = now THEN Exit(d, now) ELSE [d EXCEPT !.last = @ + 1, !.slot = @ + 1]
PassCoarse(c, now) ==
    IF c.wheels[c.wheel][c.slot] # <<>> THEN Redo(CascadeOne(c, c.wheel, c.slot), 0)
    ELSE IF c.last + Span(c.wheel) > now THEN Exit([c EXCEPT !.last = now], now)
    ELSE [c EXCEPT !.last = @ + Span(c.wheel), !.slot = @ + 1]
Ended(c, now) == Exit([c EXCEPT !.last = IF @ < now THEN now ELSE @], now)
Carry(c, now, wheel) ==
    IF Cascades(c, wheel) THEN Redo(CascadeAll(c, wheel), 0)
    ELSE IF c.from # 0 THEN Redo(c, c.wheel)
    ELSE IF c.wheel + 1 < NumWheels THEN Redo(c, c.wheel + 1) ELSE Ended(c, now)
Pass(c, now) ==
    CASE c.wheel = NumWheels -> c
      [] c.wheel < NumWheels /\ c.slot = SlotsPerWheel -> Carry(c, now, IF c.wheel # 0 THEN c.wheel ELSE 1)
      [] c.wheel = 0 /\ c.slot < SlotsPerWheel -> PassFine(c, now)
      [] OTHER -> PassCoarse(c, now)
\* enough passes for every slot that the clock can go through, a few at a time
FewPasses == [i \in 1..8 |-> i]
Passes(c, now) == IF c.wheel = NumWheels THEN c ELSE FoldLeft(LAMBDA d, i : Pass(d, now), c, FewPasses)
Rounds == [i \in 1..(SlotsPerWheel * NumWheels + MaxNow) |-> i]
\* "time might rewind if the clock is reset"
GetExpired(c, now) == IF now < c.last THEN c ELSE FoldLeft(LAMBDA d, i : Passes(d, now), Redo(c, 0), Rounds)

-----------------------------------------------------------------------------
(* h2o_timerwheel_get_wake_at: c.wheel, c.slot and c.from are its locals,  *)
(* c.at the time it looks at; c.wheel = NumWheels when it has found one.   *)

Scan(c, wheel) == [c EXCEPT !.wheel = wheel, !.slot = SlotOf(wheel, c.at), !.from = SlotOf(wheel, c.at), !.up = TRUE]
Found(c) == [c EXCEPT !.wheel = NumWheels]
CarryFound(c) == \E w \in (c.wheel + 1)..(NumWheels - 1) :
    c.wheels[w][SlotOf(w, c.at)] # <<>> /\ \A v \in (c.wheel + 1)..(w - 1) : SlotOf(v, c.at) = 0
NextWheel(c) == IF c.wheel + 1 < NumWheels THEN Scan(c, c.wheel + 1) ELSE Found([c EXCEPT !.at = Forever])
ScanCarry(c) ==
    IF CarryFound(c) THEN Found(c) ELSE IF c.from = 0 THEN NextWheel(c) ELSE [c EXCEPT !.slot = 0, !.up = FALSE]
ScanEnd(c) == ScanCarry(IF c.up THEN c ELSE [c EXCEPT !.at = @ + Span(c.wheel) * (SlotsPerWheel - c.from), !.from = 0])
ScanPass(c) ==
    CASE c.wheel = NumWheels -> c
      [] c.wheel < NumWheels /\ c.slot = (IF c.up THEN SlotsPerWheel ELSE c.from) -> ScanEnd(c)
      [] OTHER -> IF c.wheels[c.wheel][c.slot] # <<>> THEN Found(c) ELSE [c EXCEPT !.slot = @ + 1, !.at = @ + Span(c.wheel)]
ScanPasses == [i \in 1..(3 * SlotsPerWheel * NumWheels) |-> i]
WakeAt(c) == FoldLeft(LAMBDA d, i : ScanPass(d), Scan([last |-> c.last, wheels |-> c.wheels, at |-> c.last, wheel |-> 0, slot |-> 0, from |-> 0, up |-> TRUE], 0), ScanPasses).at

-----------------------------------------------------------------------------
(* The loop that owns the wheels.                                          *)

OnWheel(c) == {e \in Timers : \E w \in 0..(NumWheels - 1) : \E s \in 0..(SlotsPerWheel - 1) : e \in ToSet(c.wheels[w][s])}
IsLinked(c, e) == e \in OnWheel(c) \/ e \in ToSet(c.expired)
Without(e, q) == SelectSeq(q, LAMBDA x : x # e)
\* h2o_timerwheel_unlink; nobody reads the time of an entry that is not linked
Unlinked(c, e) ==
    [c EXCEPT !.expire[e] = 0, !.expired = Without(e, @), !.wheels = [w \in DOMAIN @ |-> [s \in DOMAIN @[w] |-> Without(e, @[w][s])]]]
\* between runs, or in a callback, which may link its own timer again
Link == \E e \in Timers, d \in Delays :
    /\ ~IsLinked(tw, e) /\ tw.links < MaxLinks
    /\ tw' = [LinkAbs(tw, e, tw.now + d) EXCEPT !.links = @ + 1]
Unlink == \E e \in Timers : IsLinked(tw, e) /\ tw' = Unlinked(tw, e)
\* h2o_timerwheel_run: what has expired is taken off, and called back one by one
Missed(c) == {e \in OnWheel(c) : c.expire[e] <= c.now}
Taken(c) == [c EXCEPT !.missed = Missed(c), !.wheel = 0, !.slot = 0, !.from = 0]
Run == /\ tw.expired = <<>>
       /\ tw' = Taken(GetExpired(tw, tw.now))
Callback == tw.expired # <<>> /\ tw' = [tw EXCEPT !.expire[Head(tw.expired)] = 0, !.expired = Tail(@), !.early = @ \/ tw.expire[Head(tw.expired)] > tw.now]
\* the loop sleeps no longer than the timers allow, or an event wakes it up
Sleep ==
    /\ tw.expired = <<>>
    /\ \E at \in {tw.now + d : d \in Advances} \cup {t \in {tw.now - 1} : tw.scene.rewinds} \cup {WakeAt(tw)} :
        at \in 0..MaxNow /\ tw' = [tw EXCEPT !.now = at]

\* h2o_timerwheel_create
Create(s) ==
    [last |-> s.start, now |-> s.start, expire |-> [e \in Timers |-> 0], links |-> 0, expired |-> <<>>, missed |-> {}, early |-> FALSE,
     wheels |-> [w \in 0..(NumWheels - 1) |-> [x \in 0..(SlotsPerWheel - 1) |-> <<>>]], wheel |-> 0, slot |-> 0, from |-> 0, scene |-> s, failed |-> {}]
Init == \E s \in Scenes : tw = Create(s)
Step == Link \/ Unlink \/ Run \/ Callback \/ Sleep
Next == tw.failed = {} /\ Step

-----------------------------------------------------------------------------
(* Properties.                                                             *)

\* the asserts and the aborts on corrupt timers
NoAssertionFails == tw.failed = {}

\* a run takes every timer that is due, whatever the wheels it has gone through, and none that is not
FiresWhenDue == tw.missed = {} /\ ~tw.early

\* "find out the time ramaining until the next timer triggers": the loop never oversleeps a timer, and a wake-up that
\* fires nothing at least brings some timer down to a finer wheel, so that the loop does not spin
Earliest(c) == CHOOSE t \in {c.expire[e] : e \in OnWheel(c)} : \A e \in OnWheel(c) : t <= c.expire[e]
Progress(c, d) == d.expired # <<>> \/ d.wheels # c.wheels
InTime(c, at) == at <= Earliest(c) /\ at >= c.last /\ Progress(c, GetExpired(c, at))
\* The loop is not told to sleep past the next timer, and what it is told lets
\* it get on (h2o_timerwheel_get_wake_at).
WakesInTime == IF OnWheel(tw) = {} THEN WakeAt(tw) = Forever ELSE InTime(tw, WakeAt(tw))

\* h2o_timerwheel_validate: every entry is in the slot that a scan from last_run looks for it
ValidateHolds == \A w \in 0..(NumWheels - 1) : \A s \in 0..(SlotsPerWheel - 1) :
    \A e \in ToSet(tw.wheels[w][s]) : InSlot(tw.last, w, s, tw.expire[e])
=============================================================================
