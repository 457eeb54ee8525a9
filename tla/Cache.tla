------------------------------- MODULE Cache --------------------------------
(***************************************************************************)
(* lib/common/cache.c: the cache of values by key, bounded in size and in  *)
(* age, as the TLS session cache of the proxy uses it: several threads,    *)
(* each with the clock of its own event loop, call it under its mutex, so  *)
(* that a call is one step.  A reference that a thread has fetched stays   *)
(* with it until it is released, outside the mutex.                        *)
(***************************************************************************)
EXTENDS Integers, Sequences, FiniteSets, SequencesExt

CONSTANTS Threads, Keys, Refs,
          Lens,      \* lengths of values
          Duration,  \* how long an entry may be used
          Early,     \* an entry with less time left is updated early (10 in the code)
          MaxNow,    \* bound of the clocks
          Skew,      \* bound of the difference between the clocks of two threads
          Scenes     \* [capacity, early]: H2O_CACHE_FLAG_EARLY_UPDATE

VARIABLE ca

Asserted(c, ok, name) == IF ok THEN c ELSE [c EXCEPT !.failed = @ \cup {name}]
NoRef == [key |-> 0, at |-> 0, len |-> 0, early |-> FALSE, cnt |-> 0]
Without(r, q) == SelectSeq(q, LAMBDA x : x # r)

-----------------------------------------------------------------------------
(* The operations.                                                         *)

\* h2o_cache_release: the destroy callback of the value runs with the last reference
Release(c, r) ==
    IF c.ref[r].cnt > 1 THEN [c EXCEPT !.ref[r].cnt = @ - 1]
    ELSE [Asserted(c, r \notin ToSet(c.lru) \cup ToSet(c.age), "release: linked") EXCEPT !.ref[r] = NoRef]
\* erase_ref; the slot of the table is reused for the reference that takes its place
EraseRef(c, r, reuse) ==
    Release([c EXCEPT !.table[c.ref[r].key] = IF reuse THEN @ ELSE 0, !.lru = Without(r, @), !.age = Without(r, @),
                      !.size = @ - c.ref[r].len], r)
\* get_timeleft
Timeleft(c, r, now) == c.ref[r].at + Duration - now
\* purge, by size and by age, an entry at a time
PurgeOne(c, now) ==
    IF c.scene.capacity < c.size
    THEN IF c.lru = <<>> THEN Asserted(c, FALSE, "!h2o_linklist_is_empty(&cache->lru)") ELSE EraseRef(c, c.table[c.ref[c.lru[1]].key], FALSE)
    ELSE IF c.age # <<>> /\ Timeleft(c, c.age[1], now) < 0 THEN EraseRef(c, c.table[c.ref[c.age[1]].key], FALSE) ELSE c
Purge(c, now) == FoldLeft(LAMBDA d, i : PurgeOne(d, now), [c EXCEPT !.purged = now], [i \in 1..Cardinality(Refs) |-> i])

\* h2o_cache_fetch
Hit(c, t, r) == [c EXCEPT !.lru = Append(Without(r, @), r), !.ref[r].cnt = @ + 1, !.held[t] = r]
Found(c, t, r, now) ==
    CASE Timeleft(c, r, now) < 0 -> c
      [] Timeleft(c, r, now) >= 0 /\ c.scene.early /\ Timeleft(c, r, now) < Early /\ ~c.ref[r].early ->
            [c EXCEPT !.ref[r].early = TRUE]
      [] OTHER -> Hit(c, t, r)
Lookup(c, t, k, now) == IF c.table[k] = 0 THEN c ELSE Found(c, t, c.table[k], now)
Fetch == \E t \in Threads, k \in Keys :
    ca.held[t] = 0 /\ ca' = Lookup(Purge(ca, ca.now[t]), t, k, ca.now[t])

\* h2o_cache_set
Stored(c, r, k, len, now) ==
    [c EXCEPT !.table[k] = r, !.ref[r] = [NoRef EXCEPT !.key = k, !.at = now, !.len = len, !.cnt = 1],
              !.lru = Append(@, r), !.age = Append(@, r), !.size = @ + len]
Replaced(c, k) == IF c.table[k] # 0 THEN EraseRef(c, c.table[k], TRUE) ELSE c
Unused(c) == {r \in Refs : c.ref[r].cnt = 0}
NewRef(c) == CHOOSE r \in Unused(c) : \A x \in Unused(c) : r <= x
StoreNew(c, r, k, len, now) == Purge(Stored(Replaced(c, k), r, k, len, now), now)
Set == \E t \in Threads, k \in Keys, len \in Lens :
    /\ ca.held[t] = 0 /\ Unused(ca) # {}
    /\ ca' = StoreNew(ca, NewRef(ca), k, len, ca.now[t])

\* h2o_cache_delete, h2o_cache_clear
Deleted(c, k) == IF c.table[k] # 0 THEN EraseRef(c, c.table[k], FALSE) ELSE c
Delete == \E t \in Threads, k \in Keys : ca.held[t] = 0 /\ ca' = Deleted(Purge(ca, ca.now[t]), k)
Cleared(c) ==
    Asserted(Asserted(c, \A k \in Keys : c.table[k] = 0, "kh_size(cache->table) == 0"), c.size = 0, "cache->size == 0")
Clear == ca.lru # <<>> /\ ca' = Cleared(FoldLeft(LAMBDA d, r : EraseRef(d, d.table[d.ref[r].key], FALSE), ca, ca.lru))

LetGo == \E t \in Threads : ca.held[t] # 0 /\ ca' = [Release(ca, ca.held[t]) EXCEPT !.held[t] = 0]
\* the loop of a thread updates its clock
Tick == \E t \in Threads :
    /\ ca.now[t] < MaxNow /\ \A u \in Threads : ca.now[t] + 1 - ca.now[u] <= Skew
    /\ ca' = [ca EXCEPT !.now[t] = @ + 1]

\* h2o_cache_create
Create(s) ==
    [table |-> [k \in Keys |-> 0], ref |-> [r \in Refs |-> NoRef], lru |-> <<>>, age |-> <<>>, size |-> 0,
     held |-> [t \in Threads |-> 0], purged |-> 0, now |-> [t \in Threads |-> 0], scene |-> s, failed |-> {}]
Init == \E s \in Scenes : ca = Create(s)
Step == Fetch \/ Set \/ Delete \/ Clear \/ LetGo \/ Tick
Next == ca.failed = {} /\ Step

-----------------------------------------------------------------------------
(* Properties.                                                             *)

\* No assertion of cache.c fails, and no reference is used or given back after
\* it was freed.
NoAssertionFails == ca.failed = {}

\* the table, the two lists, the size and the reference counts tell the same story, whoever still holds what was erased
Total(s) == FoldLeft(LAMBDA n, r : n + ca.ref[r].len, 0, s)
Holders(r) == Cardinality({t \in Threads : ca.held[t] = r}) + (IF r \in ToSet(ca.lru) THEN 1 ELSE 0)
\* A reference counts its holders and the cache, and the size of the cache is
\* that of what it holds (cache.c).
CountsAreExact ==
    /\ ToSet(ca.lru) = {ca.table[k] : k \in Keys} \ {0} /\ ToSet(ca.age) = ToSet(ca.lru) /\ Len(ca.lru) = Cardinality(ToSet(ca.lru))
    /\ \A k \in Keys : ca.table[k] # 0 => ca.ref[ca.table[k]].key = k
    /\ ca.size = Total(ca.lru) /\ ca.size <= ca.scene.capacity
    /\ \A r \in Refs : ca.ref[r].cnt = Holders(r)

\* what is left after a purge expired at most the difference of the clocks ago: the list of ages need not be in order when
\* threads store with clocks of their own, and the purge stops at the first entry that is still good
ExpiredAreGone == \A r \in ToSet(ca.lru) : ca.ref[r].at + Duration + Skew >= ca.purged
=============================================================================
