--------------------------- MODULE SessionTickets ---------------------------
(***************************************************************************)
(* The keys of session tickets and of QUIC connection IDs (src/ssl.c): how *)
(* ssl-session-resumption is configured, the thread of each server that    *)
(* keeps the list of keys up to date (by itself, from memcached, redis or  *)
(* a file), and the event loop threads that use the list under a rwlock    *)
(* and rebuild their QUIC keys when its generation has changed.            *)
(*                                                                         *)
(* A key is [id, name, nb, na]: `name` is the first byte of its name, the  *)
(* only one QUIC sees; `nb` and `na` are not_before and not_after.  Time   *)
(* is counted in periods of the updaters; what a thread does takes none    *)
(* (a clock tick waits for updaters that are due).                         *)
(***************************************************************************)
EXTENDS Integers, Sequences, FiniteSets, SequencesExt, FiniteSetsExt

CONSTANTS Servers, NameSpace, Draws, Lifetime, Grace, Period, MaxClock,
          MaxIssued,      \* bound: tickets and CIDs that are kept track of
          Scenes          \* [settings, files, fails, twice, quic, servers]

VARIABLE tk

Asserted(c, ok, name) == IF ok THEN c ELSE [c EXCEPT !.failed = @ \cup {name}]
InSeq(x, q) == \E i \in DOMAIN q : q[i] = x

-----------------------------------------------------------------------------
(* ssl_session_resumption_on_config.  The hosts of memcached and of redis  *)
(* share a union: the section that is read last gives both.                *)

Stores == {"internal", "memcached", "redis", "file"}
Settings == [mode : {"off", "cache", "ticket", "all"}, cache : {"internal", "memcached", "redis"}, ticket : Stores,
             memcached : BOOLEAN, redis : BOOLEAN, filename : BOOLEAN]
UsesCache(s) == s.mode \in {"cache", "all"}
UsesTickets(s) == s.mode \in {"ticket", "all"}
Cache(s) == IF UsesCache(s) THEN s.cache ELSE "disabled"
UpdateThread(s) == IF UsesTickets(s) THEN s.ticket ELSE "none"
StoreHost(s) == IF s.redis THEN "redis" ELSE IF s.memcached THEN "memcached" ELSE "none"
Uses(s, store) == Cache(s) = store \/ UpdateThread(s) = store
OnConfig(s) ==
    IF UpdateThread(s) = "file" /\ ~s.filename THEN "mandatory attribute is missing"
    ELSE IF Uses(s, "memcached") /\ StoreHost(s) = "none" THEN "configuration of memcached is missing"
    ELSE IF Uses(s, "redis") /\ StoreHost(s) = "none" THEN "configuration of redis is missing"
    ELSE "ok"

-----------------------------------------------------------------------------
(* The list of keys, sorted from newer to older.                           *)

\* ticket_sort_compare
Newer(x, y) == x.nb > y.nb \/ (x.nb = y.nb /\ x.name < y.name)
Sorted(q) == SortSeq(q, Newer)

FindForEncryption(q, now) ==
    LET started == {i \in DOMAIN q : q[i].nb <= now}
    IN  IF started = {} THEN <<>>
        ELSE IF now <= q[Min(started)].na THEN <<q[Min(started)]>> ELSE <<>>

\* update_tickets: expired keys at the end go, then every key whose name a later one has
RemoveOldest(q, now) == LET alive == {i \in DOMAIN q : now <= q[i].na} IN IF alive = {} THEN <<>> ELSE SubSeq(q, 1, Max(alive))
RemoveColliding(q) ==
    LET keep == {i \in DOMAIN q : \A j \in DOMAIN q : j > i => q[j].name # q[i].name}
    IN  [n \in 1..Cardinality(keep) |-> q[CHOOSE i \in keep : Cardinality({j \in keep : j <= i}) = n]]
FreeName(q, r) ==
    LET Taken(n) == \E i \in DOMAIN q : q[i].name = n
        steps == CHOOSE d \in 0..NameSpace : ~Taken((r + d) % NameSpace) /\ \A e \in 0..d - 1 : Taken((r + e) % NameSpace)
    IN  (r + steps) % NameSpace
NeedsKey(q, now) == FindForEncryption(q, now) = <<>> \/ q[1].nb + Lifetime \div 4 < now
NewKeyLater(q, now, id, r) == [id |-> id, name |-> FreeName(q, r), nb |-> now + Grace, na |-> now + Grace + Lifetime - 1]
NewKey(q, now, id, r) ==
    LET nb == IF FindForEncryption(q, now) = <<>> THEN now ELSE now + Grace
    IN  [id |-> id, name |-> FreeName(q, r), nb |-> nb, na |-> nb + Lifetime - 1]
AddKey(q, now, id, r) == IF NeedsKey(q, now) THEN <<NewKey(q, now, id, r)>> \o q ELSE q
UpdateTickets(q, now, id, r) == AddKey(RemoveColliding(RemoveOldest(q, now)), now, id, r)
\* the removal of a colliding key is not reported
Altered(q, now) == Len(RemoveOldest(q, now)) # Len(q) \/ NeedsKey(RemoveColliding(RemoveOldest(q, now)), now)

-----------------------------------------------------------------------------
(* The updater of a server.                                                *)

Thread(c) == UpdateThread(c.scene.settings)
Srv(c, s, f, v) == [c EXCEPT !.srv[s] = [@ EXCEPT ![f] = v]]
Sleep(c, s) == [c EXCEPT !.srv[s].pc = "sleep", !.srv[s].wake = c.clock + Period]

\* register_session_tickets: the list is replaced under the lock, the generation follows
Register(c, s, keys) ==
    Asserted([c EXCEPT !.srv[s].tickets = keys, !.srv[s].pc = "generation", !.loaded[s] = c.file], keys # <<>>, "tickets.size != 0")
Due(s) == s \in tk.scene.servers /\ tk.srv[s].pc = "sleep" /\ tk.srv[s].wake <= tk.clock

UpdateInternally(s) ==
    /\ Thread(tk) = "internal" /\ Due(s)
    /\ \E r \in Draws :
          tk' = Register([tk EXCEPT !.ids = @ + 1], s, UpdateTickets(tk.srv[s].tickets, tk.clock, tk.ids, r))

\* ticket_memcached_update_tickets, ticket_redis_update_tickets: a list that had to be changed is stored and fetched again
Fetched(c, s, q, r) ==
    IF Altered(q, c.clock)
    THEN [c EXCEPT !.srv[s].pc = "store", !.srv[s].work = UpdateTickets(q, c.clock, c.ids, r), !.srv[s].cas = c.cas, !.ids = @ + 1]
    ELSE [c EXCEPT !.srv[s].pc = "register", !.srv[s].work = UpdateTickets(q, c.clock, c.ids, r)]
Fetch(s) ==
    /\ Thread(tk) \in {"memcached", "redis"}
    /\ Due(s) \/ tk.srv[s].pc = "fetch"
    /\ \/ \E r \in Draws : tk' = Fetched(tk, s, Sorted(tk.store), r)
       \/ tk.scene.fails /\ tk' = Sleep(tk, s)
\* yrmcds_add and yrmcds_set compare what was fetched; SETEX does not
CasHolds(c, s) == c.cas = c.srv[s].cas
MayStore(c, s) == IF Thread(c) = "memcached" THEN CasHolds(c, s) ELSE TRUE
Store(s) ==
    /\ tk.srv[s].pc = "store"
    /\ tk' = Srv(IF MayStore(tk, s) THEN [tk EXCEPT !.store = tk.srv[s].work, !.cas = @ + 1] ELSE tk, s, "pc", "fetch")
SwapRegister(s) ==
    /\ tk.srv[s].pc = "register"
    /\ tk' = Register(tk, s, tk.srv[s].work)

\* ticket_file_updater and load_tickets_file: the keys are taken as they are
FileKeys(c) == c.scene.files[c.file]
Stat(s) ==
    /\ Thread(tk) = "file" /\ Due(s)
    /\ tk' = IF tk.file = 0 THEN Sleep(Srv(tk, s, "mtime", -1), s)
             ELSE IF tk.srv[s].mtime # tk.mtime THEN [tk EXCEPT !.srv[s].mtime = tk.mtime, !.srv[s].pc = "load"]
             ELSE Sleep(tk, s)
Load(s) ==
    /\ tk.srv[s].pc = "load"
    /\ tk' = Register(tk, s, Sorted(FileKeys(tk)))
FileWritten ==
    /\ tk.file < Len(tk.scene.files) /\ tk.written < tk.clock
    /\ tk' = [tk EXCEPT !.file = @ + 1, !.mtime = tk.clock, !.written = IF tk.scene.twice THEN -1 ELSE tk.clock]

\* the generation is raised after the lock was given back, and the first time the start of the server goes on
Generation(s) ==
    /\ tk.srv[s].pc = "generation"
    /\ tk' = Sleep([tk EXCEPT !.srv[s].gen = @ + 1, !.srv[s].started = TRUE], s)

-----------------------------------------------------------------------------
(* The threads of the event loops.                                         *)

\* ticket_key_callback while encrypting: without a key that is valid now, one that nobody else has
IssueTicket(s) ==
    /\ tk.srv[s].started /\ Cardinality(tk.issued) < MaxIssued
    /\ LET k == FindForEncryption(tk.srv[s].tickets, tk.clock)
       IN  tk' = [tk EXCEPT !.issued = @ \cup {[kind |-> "ticket", key |-> k, at |-> tk.clock, by |-> s]}]

\* update_quic_keys reads the generation, then the list; it is done when the generation is still the same
ReadGeneration(s) ==
    /\ tk.scene.quic /\ tk.srv[s].started /\ tk.srv[s].seen = tk.srv[s].qgen /\ tk.srv[s].gen # tk.srv[s].qgen
    /\ tk' = Srv(tk, s, "seen", tk.srv[s].gen)
BuildKeysets(s) ==
    /\ tk.srv[s].seen # tk.srv[s].qgen
    /\ tk' = [Asserted(tk, tk.srv[s].tickets # <<>>, "update_quic_keys: tickets.size") EXCEPT
                 !.srv[s].qkeys = tk.srv[s].tickets, !.srv[s].qgen = tk.srv[s].seen]
Current(c, s) == c.srv[s].seen = c.srv[s].qgen /\ c.srv[s].qgen = c.srv[s].gen /\ c.srv[s].gen # 0

\* encrypt_cid with the first keyset
EncryptCid(s) ==
    /\ Current(tk, s) /\ Cardinality(tk.issued) < MaxIssued
    /\ tk' = [tk EXCEPT !.issued = @ \cup {[kind |-> "cid", key |-> <<Head(tk.srv[s].qkeys)>>, at |-> tk.clock, by |-> s]}]
\* find_quic_keyset and decrypt_cid: the first key of that name is the one that is tried
FindKeyset(q, name) == LET same == {i \in DOMAIN q : q[i].name = name} IN IF same = {} THEN <<>> ELSE <<q[Min(same)]>>

Tick ==
    /\ tk.clock < MaxClock
    /\ \A s \in Servers : tk.srv[s].pc = "sleep" /\ ~Due(s)
    /\ tk' = [tk EXCEPT !.clock = @ + 1]

-----------------------------------------------------------------------------

Server == [tickets |-> <<>>, gen |-> 0, pc |-> "sleep", wake |-> 0, work |-> <<>>, cas |-> 0, mtime |-> -2, started |-> FALSE,
           qkeys |-> <<>>, qgen |-> -1, seen |-> -1]
\* a server with QUIC is not started without tickets
Init ==
    \E scene \in Scenes :
        /\ OnConfig(scene.settings) = "ok" /\ (scene.quic => UsesTickets(scene.settings))
        /\ tk = [scene |-> scene, failed |-> {}, clock |-> 0, ids |-> 1, store |-> <<>>, cas |-> 0, file |-> 0, mtime |-> -1,
                 written |-> -1, loaded |-> [s \in Servers |-> 0], srv |-> [s \in Servers |-> Server], issued |-> {}]

Step ==
    \/ Tick \/ FileWritten
    \/ \E s \in Servers : \/ UpdateInternally(s) \/ Fetch(s) \/ Store(s) \/ SwapRegister(s) \/ Stat(s) \/ Load(s) \/ Generation(s)
                          \/ IssueTicket(s) \/ ReadGeneration(s) \/ BuildKeysets(s) \/ EncryptCid(s)
Next == tk.failed = {} /\ Step
Spec == Init /\ [][Next]_tk

-----------------------------------------------------------------------------

\* No assertion fails: a list that is registered or used has a key.
NoAssertionFails == tk.failed = {}

\* The lists are sorted, and no two of their keys have a name that QUIC cannot tell apart.
KeysAreSortedAndDistinct ==
    \A s \in Servers : LET q == tk.srv[s].tickets
                       IN  \A i, j \in DOMAIN q : i < j => (q[i].nb >= q[j].nb /\ q[i].name # q[j].name)

\* A connection ID is decrypted with the key it was encrypted with, as long as the server has that key.
CidsFindTheirKey ==
    \A i \in tk.issued : (i.kind = "cid" /\ InSeq(i.key[1], tk.srv[i.by].qkeys)) => FindKeyset(tk.srv[i.by].qkeys, i.key[1].name) = i.key

\* While a server is up to date, there is a key that is valid now.
AlwaysAKey ==
    \A s \in Servers : (tk.srv[s].started /\ tk.srv[s].pc = "sleep" /\ ~Due(s)) => FindForEncryption(tk.srv[s].tickets, tk.clock) # <<>>

\* A ticket can be read by every server that is up to date, until its key expires (the keys of a file are for its author to keep).
TicketsAreShared ==
    \A i \in tk.issued :
        (i.kind = "ticket" /\ i.key # <<>>) =>
            \A s \in Servers : (tk.srv[s].started /\ tk.srv[s].pc = "sleep" /\ tk.clock <= i.key[1].na) =>
                                  \/ InSeq(i.key[1], tk.srv[s].tickets)
                                  \/ Thread(tk) = "internal" /\ s # i.by
                                  \/ Thread(tk) = "file"

\* A thread whose QUIC keys are current has the keys of the list.
QuicKeysFollow == \A s \in Servers : (Current(tk, s) /\ tk.srv[s].pc # "generation") => tk.srv[s].qkeys = tk.srv[s].tickets

\* A server that has looked at the file since it was last written has its keys.
FileIsLoaded ==
    \A s \in Servers : (Thread(tk) = "file" /\ tk.srv[s].pc = "sleep" /\ tk.srv[s].wake > tk.clock /\ tk.file # 0 /\ tk.srv[s].wake - Period > tk.mtime)
                           => tk.loaded[s] = tk.file

\* A connection ID is encrypted with the active key: one that is valid now.
CidsUseTheActiveKey == \A i \in tk.issued : i.kind = "cid" => i.key[1].nb <= i.at /\ i.at <= i.key[1].na

\* The key of a ticket lives as long as a session that began with it.
KeysOutliveSessions == \A i \in tk.issued : (i.kind = "ticket" /\ i.key # <<>>) => i.key[1].na >= i.at + Lifetime - 1
=============================================================================
