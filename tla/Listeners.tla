----------------------------- MODULE Listeners -----------------------------
(***************************************************************************)
(* The start of the server (src/main.c): the `listen` commands of the      *)
(* global level and of the hosts become listeners, one per address, with   *)
(* the TLS identities and the names of the hosts that use them; sockets    *)
(* are opened, or inherited from the master (share/h2o/start_server), once *)
(* per thread; the user is changed and the threads start.  Then a          *)
(* ClientHello chooses among the identities.                               *)
(*                                                                         *)
(* Level 0 is the global one, the others are hosts.  A command is          *)
(* [type, addrs, ssl, proxy, cc, ok]: the addresses it resolves to, `ssl`  *)
(* <<>> or <<[ids, max12, ech]>> (no `ids` means ACME), `ok` unless it     *)
(* cannot be parsed or resolved.  An address is [fam, name], a file [kind, *)
(* sig]: a certificate chain, a raw public key, one picotls cannot sign    *)
(* with, or missing.  An error ends the process: which one is not told     *)
(* apart beyond what the properties need, and a failed step changes        *)
(* nothing else.                                                           *)
(***************************************************************************)
EXTENDS Integers, Sequences, FiniteSets

CONSTANTS NumHosts, NumThreads,
          Scenes    \* [mode, given, configs, files, acme, covers, busy, errlog, user, root]; configs and files before and after an edit

VARIABLE li

Hosts == 1 .. NumHosts
Levels == 0 .. NumHosts

(* What configurations and environments may be. *)
Addresses == [fam : {"inet", "inet6", "unix"}, name : STRING]
Keys == [addr : Addresses, quic : BOOLEAN]
Tls == [ids : Seq(STRING), max12 : BOOLEAN, ech : BOOLEAN]
Commands == [type : {"unix", "tcp", "quic"}, addrs : Seq(Addresses), ssl : Seq(Tls), proxy : BOOLEAN, cc : STRING, ok : BOOLEAN]
ConstantsOK ==
    /\ NumHosts \in Nat \ {0} /\ NumThreads \in Nat \ {0}
    /\ \A s \in Scenes : /\ s.mode \in {"worker", "master", "daemon", "test"}
                         /\ \A k \in s.given \cup s.busy : k \in Keys
                         /\ \A w \in {1, 2} : \A h \in Levels : s.configs[w][h] \in Seq(Commands)
                         /\ s.acme \in {<<>>} \cup [Hosts -> STRING]
                         /\ \A h \in Hosts : <<h, h>> \in s.covers

Config(c, h) == c.scene.configs[c.world][h]
File(c, cert) == c.scene.files[c.world][cert]
Key(m, k) == [addr |-> m.addrs[k], quic |-> m.type = "quic"]
KeyOf(l) == [addr |-> l.addr, quic |-> l.quic]
KeysOf(lis) == {KeyOf(lis[i]) : i \in DOMAIN lis}
InConfiguration(c) == c.pc = "listen" /\ c.at.h \in Levels
Current(c) == Config(c, c.at.h)[c.at.e]
HasCommand(c) == InConfiguration(c) /\ c.at.e <= Len(Config(c, c.at.h))
HasAddress(c) == HasCommand(c) /\ c.at.k <= Len(Current(c).addrs)
Fail(c, why) == [c EXCEPT !.pc = "failed", !.why = why]

-----------------------------------------------------------------------------
(* TLS of a listener: listener_setup_ssl.  An entry is [names, ids, ech,   *)
(* cc], an identity [cert, ossl, ptls, raw, ocsp].                    *)

UsesAcme(m) == m.ssl # <<>> /\ m.ssl[1].ids = <<>>
\* get_acme_cert_and_key: a certificate that is not there yet is replaced
AcmeCert(c, h) == IF File(c, c.scene.acme[h]).kind = "missing" THEN "loading" ELSE c.scene.acme[h]
\* in the file the last identity is the default, here it is the first
Rotated(ids) == [n \in DOMAIN ids |-> IF n = 1 THEN ids[Len(ids)] ELSE ids[n - 1]]
Identities(c, h, s) == IF s.ids = <<>> THEN <<AcmeCert(c, h)>> ELSE Rotated(s.ids)
\* listener_setup_ssl_picotls, which needs TLS 1.3 and a private key it can sign with
Identity(c, s, cert, n) ==
    LET ptls == ~s.max12 /\ File(c, cert).kind # "nosigner"
        raw == ptls /\ File(c, cert).kind = "raw"
    IN  [cert |-> cert, ossl |-> n = 1, ptls |-> ptls, raw |-> raw, ocsp |-> c.mode = "worker" /\ ~raw]
\* ssl_identity_is_equal
CertsOf(entry) == [n \in DOMAIN entry.ids |-> entry.ids[n].cert]
Sharing(l, h, ids) == {j \in DOMAIN l.ssl : h # 0 /\ CertsOf(l.ssl[j]) = ids}
FirstOf(S) == CHOOSE j \in S : \A i \in S : j <= i
\* on_config_ech for the first entry of an address, which the others take over
Ech(l, s) == s.ech \/ (l.ssl # <<>> /\ l.ssl[1].ids[1].ptls /\ l.ssl[1].ech)
NewEntry(c, l, h, m) ==
    LET ids == Identities(c, h, m.ssl[1])
    IN  [names |-> IF h = 0 THEN <<>> ELSE <<h>>, ids |-> [n \in DOMAIN ids |-> Identity(c, m.ssl[1], ids[n], n)],
         ech |-> Ech(l, m.ssl[1]), cc |-> IF m.type = "unix" THEN "none" ELSE m.cc]
AddEntry(l, new, m, entry) ==
    [l EXCEPT !.ssl = Append(@, entry), !.tls = IF l.quic /\ l.tls = 0 THEN Len(l.ssl) + 1 ELSE @,
              !.cc = IF l.quic /\ new /\ m.cc # "none" THEN m.cc ELSE @]
\* listener_setup_ssl_add_host when another host has brought the same identities, whatever else the command says
SetupSsl(c, l, new, h, m) ==
    LET S == Sharing(l, h, Identities(c, h, m.ssl[1]))
    IN  IF m.ssl = <<>> THEN l
        ELSE IF S # {} THEN [l EXCEPT !.ssl[FirstOf(S)].names = Append(@, h)]
        ELSE AddEntry(l, new, m, NewEntry(c, l, h, m))

\* the errors: HTTP and HTTPS on one address, the source of the identities, then what only a new entry is asked for
Mixes(l, new, m) == ~new /\ (l.ssl = <<>>) # (m.ssl = <<>>)
NoIdentity(c, h, m) == UsesAcme(m) /\ (h = 0 \/ c.scene.acme = <<>>)
Refuses(c, l, h, s) ==
    LET ids == Identities(c, h, s)
        Kind(n) == File(c, ids[n]).kind
    IN  \/ l.quic /\ s.max12
        \/ s.ech /\ (s.max12 \/ l.ssl # <<>>)
        \/ \E n \in DOMAIN ids : \/ Kind(n) = "missing"
                                 \/ s.max12 /\ Kind(n) = "raw"
                                 \/ ~s.max12 /\ Kind(n) = "nosigner" /\ (n # 1 \/ l.quic)
SslFails(c, l, new, h, m) ==
    \/ Mixes(l, new, m)
    \/ m.ssl # <<>> /\ \/ NoIdentity(c, h, m)
                       \/ Sharing(l, h, Identities(c, h, m.ssl[1])) = {} /\ Refuses(c, l, h, m.ssl[1])

-----------------------------------------------------------------------------
(* on_config_listen_element, one address at a time.                        *)

\* add_listener; hosts are NULL (`global`) at the global level
NewListener(key, h, m, fd) ==
    [addr |-> key.addr, quic |-> key.quic, global |-> h = 0, hosts |-> <<>>, ssl |-> <<>>, tls |-> 0, sibling |-> 0,
     proxy |-> ~key.quic /\ m.proxy, cc |-> IF m.type = "tcp" THEN m.cc ELSE "none", fds |-> <<fd>>]
AppendHost(l, h) == IF l.global \/ h = 0 THEN l ELSE [l EXCEPT !.hosts = Append(@, h)]
\* siblings[2] of a QUIC command
NoteSibling(sib, key, i) ==
    IF ~key.quic THEN sib
    ELSE IF key.addr.fam = "inet" THEN [sib EXCEPT ![1] = i] ELSE IF key.addr.fam = "inet6" THEN [sib EXCEPT ![2] = i] ELSE sib
\* get_acme_cert_and_key: all but workers collect the hosts
NoteAcme(c, h, m) == IF UsesAcme(m) /\ c.mode # "worker" THEN Append(c.acme, h) ELSE c.acme

\* find_listener_from_server_starter for a worker that inherits, open_unix_listener or open_inet_listener for one that does not
Inherits(c) == c.mode = "worker" /\ c.given # {}
CannotOpen(c, key) == c.mode = "worker" /\ IF Inherits(c) THEN key \notin c.given ELSE key \in c.scene.busy
Fd(c) == IF c.mode # "worker" THEN "none" ELSE IF Inherits(c) THEN "inherited" ELSE "opened"

\* what becomes of the command at this address, in the order of the checks: "accepted" when it is accepted
Verdict(c, l, new, h, m) ==
    IF ~m.ok THEN "syntax"
    ELSE IF m.type = "quic" /\ m.ssl = <<>> THEN "no tls"
    ELSE IF new /\ CannotOpen(c, KeyOf(l)) THEN IF Inherits(c) THEN "not bound" ELSE "busy"
    ELSE IF ~new /\ ~l.quic /\ l.proxy # m.proxy THEN "proxy"
    ELSE IF SslFails(c, l, new, h, m) THEN "tls" ELSE "accepted"

ListenNew ==
    /\ HasAddress(li)
    /\ LET h == li.at.h
           m == Current(li)
           key == Key(m, li.at.k)
           l == NewListener(key, h, m, Fd(li))
           verdict == Verdict(li, l, TRUE, h, m)
       IN  /\ key \notin KeysOf(li.lis)
           /\ \/ verdict # "accepted" /\ li' = Fail(li, verdict)
              \/ /\ verdict = "accepted"
                 /\ li' = [li EXCEPT !.lis = Append(@, AppendHost(SetupSsl(li, l, TRUE, h, m), h)),
                                     !.bound = IF Inherits(li) THEN @ \cup {key} ELSE @,
                                     !.sib = NoteSibling(@, key, Len(li.lis) + 1),
                                     !.acme = NoteAcme(li, h, m), !.at.k = @ + 1]
ListenAgain ==
    /\ HasAddress(li)
    /\ \E i \in DOMAIN li.lis :
          LET h == li.at.h
              m == Current(li)
              verdict == Verdict(li, li.lis[i], FALSE, h, m)
          IN  /\ KeyOf(li.lis[i]) = Key(m, li.at.k)
              /\ \/ verdict # "accepted" /\ li' = Fail(li, verdict)
                 \/ /\ verdict = "accepted"
                    /\ li' = [li EXCEPT !.lis[i] = AppendHost(SetupSsl(li, @, FALSE, h, m), h),
                                        !.acme = NoteAcme(li, h, m), !.at.k = @ + 1]

\* the end of a command: both families are new
Joined(lis, sib) ==
    IF sib[1] = 0 \/ sib[2] = 0 THEN lis
    ELSE [i \in DOMAIN lis |-> IF i = sib[1] THEN [lis[i] EXCEPT !.sibling = sib[2]]
                               ELSE IF i = sib[2] THEN [lis[i] EXCEPT !.sibling = sib[1]] ELSE lis[i]]
ListenEnds ==
    /\ HasCommand(li) /\ ~HasAddress(li)
    /\ li' = [li EXCEPT !.lis = Joined(@, li.sib), !.sib = <<0, 0>>, !.at = [h |-> @.h, e |-> @.e + 1, k |-> 1]]

\* on_config_listen_exit: a host has to be reachable; in the end global listeners serve all hosts
LevelEnds ==
    /\ InConfiguration(li) /\ ~HasCommand(li)
    /\ li' = IF li.at.h # 0 /\ li.lis = <<>> THEN Fail(li, "no listen")
             ELSE [li EXCEPT !.at = [h |-> @.h + 1, e |-> 1, k |-> 1]]
BindGlobal(l) == IF l.global THEN [l EXCEPT !.hosts = [i \in Hosts |-> i]] ELSE l
GlobalExit ==
    /\ li.pc = "listen" /\ ~InConfiguration(li)
    /\ li' = [li EXCEPT !.lis = [i \in DOMAIN @ |-> BindGlobal(@[i])], !.pc = "configured"]

-----------------------------------------------------------------------------
(* main.                                                                   *)

Begin(c, mode, given, world) ==
    [c EXCEPT !.pc = "listen", !.why = "none", !.mode = mode, !.given = given, !.world = world, !.bound = {}, !.lis = <<>>, !.acme = <<>>,
              !.at = [h |-> 0, e |-> 1, k |-> 1], !.sib = <<0, 0>>]
\* a master does not start below another one
MainStart ==
    /\ li.pc = "start"
    /\ li' = IF li.scene.mode \in {"master", "daemon"} /\ li.scene.given # {} THEN Fail(li, "nested")
             ELSE Begin(li, li.scene.mode, li.scene.given, 1)
\* spawn_acme_loader, the check that all that was inherited is used, and what the mode asks for
SpawnsLoader(c) == c.mode \in {"master", "daemon"} /\ c.acme # <<>>
Configured ==
    /\ li.pc = "configured"
    /\ LET c == [li EXCEPT !.loader = @ \/ SpawnsLoader(li)]
       IN  li' = IF c.given # {} /\ c.bound # c.given THEN Fail(c, "left over")
                 ELSE IF c.mode = "daemon" /\ ~c.scene.errlog THEN Fail(c, "no log")
                 ELSE IF c.mode = "test" THEN [c EXCEPT !.pc = "tested"]
                 ELSE IF c.mode = "worker" THEN [c EXCEPT !.pc = "bind"]
                 ELSE [c EXCEPT !.pc = "master", !.ports = KeysOf(c.lis)]
\* run_using_server_starter: start_server opens the ports and starts a worker; SIGHUP starts another with the file as it is then
SpawnWorker ==
    /\ li.pc = "master"
    /\ li' = Begin(li, "worker", li.ports, 1)
Reload ==
    /\ li.pc \in {"run", "failed"} /\ li.ports # {} /\ li.world = 1
    /\ li' = Begin(li, "worker", li.ports, 2)

\* create_per_thread_listeners: another socket (SO_REUSEPORT) or dup(2), before setuid
Extended(fds) == [n \in 1 .. (IF Len(fds) < NumThreads THEN NumThreads ELSE Len(fds)) |-> IF n <= Len(fds) THEN fds[n] ELSE "dup"]
BindThreads(l) == [l EXCEPT !.fds = Extended(@)]
PerThread ==
    /\ li.pc = "bind"
    /\ li' = [li EXCEPT !.lis = [i \in DOMAIN @ |-> BindThreads(@[i])], !.pc = "setuid"]
SetUser ==
    /\ li.pc = "setuid"
    /\ li' = IF li.scene.user = li.scene.root THEN [li EXCEPT !.pc = "resume"]
             ELSE Fail(li, IF li.scene.user THEN "setuid" ELSE "root")
\* session resumption is set up for the first identity of every entry, and the threads run
StartThreads ==
    /\ li.pc = "resume"
    /\ li' = [li EXCEPT !.pc = "run"]

-----------------------------------------------------------------------------
Init ==
    \E scene \in Scenes :
        li = [scene |-> scene, pc |-> "start", why |-> "none", mode |-> scene.mode, given |-> {}, world |-> 1, bound |-> {}, lis |-> <<>>,
              acme |-> <<>>, at |-> [h |-> 0, e |-> 1, k |-> 1], sib |-> <<0, 0>>, loader |-> FALSE, ports |-> {}]

Listening == ListenNew \/ ListenAgain \/ ListenEnds \/ LevelEnds \/ GlobalExit
Main == MainStart \/ Configured \/ SpawnWorker \/ Reload \/ PerThread \/ SetUser \/ StartThreads
Next == Listening \/ Main
Spec == Init /\ [][Next]_li

-----------------------------------------------------------------------------
(* A ClientHello: on_sni_callback and on_client_hello_ptls.                *)

\* resolve_sni: the first entry with a name, or a wildcard, that covers the host; else the first entry
Named(c, entry, n) == \E j \in DOMAIN entry.names : <<entry.names[j], n>> \in c.scene.covers
ResolveSni(c, l, n) ==
    LET S == {i \in DOMAIN l.ssl : Named(c, l.ssl[i], n)} IN l.ssl[IF S = {} THEN 1 ELSE FirstOf(S)]
\* an alternative of the type and with a signature the client can do, else the default
Signatures == {"rsa", "ecdsa"}
Suits(c, id, raw, sigs) == id.raw = raw /\ (sigs = {} \/ File(c, id.cert).sig \in sigs)
ChooseIdentity(c, entry, raw, sigs) ==
    LET S == {n \in DOMAIN entry.ids : n # 1 /\ Suits(c, entry.ids[n], raw, sigs)} IN entry.ids[IF S = {} THEN 1 ELSE FirstOf(S)]

-----------------------------------------------------------------------------
(* Properties.                                                             *)

\* commands, one address each, that were accepted
Before(p, at) == p[1] < at.h \/ (p[1] = at.h /\ (p[2] < at.e \/ (p[2] = at.e /\ p[3] < at.k)))
Accepted(c) ==
    {p \in UNION {UNION {{<<h, e, k>> : k \in DOMAIN Config(c, h)[e].addrs} : e \in DOMAIN Config(c, h)} : h \in Levels} : Before(p, c.at)}
CommandAt(c, p) == Config(c, p[1])[p[2]]
KeyAt(c, p) == Key(CommandAt(c, p), p[3])
Live == li.pc \notin {"start", "failed"}

\* However many commands and hosts name an address, it has one listener (find_listener): the commands share it, and there is no
\* listener that nobody asked for.
OneListenerPerAddress ==
    /\ \A i, j \in DOMAIN li.lis : KeyOf(li.lis[i]) = KeyOf(li.lis[j]) => i = j
    /\ KeysOf(li.lis) = {KeyAt(li, p) : p \in Accepted(li)}

\* Commands that share a listener agree on TLS and on the PROXY protocol.
CommandsAgree ==
    \A i \in DOMAIN li.lis : \A p \in Accepted(li) :
        KeyAt(li, p) = KeyOf(li.lis[i]) =>
            /\ (CommandAt(li, p).ssl = <<>>) = (li.lis[i].ssl = <<>>)
            /\ CommandAt(li, p).type # "quic" => li.lis[i].proxy = CommandAt(li, p).proxy

\* A listener serves a host when the global level or the host itself has asked for it, and no other host (on_config_listen_exit).
ServesWhoAsked ==
    \A i \in DOMAIN li.lis : \A h \in Hosts :
        Live /\ li.pc # "listen" =>
            ((\E n \in DOMAIN li.lis[i].hosts : li.lis[i].hosts[n] = h)
              <=> \E p \in Accepted(li) : KeyAt(li, p) = KeyOf(li.lis[i]) /\ p[1] \in {0, h})

\* A command of a host has its entry, and a name stands for such a command.  So the name of a host leads to an entry with its own
\* identities, unless a wildcard of another host covers it or it has several (resolve_sni).
Brings(c, p, key) == KeyAt(c, p) = key /\ p[1] # 0 /\ CommandAt(c, p).ssl # <<>>
IdsAt(c, p) == Identities(c, p[1], CommandAt(c, p).ssl[1])
SniFindsTheHost ==
    \A i \in DOMAIN li.lis : \A p \in Accepted(li) :
        Brings(li, p, KeyOf(li.lis[i])) =>
            LET entry == ResolveSni(li, li.lis[i], p[1])
            IN  /\ Named(li, entry, p[1])
                /\ \/ CertsOf(entry) = IdsAt(li, p)
                   \/ \E h \in Hosts \ {p[1]} : <<h, p[1]>> \in li.scene.covers
                   \/ \E q \in Accepted(li) : Brings(li, q, KeyOf(li.lis[i])) /\ q[1] = p[1] /\ IdsAt(li, q) # IdsAt(li, p)

\* The first identity of an entry can always be used by OpenSSL (session resumption and the SNI callback take it without asking),
\* and if it can be used by picotls so can the alternatives; on QUIC every ClientHello gets a picotls context.
IdentitiesAreUsable ==
    \A i \in DOMAIN li.lis : LET l == li.lis[i] IN
        /\ \A j \in DOMAIN l.ssl : /\ l.ssl[j].ids # <<>> /\ l.ssl[j].ids[1].ossl
                                   /\ l.ssl[j].ids[1].ptls => \A n \in DOMAIN l.ssl[j].ids : l.ssl[j].ids[n].ptls
        /\ l.quic => /\ l.ssl # <<>> /\ l.tls = 1
                     /\ \A h \in Hosts, raw \in BOOLEAN, sigs \in SUBSET Signatures : ChooseIdentity(li, ResolveSni(li, l, h), raw, sigs).ptls

\* The sockets of both families of a QUIC command know each other, so that packets are forwarded by the family they came with.
SiblingsAreMutual ==
    \A i \in DOMAIN li.lis :
        LET j == li.lis[i].sibling
        IN  j # 0 => /\ j \in DOMAIN li.lis /\ li.lis[j].sibling = i /\ li.lis[i].quic /\ li.lis[j].quic
                     /\ li.lis[i].addr.fam # li.lis[j].addr.fam

\* What runs has a socket per thread for every listener; what was inherited is all used.
SocketsAreComplete ==
    li.pc \in {"setuid", "resume", "run"} =>
        /\ \A i \in DOMAIN li.lis : Len(li.lis[i].fds) = NumThreads /\ \A n \in DOMAIN li.lis[i].fds : li.lis[i].fds[n] # "none"
        /\ li.given # {} => KeysOf(li.lis) = li.given

\* A worker finds the sockets the master has opened for it, and no more, as long as the file is not edited.
WorkersFindTheirSockets == (li.ports # {} /\ li.world = 1) => li.why \notin {"not bound", "left over"}

\* What the documents of `hosts` and the names of the commands let one expect: an exact name comes before a wildcard, and a
\* ClientHello that picotls handles gets a context of picotls.
ExactNamesComeFirst ==
    \A i \in DOMAIN li.lis : \A p \in Accepted(li) :
        Brings(li, p, KeyOf(li.lis[i])) =>
            \E q \in Accepted(li) : /\ Brings(li, q, KeyOf(li.lis[i])) /\ q[1] = p[1]
                                   /\ CertsOf(ResolveSni(li, li.lis[i], p[1])) = IdsAt(li, q)
HelloFindsAContext ==
    \A i \in DOMAIN li.lis : LET l == li.lis[i] IN
        (l.ssl # <<>> /\ l.ssl[1].ids[1].ptls) =>
            \A h \in Hosts, raw \in BOOLEAN, sigs \in SUBSET Signatures : ChooseIdentity(li, ResolveSni(li, l, h), raw, sigs).ptls
=============================================================================
