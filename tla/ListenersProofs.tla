--------------------------- MODULE ListenersProofs ---------------------------
(***************************************************************************)
(* The start of the server for every configuration: any number of hosts,   *)
(* commands, addresses and identities, any files and any sockets given.    *)
(* Listeners, the sockets behind them and the names and identities they    *)
(* answer with are what the commands ask for.                              *)
(*                                                                         *)
(* The inductive invariant relates each listener to the commands accepted  *)
(* so far that name its address, and the process to the sockets it was     *)
(* given.  Its parts are operators of what they are about.                 *)
(***************************************************************************)
EXTENDS Listeners, TLAPS, SequenceTheorems, WellFoundedInduction

Modes == {"worker", "master", "daemon", "test"}
Pcs == {"start", "listen", "configured", "tested", "bind", "master", "setuid", "resume", "run", "failed"}
Certs == STRING \cup {"loading"}
Controls == STRING \cup {"none"}
Reasons == {"none", "syntax", "no tls", "not bound", "busy", "proxy", "tls", "no listen", "nested", "left over", "no log", "setuid", "root"}
IdentitySet == [cert : Certs, ossl : BOOLEAN, ptls : BOOLEAN, raw : BOOLEAN, ocsp : BOOLEAN]
EntrySet == [names : Seq(Hosts), ids : Seq(IdentitySet), ech : BOOLEAN, cc : Controls]
Fds == {"none", "inherited", "opened", "dup"}
ListenerSet ==
    [addr : Addresses, quic : BOOLEAN, global : BOOLEAN, hosts : Seq(Hosts), ssl : Seq(EntrySet), tls : Nat, sibling : Nat,
     proxy : BOOLEAN, cc : Controls, fds : Seq(Fds)]
Cursor == [h : Nat, e : Nat \ {0}, k : Nat \ {0}]
State ==
    [scene : Scenes, pc : Pcs, why : Reasons, mode : Modes, given : SUBSET Keys, world : {1, 2}, bound : SUBSET Keys,
     lis : Seq(ListenerSet), acme : Seq(Levels), at : Cursor, sib : [1 .. 2 -> Nat], loader : BOOLEAN, ports : SUBSET Keys]

(* The commands accepted so far that name an address. *)
AtKey(c, key) == {p \in Accepted(c) : KeyAt(c, p) = key}

(* A listener and the commands that share it agree on TLS and on PROXY. *)
AgreeInv(c, l, P) ==
    \A p \in P : /\ (CommandAt(c, p).ssl = <<>>) <=> (l.ssl = <<>>)
                 /\ CommandAt(c, p).type # "quic" => l.proxy = CommandAt(c, p).proxy
(* It is global, or has the hosts whose commands share it. *)
HostsInv(l, P) ==
    /\ l.global <=> \E p \in P : p[1] = 0
    /\ ~l.global => \A h \in Hosts : (\E n \in DOMAIN l.hosts : l.hosts[n] = h) <=> \E p \in P : p[1] = h
(* Its entries have the names of the hosts and the identities they bring. *)
Holds(c, entry, p) == CertsOf(entry) = IdsAt(c, p) /\ \E n \in DOMAIN entry.names : entry.names[n] = p[1]
EntryInv(c, ssl, P) ==
    /\ \A p \in P : p[1] # 0 /\ CommandAt(c, p).ssl # <<>> => \E j \in DOMAIN ssl : Holds(c, ssl[j], p)
    /\ \A j \in DOMAIN ssl : \A n \in DOMAIN ssl[j].names :
          \E p \in P : p[1] = ssl[j].names[n] /\ CommandAt(c, p).ssl # <<>> /\ CertsOf(ssl[j]) = IdsAt(c, p)
(* What is asked of the identities of an entry. *)
Usable(entry, quic) ==
    /\ entry.ids # <<>> /\ entry.ids[1].ossl
    /\ (quic \/ entry.ids[1].ptls) => \A n \in DOMAIN entry.ids : entry.ids[n].ptls
UsableInv(l) ==
    /\ \A j \in DOMAIN l.ssl : Usable(l.ssl[j], l.quic)
    /\ l.quic => l.ssl # <<>> /\ l.tls = 1
ListenerInv(c, l, P) == AgreeInv(c, l, P) /\ HostsInv(l, P) /\ EntryInv(c, l.ssl, P) /\ UsableInv(l)

(* One listener per address that was named, as it should be. *)
ListInv(c) ==
    /\ \A i, j \in DOMAIN c.lis : KeyOf(c.lis[i]) = KeyOf(c.lis[j]) => i = j
    /\ KeysOf(c.lis) = {KeyAt(c, p) : p \in Accepted(c)}
    /\ \A i \in DOMAIN c.lis : ListenerInv(c, c.lis[i], AtKey(c, KeyOf(c.lis[i])))

(* The listeners a command has made so far have no sibling yet. *)
Family(f) == IF f = 1 THEN "inet" ELSE "inet6"
Mutual(lis, i, j) ==
    /\ j \in DOMAIN lis /\ lis[j].sibling = i /\ lis[i].quic /\ lis[j].quic
    /\ lis[i].addr.fam # lis[j].addr.fam
SiblingInv(lis, sib) ==
    /\ \A i \in DOMAIN lis : lis[i].sibling # 0 => Mutual(lis, i, lis[i].sibling)
    /\ \A f \in 1 .. 2 : sib[f] # 0 => /\ sib[f] \in DOMAIN lis /\ lis[sib[f]].sibling = 0
                                       /\ lis[sib[f]].quic /\ lis[sib[f]].addr.fam = Family(f)

(* Sockets: one per listener, then one per thread; all that was inherited   *)
(* is noted.                                                                *)
Bound == {"setuid", "resume", "run"}
SocketInv(c) ==
    /\ c.pc \in {"listen", "configured", "bind"} =>
          \A i \in DOMAIN c.lis : Len(c.lis[i].fds) = 1 /\ (c.mode = "worker" => c.lis[i].fds[1] # "none")
    /\ c.pc \in Bound => \A i \in DOMAIN c.lis :
          Len(c.lis[i].fds) = NumThreads /\ \A n \in DOMAIN c.lis[i].fds : c.lis[i].fds[n] # "none"
    /\ c.pc \in Bound \cup {"bind"} => c.mode = "worker" /\ (c.given # {} => c.bound = c.given)
    /\ Inherits(c) => c.bound = KeysOf(c.lis)

(* What the master opens is what the file asks for, and its workers get it. *)
AllKeys(scene) ==
    UNION {UNION {{Key(scene.configs[1][h][e], k) : k \in DOMAIN scene.configs[1][h][e].addrs} :
                      e \in DOMAIN scene.configs[1][h]} : h \in Levels}
Done(c) == c.pc \notin {"start", "listen", "failed"}
ProcessInv(c) ==
    /\ c.pc = "start" => c.lis = <<>> /\ c.ports = {}
    /\ c.pc # "failed" => c.why = "none"
    /\ c.mode # "worker" => c.world = 1
    /\ Done(c) => c.at.h \notin Levels
    /\ Done(c) => \A i \in DOMAIN c.lis : c.lis[i].global => \A h \in Hosts : \E n \in DOMAIN c.lis[i].hosts : c.lis[i].hosts[n] = h
    /\ c.ports # {} => c.ports = AllKeys(c.scene) /\ (c.pc = "master" \/ (c.mode = "worker" /\ c.given = c.ports))
    /\ (c.ports # {} /\ c.world = 1) => c.why \notin {"not bound", "left over"}

Inv(c) == c \in State /\ ListInv(c) /\ SiblingInv(c.lis, c.sib) /\ SocketInv(c) /\ ProcessInv(c)

-----------------------------------------------------------------------------
(* The operators. *)

\* A set of numbers that is not empty has a first one.
LEMMA FirstOfLeast ==
    ASSUME NEW S, S \subseteq Nat, S # {}
    PROVE  FirstOf(S) \in S /\ \A i \in S : FirstOf(S) <= i
<1>1. PICK x \in S : \A y \in S : ~ (<<y, x>> \in OpToRel(<, Nat))
  BY NatLessThanWellFounded, WFMin
<1>2. ASSUME NEW y \in S PROVE x <= y
  <2>1. ~ (<<y, x>> \in OpToRel(<, Nat)) /\ x \in Nat /\ y \in Nat
    BY <1>1
  <2> QED
    BY <2>1 DEF OpToRel
<1> QED
  BY <1>2 DEF FirstOf

\* What a file says at a level is a sequence of commands.
LEMMA ConfigType ==
    ASSUME ConstantsOK, NEW c \in State, NEW h \in Levels
    PROVE  Config(c, h) \in Seq(Commands)
BY DEF ConstantsOK, Config, State

\* A command of the file and one of its addresses.
InFile(c, h, e, k) == h \in Levels /\ e \in DOMAIN Config(c, h) /\ k \in DOMAIN Config(c, h)[e].addrs

LEMMA InAccepted ==
    ASSUME NEW c, NEW h, NEW e, NEW k
    PROVE  <<h, e, k>> \in Accepted(c) <=> InFile(c, h, e, k) /\ Before(<<h, e, k>>, c.at)
BY DEF Accepted, InFile

LEMMA OfAccepted ==
    ASSUME NEW c, NEW p \in Accepted(c)
    PROVE  \E h, e, k : p = <<h, e, k>> /\ InFile(c, h, e, k) /\ Before(<<h, e, k>>, c.at)
BY DEF Accepted, InFile

LEMMA AcceptedTypes ==
    ASSUME ConstantsOK, NEW c \in State, NEW p \in Accepted(c)
    PROVE  /\ p = <<p[1], p[2], p[3]>> /\ p[1] \in Levels /\ p[1] <= c.at.h
           /\ CommandAt(c, p) \in Commands /\ p[3] \in DOMAIN CommandAt(c, p).addrs /\ KeyAt(c, p) \in Keys
<1>1. PICK h, e, k : p = <<h, e, k>> /\ InFile(c, h, e, k) /\ Before(<<h, e, k>>, c.at)
  BY OfAccepted
<1>2. Config(c, h) \in Seq(Commands) /\ h \in Nat /\ c.at.h \in Nat
  <2>1. h \in Levels /\ h \in Nat
    BY <1>1 DEF InFile, Levels
  <2>2. Config(c, h) \in Seq(Commands)
    BY <2>1, ConfigType
  <2>3. c.at \in Cursor
    BY DEF State
  <2>4. c.at.h \in Nat
    BY <2>3 DEF Cursor
  <2> QED
    BY <2>1, <2>2, <2>4
<1>3. p[1] = h /\ p[2] = e /\ p[3] = k
  BY <1>1
<1>4. Config(c, h)[e] \in Commands /\ CommandAt(c, p) = Config(c, h)[e]
  BY <1>1, <1>2, <1>3 DEF InFile, CommandAt
<1>5. Config(c, h)[e].addrs[k] \in Addresses
  BY <1>1, <1>4 DEF InFile, Commands
<1> QED
  BY <1>1, <1>2, <1>3, <1>4, <1>5 DEF Before, InFile, KeyAt, Key, Keys

\* Moving to the next address accepts one command; what moves over nothing
\* accepts nothing.
LEMMA AcceptedGrows ==
    ASSUME ConstantsOK, NEW c \in State, HasAddress(c), NEW d, d.scene = c.scene, d.world = c.world,
           d.at = [c.at EXCEPT !.k = @ + 1]
    PROVE  /\ Accepted(d) = Accepted(c) \cup {<<c.at.h, c.at.e, c.at.k>>}
           /\ Current(c) \in Commands /\ CommandAt(c, <<c.at.h, c.at.e, c.at.k>>) = Current(c)
           /\ c.at.h \in Levels /\ c.at.k \in DOMAIN Current(c).addrs
<1> DEFINE q == <<c.at.h, c.at.e, c.at.k>>
<1>1. c.at.h \in Levels /\ c.at.h \in Nat /\ c.at.e \in Nat \ {0} /\ c.at.k \in Nat \ {0}
  BY DEF HasAddress, HasCommand, InConfiguration, State, Cursor
<1>2. Config(c, c.at.h) \in Seq(Commands) /\ c.at.e \in DOMAIN Config(c, c.at.h)
  BY <1>1, ConfigType DEF HasAddress, HasCommand
<1>3. Current(c) \in Commands /\ Current(c) = Config(c, c.at.h)[c.at.e]
  BY <1>2 DEF Current
<1>4. Current(c).addrs \in Seq(Addresses)
  BY <1>3 DEF Commands
<1>5. InFile(c, c.at.h, c.at.e, c.at.k) /\ c.at.k \in DOMAIN Current(c).addrs
  BY <1>1, <1>2, <1>3, <1>4 DEF HasAddress, InFile
<1>6. \A h, e, k : InFile(d, h, e, k) <=> InFile(c, h, e, k)
  BY DEF InFile, Config
<1>7. ASSUME NEW h, NEW e, NEW k, InFile(c, h, e, k)
      PROVE  Before(<<h, e, k>>, d.at) <=> Before(<<h, e, k>>, c.at) \/ <<h, e, k>> = q
  <2>1. h \in Nat /\ e \in Nat /\ k \in Nat
    <3>1. Config(c, h) \in Seq(Commands) /\ h \in Nat
      BY <1>7, ConfigType DEF InFile, Levels
    <3>2. e \in Nat /\ Config(c, h)[e] \in Commands
      BY <1>7, <3>1 DEF InFile
    <3>3. Config(c, h)[e].addrs \in Seq(Addresses)
      BY <3>2 DEF Commands
    <3> QED
      BY <1>7, <3>1, <3>2, <3>3 DEF InFile
  <2>2. d.at.h = c.at.h /\ d.at.e = c.at.e /\ d.at.k = c.at.k + 1
    BY DEF State, Cursor
  <2> QED
    BY <1>1, <2>1, <2>2 DEF Before
<1>8. ASSUME NEW p PROVE p \in Accepted(d) <=> p \in Accepted(c) \cup {q}
  <2>1. ASSUME p \in Accepted(d) PROVE p \in Accepted(c) \cup {q}
    <3>1. PICK h, e, k : p = <<h, e, k>> /\ InFile(d, h, e, k) /\ Before(<<h, e, k>>, d.at)
      BY <2>1, OfAccepted
    <3> QED
      BY <3>1, <1>6, <1>7, InAccepted
  <2>2. ASSUME p \in Accepted(c) PROVE p \in Accepted(d)
    <3>1. PICK h, e, k : p = <<h, e, k>> /\ InFile(c, h, e, k) /\ Before(<<h, e, k>>, c.at)
      BY <2>2, OfAccepted
    <3> QED
      BY <3>1, <1>6, <1>7, InAccepted
  <2>3. q \in Accepted(d)
    BY <1>5, <1>6, <1>7, InAccepted
  <2> QED
    BY <2>1, <2>2, <2>3
<1> QED
  BY <1>8, <1>1, <1>3, <1>5 DEF CommandAt

LEMMA AcceptedStays ==
    ASSUME NEW c, NEW d, d.scene = c.scene, d.world = c.world,
           \A h, e, k : InFile(c, h, e, k) => (Before(<<h, e, k>>, d.at) <=> Before(<<h, e, k>>, c.at))
    PROVE  Accepted(d) = Accepted(c)
<1>1. \A h, e, k : InFile(d, h, e, k) <=> InFile(c, h, e, k)
  BY DEF InFile, Config
<1>2. ASSUME NEW p PROVE p \in Accepted(d) <=> p \in Accepted(c)
  <2>1. ASSUME p \in Accepted(d) PROVE p \in Accepted(c)
    <3>1. PICK h, e, k : p = <<h, e, k>> /\ InFile(d, h, e, k) /\ Before(<<h, e, k>>, d.at)
      BY <2>1, OfAccepted
    <3> QED
      BY <3>1, <1>1, InAccepted
  <2>2. ASSUME p \in Accepted(c) PROVE p \in Accepted(d)
    <3>1. PICK h, e, k : p = <<h, e, k>> /\ InFile(c, h, e, k) /\ Before(<<h, e, k>>, c.at)
      BY <2>2, OfAccepted
    <3> QED
      BY <3>1, <1>1, InAccepted
  <2> QED
    BY <2>1, <2>2
<1> QED
  BY <1>2

-----------------------------------------------------------------------------
(* TLS of a listener. *)

\* The identities of a command, whatever their source, are certificates.
LEMMA IdentitiesType ==
    ASSUME ConstantsOK, NEW c \in State, NEW h \in Levels, NEW m \in Commands, m.ssl # <<>>, ~NoIdentity(c, h, m)
    PROVE  /\ m.ssl[1] \in Tls
           /\ Identities(c, h, m.ssl[1]) \in Seq(Certs) /\ Identities(c, h, m.ssl[1]) # <<>>
<1> DEFINE s == m.ssl[1]
<1>0. m.ssl \in Seq(Tls)
  BY DEF Commands
<1>1. s \in Tls /\ s.ids \in Seq(STRING)
  <2>1. s \in Tls
    BY <1>0
  <2> QED
    BY <2>1 DEF Tls
<1>2. CASE s.ids = <<>>
  <2>1. h # 0 /\ c.scene.acme # <<>>
    BY <1>2 DEF NoIdentity, UsesAcme
  <2>2. h \in Hosts /\ c.scene.acme \in [Hosts -> STRING]
    BY <2>1 DEF ConstantsOK, State, Hosts, Levels
  <2>3. AcmeCert(c, h) \in Certs
    <3>1. AcmeCert(c, h) = "loading" \/ AcmeCert(c, h) = c.scene.acme[h]
      BY DEF AcmeCert
    <3> QED
      BY <2>2, <3>1 DEF Certs
  <2> QED
    BY <1>1, <1>2, <2>3 DEF Identities
<1>3. CASE s.ids # <<>>
  <2>1. DOMAIN s.ids = 1 .. Len(s.ids) /\ Len(s.ids) \in Nat \ {0}
    BY <1>1, <1>3
  <2>2. \A n \in DOMAIN s.ids : Rotated(s.ids)[n] \in Certs
    BY <2>1, <1>1 DEF Rotated, Certs
  <2>3. Rotated(s.ids) \in [1 .. Len(s.ids) -> Certs]
    BY <2>1, <2>2 DEF Rotated
  <2>4. Rotated(s.ids) \in Seq(Certs) /\ Len(Rotated(s.ids)) = Len(s.ids)
    BY <2>1, <2>3
  <2> QED
    BY <1>1, <1>3, <2>1, <2>4 DEF Identities
<1> QED
  BY <1>2, <1>3

\* An entry has the certificates it was made of, and they can be used when
\* none of them is refused.
LEMMA NewEntryRight ==
    ASSUME ConstantsOK, NEW c \in State, NEW l \in ListenerSet, NEW h \in Levels, NEW m \in Commands, m.ssl # <<>>,
           ~NoIdentity(c, h, m), ~Refuses(c, l, h, m.ssl[1])
    PROVE  LET entry == NewEntry(c, l, h, m)
           IN  /\ entry \in EntrySet /\ CertsOf(entry) = Identities(c, h, m.ssl[1]) /\ Usable(entry, l.quic)
               /\ entry.names = IF h = 0 THEN <<>> ELSE <<h>>
<1> DEFINE s == m.ssl[1]
           ids == Identities(c, h, s)
           list == [n \in DOMAIN ids |-> Identity(c, s, ids[n], n)]
           entry == NewEntry(c, l, h, m)
<1>1. s \in Tls /\ ids \in Seq(Certs) /\ ids # <<>>
  BY IdentitiesType
<1>2. s.max12 \in BOOLEAN /\ s.ech \in BOOLEAN
  BY <1>1 DEF Tls
<1>3. DOMAIN ids = 1 .. Len(ids) /\ Len(ids) \in Nat \ {0}
  BY <1>1
<1>4. entry.names = (IF h = 0 THEN <<>> ELSE <<h>>) /\ entry.ids = list
      /\ entry = [names |-> IF h = 0 THEN <<>> ELSE <<h>>, ids |-> list, ech |-> Ech(l, s), cc |-> IF m.type = "unix" THEN "none" ELSE m.cc]
  BY DEF NewEntry
<1>a. \A n \in DOMAIN ids :
         /\ s.max12 => File(c, ids[n]).kind # "raw"
         /\ ~s.max12 => File(c, ids[n]).kind # "nosigner" \/ (n = 1 /\ ~l.quic)
  BY <1>2 DEF Refuses, ListenerSet
<1>b. l.quic => ~s.max12
  BY DEF Refuses
<1>5. ASSUME NEW n \in DOMAIN ids
      PROVE  /\ list[n] \in IdentitySet /\ list[n].cert = ids[n] /\ (list[n].ossl <=> n = 1)
             /\ list[n].ptls <=> (~s.max12 /\ File(c, ids[n]).kind # "nosigner")
  <2> HIDE DEF ids, s
  <2>1. list[n] = Identity(c, s, ids[n], n) /\ ids[n] \in Certs
    BY <1>1
  <2> QED
    BY <2>1 DEF Identity, IdentitySet
<1>6. list \in [1 .. Len(ids) -> IdentitySet] /\ DOMAIN list = DOMAIN ids
  <2> HIDE DEF ids
  <2> QED
    BY <1>3, <1>5
<1> HIDE DEF list, ids
<1>7. list \in Seq(IdentitySet) /\ Len(list) = Len(ids) /\ list # <<>>
  BY <1>3, <1>6
<1>8. CertsOf(entry) = ids
  <2>1. CertsOf(entry) = [n \in DOMAIN ids |-> ids[n]]
    BY <1>4, <1>5, <1>6 DEF CertsOf
  <2> QED
    BY <2>1, <1>1
<1>9. Usable(entry, l.quic)
  <2>1. list[1].ossl /\ 1 \in DOMAIN ids
    BY <1>3, <1>5
  <2>2. ASSUME l.quic \/ list[1].ptls, NEW n \in DOMAIN list PROVE list[n].ptls
    <3>1. ~s.max12
      BY <2>1, <2>2, <1>b, <1>5
    <3>2. File(c, ids[n]).kind # "nosigner"
      BY <3>1, <2>1, <2>2, <1>a, <1>5, <1>6
    <3> QED
      BY <3>1, <3>2, <2>2, <1>5, <1>6
  <2> QED
    BY <2>1, <2>2, <1>4, <1>7 DEF Usable
<1>10. entry \in EntrySet
  <2>1. (IF h = 0 THEN <<>> ELSE <<h>>) \in Seq(Hosts)
    <3>1. h = 0 \/ h \in Hosts
      BY DEF Hosts, Levels
    <3>2. CASE h = 0
      BY <3>2
    <3>3. CASE h # 0
      BY <3>1, <3>3
    <3> QED
      BY <3>2, <3>3
  <2>2. Ech(l, s) \in BOOLEAN
    BY DEF Ech
  <2>3. (IF m.type = "unix" THEN "none" ELSE m.cc) \in Controls
    BY DEF Commands, Controls
  <2> DEFINE names == IF h = 0 THEN <<>> ELSE <<h>>
             cc == IF m.type = "unix" THEN "none" ELSE m.cc
             ech == Ech(l, s)
  <2>4. entry = [names |-> names, ids |-> list, ech |-> ech, cc |-> cc]
    BY <1>4
  <2>5. names \in Seq(Hosts) /\ ech \in BOOLEAN /\ cc \in Controls
    BY <2>1, <2>2, <2>3
  <2> HIDE DEF names, cc, ech, entry
  <2> QED
    BY <2>4, <2>5, <1>7 DEF EntrySet
<1> QED
  BY <1>4, <1>8, <1>9, <1>10 DEF ids

\* What setting up TLS leaves of a listener, and what it makes of its entries.
LEMMA SetupFields ==
    ASSUME ConstantsOK, NEW c \in State, NEW l \in ListenerSet, NEW new \in BOOLEAN, NEW h \in Levels, NEW m \in Commands,
           ~SslFails(c, l, new, h, m)
    PROVE  LET d == SetupSsl(c, l, new, h, m)
           IN  /\ d \in ListenerSet
               /\ d.addr = l.addr /\ d.quic = l.quic /\ d.global = l.global /\ d.hosts = l.hosts /\ d.sibling = l.sibling
               /\ d.proxy = l.proxy /\ d.fds = l.fds
               /\ m.ssl = <<>> => d.ssl = l.ssl /\ d.tls = l.tls
               /\ m.ssl # <<>> => /\ d.ssl # <<>> /\ (l.tls # 0 => d.tls = l.tls)
                                  /\ l.quic /\ l.ssl = <<>> /\ l.tls = 0 => d.tls = 1
<1> DEFINE ids == Identities(c, h, m.ssl[1])
           S == Sharing(l, h, ids)
           d == SetupSsl(c, l, new, h, m)
<1>1. CASE m.ssl = <<>>
  BY <1>1 DEF SetupSsl
<1>2. CASE m.ssl # <<>> /\ S # {}
  <2>1. l.ssl \in Seq(EntrySet)
    BY DEF ListenerSet
  <2>2. S \subseteq DOMAIN l.ssl /\ h # 0
    BY <1>2 DEF Sharing
  <2>3. FirstOf(S) \in DOMAIN l.ssl
    BY <1>2, <2>1, <2>2, FirstOfLeast
  <2> DEFINE j == FirstOf(S)
  <2>4. d = [l EXCEPT !.ssl[j].names = Append(@, h)]
    BY <1>2 DEF SetupSsl
  <2> HIDE DEF S, j, d
  <2>5. [l.ssl[j] EXCEPT !.names = Append(@, h)] \in EntrySet
    <3>1. h \in Hosts
      BY <2>2 DEF Hosts, Levels
    <3>2. l.ssl[j] \in EntrySet
      BY <2>1, <2>3 DEF j
    <3> DEFINE e == l.ssl[j]
               names == Append(e.names, h)
    <3>3. e.names \in Seq(Hosts)
      BY <3>2 DEF EntrySet
    <3>4. names \in Seq(Hosts)
      BY <3>1, <3>3
    <3> HIDE DEF e, names
    <3>5. [e EXCEPT !.names = names] \in EntrySet
      BY <3>2, <3>4 DEF EntrySet, e
    <3> QED
      BY <3>5 DEF e, names
  <2>6. [l.ssl EXCEPT ![j].names = Append(@, h)] \in Seq(EntrySet) /\ [l.ssl EXCEPT ![j].names = Append(@, h)] # <<>>
    BY <2>1, <2>3, <2>5 DEF j
  <2>7. d = [l EXCEPT !.ssl = [l.ssl EXCEPT ![j].names = Append(@, h)]]
    BY <2>4
  <2> DEFINE ssl == [l.ssl EXCEPT ![j].names = Append(@, h)]
  <2>8. d = [l EXCEPT !.ssl = ssl] /\ ssl \in Seq(EntrySet) /\ ssl # <<>>
    BY <2>6, <2>7
  <2>9. l.ssl # <<>>
    BY <2>1, <2>3
  <2> HIDE DEF ssl
  <2> QED
    BY <2>8, <2>9, <1>2 DEF ListenerSet, d, S
<1>3. CASE m.ssl # <<>> /\ S = {}
  <2> DEFINE entry == NewEntry(c, l, h, m)
  <2>1. ~NoIdentity(c, h, m) /\ ~Refuses(c, l, h, m.ssl[1])
    BY <1>3 DEF SslFails
  <2>2. entry \in EntrySet
    BY <1>3, <2>1, NewEntryRight
  <2>3. d = AddEntry(l, new, m, entry)
    BY <1>3 DEF SetupSsl
  <2> HIDE DEF entry, d, S
  <2>4. l.ssl \in Seq(EntrySet) /\ m.cc \in Controls
    BY DEF ListenerSet, Commands, Controls
  <2>5. Append(l.ssl, entry) \in Seq(EntrySet) /\ Append(l.ssl, entry) # <<>> /\ Append(l.ssl, entry) # l.ssl /\ Len(l.ssl) + 1 \in Nat
    BY <2>2, <2>4
  <2> DEFINE ssl == Append(l.ssl, entry)
             tls == IF l.quic /\ l.tls = 0 THEN Len(l.ssl) + 1 ELSE l.tls
             cc == IF l.quic /\ new /\ m.cc # "none" THEN m.cc ELSE l.cc
  <2>6. d = [l EXCEPT !.ssl = ssl, !.tls = tls, !.cc = cc]
    BY <2>3 DEF AddEntry
  <2>7. /\ ssl \in Seq(EntrySet) /\ ssl # <<>> /\ tls \in Nat /\ cc \in Controls
        /\ (l.tls # 0 => tls = l.tls) /\ (l.quic /\ l.ssl = <<>> /\ l.tls = 0 => tls = 1)
    <3>1. l.tls \in Nat /\ l.cc \in Controls
      BY DEF ListenerSet
    <3>2. cc \in Controls
      BY <3>1, <2>4
    <3>3. l.ssl = <<>> => Len(l.ssl) + 1 = 1
      OBVIOUS
    <3> QED
      BY <3>1, <3>2, <3>3, <2>5
  <2> HIDE DEF ssl, tls, cc
  <2> QED
    BY <2>6, <2>7, <1>3 DEF ListenerSet, d
<1> QED
  BY <1>1, <1>2, <1>3

\* The command that was accepted has its entry, the others keep theirs, and
\* every name still has a command.
LEMMA SetupEntries ==
    ASSUME ConstantsOK, NEW c \in State, NEW l \in ListenerSet, NEW new \in BOOLEAN, NEW h \in Levels, NEW m \in Commands,
           ~SslFails(c, l, new, h, m), NEW P, NEW q, q[1] = h, CommandAt(c, q) = m, EntryInv(c, l.ssl, P),
           \A j \in DOMAIN l.ssl : Usable(l.ssl[j], l.quic)
    PROVE  LET d == SetupSsl(c, l, new, h, m)
           IN  EntryInv(c, d.ssl, P \cup {q}) /\ \A j \in DOMAIN d.ssl : Usable(d.ssl[j], l.quic)
<1> DEFINE ids == Identities(c, h, m.ssl[1])
           S == Sharing(l, h, ids)
           d == SetupSsl(c, l, new, h, m)
<1>0. l.ssl \in Seq(EntrySet) /\ IdsAt(c, q) = ids
  BY DEF ListenerSet, IdsAt
<1>1. CASE m.ssl = <<>>
  <2>1. d.ssl = l.ssl
    BY <1>1 DEF SetupSsl
  <2> QED
    BY <1>1, <2>1 DEF EntryInv
<1>2. CASE m.ssl # <<>> /\ S # {}
  <2> DEFINE f == FirstOf(S)
  <2>1. f \in S /\ S \subseteq DOMAIN l.ssl /\ h # 0
    <3>1. S \subseteq DOMAIN l.ssl /\ h # 0
      BY <1>2 DEF Sharing
    <3> QED
      BY <1>2, <1>0, <3>1, FirstOfLeast
  <2>2. f \in DOMAIN l.ssl /\ CertsOf(l.ssl[f]) = ids
    BY <2>1 DEF Sharing
  <2>3. d.ssl = [l.ssl EXCEPT ![f].names = Append(@, h)]
    BY <1>2 DEF SetupSsl, ListenerSet
  <2> HIDE DEF d, f, S, ids
  <2>4. /\ DOMAIN d.ssl = DOMAIN l.ssl /\ \A j \in DOMAIN l.ssl : j # f => d.ssl[j] = l.ssl[j]
        /\ d.ssl[f] = [l.ssl[f] EXCEPT !.names = Append(@, h)]
    BY <2>2, <2>3, <1>0
  <2>5. l.ssl[f] \in EntrySet /\ l.ssl[f].names \in Seq(Hosts)
    <3>1. l.ssl[f] \in EntrySet
      BY <2>2, <1>0
    <3> QED
      BY <3>1 DEF EntrySet
  <2>6. d.ssl[f].names = Append(l.ssl[f].names, h) /\ d.ssl[f].ids = l.ssl[f].ids
    BY <2>4, <2>5 DEF EntrySet
  <2>7. \A j \in DOMAIN l.ssl : d.ssl[j].ids = l.ssl[j].ids /\ CertsOf(d.ssl[j]) = CertsOf(l.ssl[j])
    BY <2>4, <2>6 DEF CertsOf
  <2> DEFINE n1 == Len(l.ssl[f].names) + 1
  <2>8. /\ DOMAIN d.ssl[f].names = 1 .. n1 /\ n1 \in Nat \ {0} /\ d.ssl[f].names[n1] = h
        /\ DOMAIN l.ssl[f].names = 1 .. n1 - 1 /\ \A n \in 1 .. n1 - 1 : d.ssl[f].names[n] = l.ssl[f].names[n]
    <3> DEFINE s == l.ssl[f].names
    <3>1. s \in Seq(Hosts) /\ d.ssl[f].names = Append(s, h) /\ n1 = Len(s) + 1
      BY <2>5, <2>6
    <3>2. h \in Hosts
      BY <2>1 DEF Hosts, Levels
    <3> HIDE DEF s
    <3>3. /\ DOMAIN Append(s, h) = 1 .. Len(s) + 1 /\ DOMAIN s = 1 .. Len(s) /\ Len(s) \in Nat
          /\ Append(s, h)[Len(s) + 1] = h /\ \A n \in 1 .. Len(s) : Append(s, h)[n] = s[n]
      BY <3>1, <3>2
    <3>4. n1 \in Nat \ {0} /\ n1 - 1 = Len(s)
      BY <3>1, <3>3
    <3> QED
      BY <3>1, <3>3, <3>4 DEF s
  <2> HIDE DEF n1
  <2>9. \A j \in DOMAIN d.ssl : Usable(d.ssl[j], l.quic)
    BY <2>4, <2>7 DEF Usable
  <2>10. ASSUME NEW p \in P \cup {q}, p[1] # 0, CommandAt(c, p).ssl # <<>>
         PROVE  \E j \in DOMAIN d.ssl : Holds(c, d.ssl[j], p)
    <3>1. CASE p = q
      <4>1. d.ssl[f].names[n1] = p[1] /\ n1 \in DOMAIN d.ssl[f].names
        BY <2>8, <3>1
      <4>2. CertsOf(d.ssl[f]) = IdsAt(c, p)
        BY <2>2, <2>7, <1>0, <3>1
      <4> QED
        BY <4>1, <4>2, <2>2, <2>4 DEF Holds
    <3>2. CASE p \in P
      <4>1. PICK j \in DOMAIN l.ssl : Holds(c, l.ssl[j], p)
        BY <2>10, <3>2 DEF EntryInv
      <4>2. PICK n \in DOMAIN l.ssl[j].names : l.ssl[j].names[n] = p[1]
        BY <4>1 DEF Holds
      <4>3. n \in DOMAIN d.ssl[j].names /\ d.ssl[j].names[n] = p[1]
        <5>1. CASE j = f
          BY <4>2, <5>1, <2>8
        <5>2. CASE j # f
          BY <4>1, <4>2, <5>2, <2>4
        <5> QED
          BY <5>1, <5>2
      <4>4. CertsOf(d.ssl[j]) = IdsAt(c, p)
        BY <4>1, <2>7 DEF Holds
      <4> QED
        BY <4>1, <4>3, <4>4, <2>4 DEF Holds
    <3> QED
      BY <2>10, <3>1, <3>2
  <2>11. ASSUME NEW j \in DOMAIN d.ssl, NEW n \in DOMAIN d.ssl[j].names
         PROVE  \E p \in P \cup {q} : p[1] = d.ssl[j].names[n] /\ CommandAt(c, p).ssl # <<>> /\ CertsOf(d.ssl[j]) = IdsAt(c, p)
    <3>1. CASE j = f /\ n = n1
      BY <3>1, <2>2, <2>7, <2>8, <1>0, <1>2
    <3>2. CASE ~(j = f /\ n = n1)
      <4>1. n \in DOMAIN l.ssl[j].names /\ l.ssl[j].names[n] = d.ssl[j].names[n] /\ j \in DOMAIN l.ssl
        <5>1. CASE j = f
          <6>1. n \in 1 .. n1 - 1
            BY <5>1, <3>2, <2>8, <2>11
          <6> QED
            BY <5>1, <6>1, <2>2, <2>8
        <5>2. CASE j # f
          BY <5>2, <2>4, <2>11
        <5> QED
          BY <5>1, <5>2
      <4>2. PICK p \in P : p[1] = l.ssl[j].names[n] /\ CommandAt(c, p).ssl # <<>> /\ CertsOf(l.ssl[j]) = IdsAt(c, p)
        BY <4>1 DEF EntryInv
      <4> QED
        BY <4>1, <4>2, <2>7
    <3> QED
      BY <3>1, <3>2
  <2> QED
    BY <2>9, <2>10, <2>11 DEF EntryInv, d
<1>3. CASE m.ssl # <<>> /\ S = {}
  <2> DEFINE e == NewEntry(c, l, h, m)
             N == Len(l.ssl) + 1
  <2>1. ~NoIdentity(c, h, m) /\ ~Refuses(c, l, h, m.ssl[1])
    BY <1>3 DEF SslFails
  <2>2. e \in EntrySet /\ CertsOf(e) = ids /\ Usable(e, l.quic) /\ e.names = IF h = 0 THEN <<>> ELSE <<h>>
    BY <1>3, <2>1, NewEntryRight
  <2>3. d.ssl = Append(l.ssl, e)
    BY <1>3 DEF SetupSsl, AddEntry, ListenerSet
  <2> HIDE DEF e, d, S, ids
  <2>4. /\ DOMAIN d.ssl = 1 .. N /\ N \in Nat /\ DOMAIN l.ssl = 1 .. N - 1 /\ N \in 1 .. N
        /\ d.ssl[N] = e /\ \A j \in 1 .. N - 1 : d.ssl[j] = l.ssl[j]
    BY <2>3, <1>0
  <2> HIDE DEF N
  <2>5. \A j \in DOMAIN d.ssl : Usable(d.ssl[j], l.quic)
    BY <2>2, <2>4
  <2>6. ASSUME NEW p \in P \cup {q}, p[1] # 0, CommandAt(c, p).ssl # <<>>
        PROVE  \E j \in DOMAIN d.ssl : Holds(c, d.ssl[j], p)
    <3>1. CASE p = q
      <4>1. e.names = <<h>>
        BY <2>2, <2>6, <3>1
      <4>2. 1 \in DOMAIN e.names /\ e.names[1] = p[1]
        BY <4>1, <3>1
      <4> QED
        BY <4>2, <2>2, <2>4, <1>0, <3>1 DEF Holds
    <3>2. CASE p \in P
      <4>1. PICK j \in DOMAIN l.ssl : Holds(c, l.ssl[j], p)
        BY <2>6, <3>2 DEF EntryInv
      <4> QED
        BY <4>1, <2>4
    <3> QED
      BY <2>6, <3>1, <3>2
  <2>7. ASSUME NEW j \in DOMAIN d.ssl, NEW n \in DOMAIN d.ssl[j].names
        PROVE  \E p \in P \cup {q} : p[1] = d.ssl[j].names[n] /\ CommandAt(c, p).ssl # <<>> /\ CertsOf(d.ssl[j]) = IdsAt(c, p)
    <3>1. CASE j = N
      <4>1. n \in DOMAIN e.names /\ d.ssl[j] = e
        BY <2>4, <2>7, <3>1
      <4>2. h # 0 /\ n = 1 /\ e.names = <<h>>
        BY <4>1, <2>2
      <4>3. q[1] = d.ssl[j].names[n] /\ CommandAt(c, q).ssl # <<>> /\ CertsOf(d.ssl[j]) = IdsAt(c, q)
        BY <4>1, <4>2, <2>2, <1>0, <1>3
      <4> QED
        BY <4>3
    <3>2. CASE j # N
      <4>1. j \in DOMAIN l.ssl /\ d.ssl[j] = l.ssl[j]
        BY <2>4, <2>7, <3>2
      <4> QED
        BY <4>1, <2>7 DEF EntryInv
    <3> QED
      BY <3>1, <3>2
  <2> QED
    BY <2>5, <2>6, <2>7 DEF EntryInv, d
<1> QED
  BY <1>1, <1>2, <1>3

-----------------------------------------------------------------------------
(* A command at one address. *)

LEMMA AppendHostFields ==
    ASSUME NEW l \in ListenerSet, NEW h \in Levels
    PROVE  LET d == AppendHost(l, h)
           IN  /\ d \in ListenerSet
               /\ d.addr = l.addr /\ d.quic = l.quic /\ d.global = l.global /\ d.sibling = l.sibling /\ d.proxy = l.proxy
               /\ d.fds = l.fds /\ d.ssl = l.ssl /\ d.tls = l.tls
               /\ ~l.global /\ h # 0 => \A x \in Hosts : (\E n \in DOMAIN d.hosts : d.hosts[n] = x) <=> (x = h \/ \E n \in DOMAIN l.hosts : l.hosts[n] = x)
<1>1. CASE l.global \/ h = 0
  BY <1>1 DEF AppendHost
<1>2. CASE ~l.global /\ h # 0
  <2>1. h \in Hosts /\ l.hosts \in Seq(Hosts)
    BY <1>2 DEF Hosts, Levels, ListenerSet
  <2> DEFINE s == l.hosts
             t == Append(s, h)
             d == AppendHost(l, h)
  <2>2. /\ t \in Seq(Hosts) /\ DOMAIN t = 1 .. Len(s) + 1 /\ DOMAIN s = 1 .. Len(s) /\ Len(s) \in Nat
        /\ t[Len(s) + 1] = h /\ \A n \in 1 .. Len(s) : t[n] = s[n]
    BY <2>1
  <2>3. d = [l EXCEPT !.hosts = t]
    BY <1>2 DEF AppendHost
  <2>4. ASSUME NEW x PROVE (\E n \in DOMAIN t : t[n] = x) <=> (x = h \/ \E n \in DOMAIN s : s[n] = x)
    <3> HIDE DEF s, t
    <3>1. ASSUME NEW n \in DOMAIN t PROVE t[n] = h \/ \E i \in DOMAIN s : s[i] = t[n]
      <4>1. n = Len(s) + 1 \/ n \in 1 .. Len(s)
        BY <2>2
      <4> QED
        BY <4>1, <2>2
    <3>2. ASSUME NEW n \in DOMAIN s PROVE \E i \in DOMAIN t : t[i] = s[n]
      <4>1. n \in DOMAIN t /\ t[n] = s[n]
        BY <2>2
      <4> QED
        BY <4>1
    <3>3. Len(s) + 1 \in DOMAIN t
      BY <2>2
    <3> QED
      BY <3>1, <3>2, <3>3, <2>2
  <2> HIDE DEF t, s
  <2>5. d \in ListenerSet /\ d.hosts = t
    BY <2>2, <2>3 DEF ListenerSet
  <2> QED
    BY <2>3, <2>4, <2>5 DEF ListenerSet, s
<1> QED
  BY <1>1, <1>2

\* A new listener, as the only command that names it wants it.
LEMMA NewListenerRight ==
    ASSUME ConstantsOK, NEW c \in State, NEW h \in Levels, NEW m \in Commands, NEW key \in Keys, key.quic <=> m.type = "quic",
           NEW q, q[1] = h, CommandAt(c, q) = m, NEW fd \in Fds, NEW new \in BOOLEAN,
           ~SslFails(c, NewListener(key, h, m, fd), new, h, m), m.type = "quic" => m.ssl # <<>>,
           NEW P, P = {q}
    PROVE  LET d == AppendHost(SetupSsl(c, NewListener(key, h, m, fd), new, h, m), h)
           IN  /\ d \in ListenerSet /\ KeyOf(d) = key /\ d.sibling = 0 /\ d.fds = <<fd>> /\ d.quic = key.quic /\ d.addr = key.addr
               /\ ListenerInv(c, d, P)
<1> DEFINE l == NewListener(key, h, m, fd)
           s == SetupSsl(c, l, new, h, m)
           d == AppendHost(s, h)
<1>1. /\ l.addr = key.addr /\ l.quic = key.quic /\ (l.global <=> h = 0) /\ l.hosts = <<>> /\ l.ssl = <<>> /\ l.tls = 0
      /\ l.sibling = 0 /\ (l.proxy <=> ~key.quic /\ m.proxy) /\ l.fds = <<fd>>
  BY DEF NewListener
<1>2. l \in ListenerSet
  <2>1. key.addr \in Addresses /\ key.quic \in BOOLEAN
    BY DEF Keys
  <2> DEFINE cc == IF m.type = "tcp" THEN m.cc ELSE "none"
             global == h = 0
             proxy == ~key.quic /\ m.proxy
             fds == <<fd>>
  <2>2. cc \in Controls
    BY DEF Controls, Commands
  <2>3. global \in BOOLEAN /\ proxy \in BOOLEAN /\ fds \in Seq(Fds)
    OBVIOUS
  <2>4. <<>> \in Seq(Hosts) /\ <<>> \in Seq(EntrySet)
    OBVIOUS
  <2>5. l = [addr |-> key.addr, quic |-> key.quic, global |-> global, hosts |-> <<>>, ssl |-> <<>>, tls |-> 0, sibling |-> 0,
             proxy |-> proxy, cc |-> cc, fds |-> fds]
    BY DEF NewListener
  <2> HIDE DEF cc, global, proxy, fds, l
  <2> QED
    BY <2>1, <2>2, <2>3, <2>4, <2>5 DEF ListenerSet
<1> HIDE DEF l
<1>3. ~SslFails(c, l, new, h, m) /\ (m.type = "quic" => m.ssl # <<>>)
  BY DEF l
<1>4. /\ s \in ListenerSet /\ s.addr = l.addr /\ s.quic = l.quic /\ s.global = l.global /\ s.hosts = l.hosts /\ s.sibling = l.sibling
      /\ s.proxy = l.proxy /\ s.fds = l.fds
      /\ (m.ssl = <<>> => s.ssl = l.ssl /\ s.tls = l.tls) /\ (m.ssl # <<>> => s.ssl # <<>> /\ (l.quic => s.tls = 1))
  <2>1. l.ssl = <<>> /\ l.tls = 0
    BY <1>1
  <2>2. /\ s \in ListenerSet /\ s.addr = l.addr /\ s.quic = l.quic /\ s.global = l.global /\ s.hosts = l.hosts
        /\ s.sibling = l.sibling /\ s.proxy = l.proxy /\ s.fds = l.fds
    BY <1>2, <1>3, SetupFields
  <2>3. m.ssl = <<>> => s.ssl = l.ssl /\ s.tls = l.tls
    BY <1>2, <1>3, SetupFields
  <2>4. m.ssl # <<>> => s.ssl # <<>> /\ (l.quic /\ l.ssl = <<>> /\ l.tls = 0 => s.tls = 1)
    BY <1>2, <1>3, SetupFields
  <2> HIDE DEF s
  <2> QED
    BY <2>1, <2>2, <2>3, <2>4
<1>5. EntryInv(c, l.ssl, {}) /\ \A j \in DOMAIN l.ssl : Usable(l.ssl[j], l.quic)
  BY <1>1 DEF EntryInv
<1>6. EntryInv(c, s.ssl, P) /\ \A j \in DOMAIN s.ssl : Usable(s.ssl[j], l.quic)
  <2>1. EntryInv(c, s.ssl, {} \cup {q}) /\ \A j \in DOMAIN s.ssl : Usable(s.ssl[j], l.quic)
    BY <1>2, <1>3, <1>5, SetupEntries
  <2>2. {} \cup {q} = P
    OBVIOUS
  <2> QED
    BY <2>1, <2>2
<1> HIDE DEF s
<1>7. /\ d \in ListenerSet /\ d.addr = s.addr /\ d.quic = s.quic /\ d.global = s.global /\ d.sibling = s.sibling /\ d.proxy = s.proxy
      /\ d.fds = s.fds /\ d.ssl = s.ssl /\ d.tls = s.tls
      /\ ~s.global /\ h # 0 => \A x \in Hosts : (\E n \in DOMAIN d.hosts : d.hosts[n] = x) <=> (x = h \/ \E n \in DOMAIN s.hosts : s.hosts[n] = x)
  BY <1>4, AppendHostFields
<1> HIDE DEF d
<1>8. KeyOf(d) = key
  BY <1>1, <1>4, <1>7 DEF KeyOf, Keys
<1>9. AgreeInv(c, d, P)
  <2>1. (m.ssl = <<>>) <=> (d.ssl = <<>>)
    BY <1>1, <1>4, <1>7
  <2>2. ASSUME m.type # "quic" PROVE d.proxy = m.proxy
    <3>1. d.proxy \in BOOLEAN /\ m.proxy \in BOOLEAN
      BY <1>7 DEF ListenerSet, Commands
    <3>2. d.proxy <=> m.proxy
      BY <1>1, <1>4, <1>7, <2>2
    <3> QED
      BY <3>1, <3>2
  <2> QED
    BY <2>1, <2>2 DEF AgreeInv
<1>10. HostsInv(d, P)
  <2>1. d.global <=> h = 0
    BY <1>1, <1>4, <1>7
  <2>2. ASSUME ~d.global, NEW x \in Hosts
        PROVE  (\E n \in DOMAIN d.hosts : d.hosts[n] = x) <=> x = h
    <3>1. DOMAIN s.hosts = {} /\ ~s.global /\ h # 0
      BY <1>1, <1>4, <1>7, <2>1, <2>2
    <3> QED
      BY <1>7, <2>2, <3>1
  <2> QED
    BY <2>1, <2>2 DEF HostsInv
<1>11. UsableInv(d)
  BY <1>1, <1>3, <1>4, <1>6, <1>7 DEF UsableInv
<1>12. /\ d \in ListenerSet /\ KeyOf(d) = key /\ d.sibling = 0 /\ d.fds = <<fd>> /\ d.quic = key.quic /\ d.addr = key.addr
       /\ ListenerInv(c, d, P)
  BY <1>1, <1>4, <1>6, <1>7, <1>8, <1>9, <1>10, <1>11 DEF ListenerInv
<1> QED
  BY <1>12 DEF d, s, l

\* A listener that another command of its address joins.
LEMMA OldListenerRight ==
    ASSUME ConstantsOK, NEW c \in State, NEW h \in Levels, NEW m \in Commands, NEW l \in ListenerSet, l.quic <=> m.type = "quic",
           NEW q, q[1] = h, CommandAt(c, q) = m, NEW new \in BOOLEAN, ~SslFails(c, l, new, h, m),
           (l.ssl = <<>>) <=> (m.ssl = <<>>), ~l.quic => l.proxy = m.proxy,
           NEW P, ListenerInv(c, l, P), NEW Q, Q = P \cup {q}, h = 0 => l.global
    PROVE  LET d == AppendHost(SetupSsl(c, l, new, h, m), h)
           IN  /\ d \in ListenerSet /\ KeyOf(d) = KeyOf(l) /\ d.sibling = l.sibling /\ d.fds = l.fds /\ d.quic = l.quic /\ d.addr = l.addr
               /\ ListenerInv(c, d, Q)
<1> DEFINE s == SetupSsl(c, l, new, h, m)
           d == AppendHost(s, h)
<1>1. AgreeInv(c, l, P) /\ HostsInv(l, P) /\ EntryInv(c, l.ssl, P) /\ UsableInv(l)
  BY DEF ListenerInv
<1>2. /\ s \in ListenerSet /\ s.addr = l.addr /\ s.quic = l.quic /\ s.global = l.global /\ s.hosts = l.hosts
      /\ s.sibling = l.sibling /\ s.proxy = l.proxy /\ s.fds = l.fds
  BY SetupFields
<1>3. m.ssl = <<>> => s.ssl = l.ssl /\ s.tls = l.tls
  BY SetupFields
<1>4. m.ssl # <<>> => s.ssl # <<>> /\ (l.tls # 0 => s.tls = l.tls)
  BY SetupFields
<1>5. \A j \in DOMAIN l.ssl : Usable(l.ssl[j], l.quic)
  BY <1>1 DEF UsableInv
<1>6. EntryInv(c, s.ssl, Q) /\ \A j \in DOMAIN s.ssl : Usable(s.ssl[j], l.quic)
  <2>1. EntryInv(c, s.ssl, P \cup {q}) /\ \A j \in DOMAIN s.ssl : Usable(s.ssl[j], l.quic)
    BY <1>1, <1>5, SetupEntries
  <2> QED
    BY <2>1
<1> HIDE DEF s
<1>7. /\ d \in ListenerSet /\ d.addr = s.addr /\ d.quic = s.quic /\ d.global = s.global /\ d.sibling = s.sibling /\ d.proxy = s.proxy
      /\ d.fds = s.fds /\ d.ssl = s.ssl /\ d.tls = s.tls
      /\ ~s.global /\ h # 0 => \A x \in Hosts : (\E n \in DOMAIN d.hosts : d.hosts[n] = x) <=> (x = h \/ \E n \in DOMAIN s.hosts : s.hosts[n] = x)
  BY <1>2, AppendHostFields
<1> HIDE DEF d
<1>8. KeyOf(d) = KeyOf(l)
  BY <1>2, <1>7 DEF KeyOf
<1>9. AgreeInv(c, d, Q)
  <2>1. (l.ssl = <<>>) <=> (d.ssl = <<>>)
    BY <1>3, <1>4, <1>7
  <2>2. d.proxy = l.proxy /\ (m.type # "quic" => l.proxy = m.proxy)
    BY <1>2, <1>7
  <2> QED
    BY <1>1, <2>1, <2>2 DEF AgreeInv
<1>10. HostsInv(d, Q)
  <2>1. d.global <=> \E p \in P \cup {q} : p[1] = 0
    BY <1>1, <1>2, <1>7 DEF HostsInv
  <2>2. ASSUME ~d.global, NEW x \in Hosts
        PROVE  (\E n \in DOMAIN d.hosts : d.hosts[n] = x) <=> \E p \in P \cup {q} : p[1] = x
    <3>1. ~s.global /\ ~l.global /\ h # 0
      BY <1>2, <1>7, <2>2
    <3>2. (\E n \in DOMAIN l.hosts : l.hosts[n] = x) <=> \E p \in P : p[1] = x
      BY <1>1, <3>1 DEF HostsInv
    <3> QED
      BY <1>2, <1>7, <3>1, <3>2
  <2> QED
    BY <2>1, <2>2 DEF HostsInv
<1>11. UsableInv(d)
  <2>1. l.quic => l.ssl # <<>> /\ l.tls = 1
    BY <1>1 DEF UsableInv
  <2> QED
    BY <1>2, <1>3, <1>4, <1>6, <1>7, <2>1 DEF UsableInv
<1>12. /\ d \in ListenerSet /\ KeyOf(d) = KeyOf(l) /\ d.sibling = l.sibling /\ d.fds = l.fds /\ d.quic = l.quic /\ d.addr = l.addr
       /\ ListenerInv(c, d, Q)
  BY <1>2, <1>6, <1>7, <1>8, <1>9, <1>10, <1>11 DEF ListenerInv
<1> QED
  BY <1>12 DEF d, s

-----------------------------------------------------------------------------
(* The list of listeners. *)

\* What is asked of a listener depends on the file, not on how far it was read.
LEMMA SameFile ==
    ASSUME NEW c, NEW d, d.scene = c.scene, d.world = c.world
    PROVE  /\ \A p : CommandAt(d, p) = CommandAt(c, p) /\ KeyAt(d, p) = KeyAt(c, p) /\ IdsAt(d, p) = IdsAt(c, p)
           /\ \A l, P : ListenerInv(c, l, P) => ListenerInv(d, l, P)
<1>1. \A h : Config(d, h) = Config(c, h)
  BY DEF Config
<1>2. \A x : File(d, x) = File(c, x)
  BY DEF File
<1>3. \A p : CommandAt(d, p) = CommandAt(c, p) /\ KeyAt(d, p) = KeyAt(c, p)
  BY <1>1 DEF CommandAt, KeyAt
<1>4. \A h, s : Identities(d, h, s) = Identities(c, h, s)
  BY <1>2 DEF Identities, AcmeCert
<1>5. \A p : IdsAt(d, p) = IdsAt(c, p)
  BY <1>3, <1>4 DEF IdsAt
<1> QED
  BY <1>3, <1>5 DEF ListenerInv, AgreeInv, EntryInv, Holds

\* A listener that is in the list has been named by a command.
LEMMA NamedKeys ==
    ASSUME NEW c, ListInv(c), NEW i \in DOMAIN c.lis
    PROVE  AtKey(c, KeyOf(c.lis[i])) # {}
<1>1. KeyOf(c.lis[i]) \in {KeyAt(c, p) : p \in Accepted(c)}
  BY DEF ListInv, KeysOf
<1> QED
  BY <1>1 DEF AtKey

\* The commands of an address after one more was accepted.
LEMMA AtKeyGrows ==
    ASSUME ConstantsOK, NEW c \in State, HasAddress(c), NEW d, d.scene = c.scene, d.world = c.world,
           d.at = [c.at EXCEPT !.k = @ + 1]
    PROVE  LET q == <<c.at.h, c.at.e, c.at.k>>
           IN  /\ KeyAt(c, q) = Key(Current(c), c.at.k)
               /\ {KeyAt(d, p) : p \in Accepted(d)} = {KeyAt(c, p) : p \in Accepted(c)} \cup {KeyAt(c, q)}
               /\ AtKey(d, KeyAt(c, q)) = AtKey(c, KeyAt(c, q)) \cup {q}
               /\ \A key : key # KeyAt(c, q) => AtKey(d, key) = AtKey(c, key)
<1> DEFINE q == <<c.at.h, c.at.e, c.at.k>>
<1>1. Accepted(d) = Accepted(c) \cup {q} /\ CommandAt(c, q) = Current(c)
  BY AcceptedGrows
<1>2. \A p : KeyAt(d, p) = KeyAt(c, p)
  BY SameFile
<1>3. KeyAt(c, q) = Key(Current(c), c.at.k)
  BY <1>1 DEF KeyAt
<1> HIDE DEF q
<1>4. /\ {KeyAt(d, p) : p \in Accepted(d)} = {KeyAt(c, p) : p \in Accepted(c)} \cup {KeyAt(c, q)}
      /\ AtKey(d, KeyAt(c, q)) = AtKey(c, KeyAt(c, q)) \cup {q}
      /\ \A key : key # KeyAt(c, q) => AtKey(d, key) = AtKey(c, key)
  BY <1>1, <1>2 DEF AtKey
<1> QED
  BY <1>3, <1>4 DEF q

LEMMA ListWithNew ==
    ASSUME ConstantsOK, NEW c \in State, HasAddress(c), NEW d, d.scene = c.scene, d.world = c.world,
           d.at = [c.at EXCEPT !.k = @ + 1], ListInv(c), NEW x \in ListenerSet, d.lis = Append(c.lis, x),
           KeyOf(x) = Key(Current(c), c.at.k), KeyOf(x) \notin KeysOf(c.lis),
           NEW P, P = {<<c.at.h, c.at.e, c.at.k>>}, ListenerInv(c, x, P)
    PROVE  ListInv(d) /\ KeysOf(d.lis) = KeysOf(c.lis) \cup {KeyOf(x)}
<1> DEFINE q == <<c.at.h, c.at.e, c.at.k>>
           N == Len(c.lis) + 1
<1>1. /\ KeyAt(c, q) = KeyOf(x)
      /\ {KeyAt(d, p) : p \in Accepted(d)} = {KeyAt(c, p) : p \in Accepted(c)} \cup {KeyOf(x)}
      /\ AtKey(d, KeyOf(x)) = AtKey(c, KeyOf(x)) \cup {q}
      /\ \A key : key # KeyOf(x) => AtKey(d, key) = AtKey(c, key)
  <2>1. /\ KeyAt(c, q) = Key(Current(c), c.at.k)
        /\ {KeyAt(d, p) : p \in Accepted(d)} = {KeyAt(c, p) : p \in Accepted(c)} \cup {KeyAt(c, q)}
        /\ AtKey(d, KeyAt(c, q)) = AtKey(c, KeyAt(c, q)) \cup {q}
        /\ \A key : key # KeyAt(c, q) => AtKey(d, key) = AtKey(c, key)
    BY AtKeyGrows
  <2>2. KeyAt(c, q) = KeyOf(x)
    BY <2>1
  <2> QED
    BY <2>1, <2>2
<1>2. AtKey(c, KeyOf(x)) = {}
  BY DEF ListInv, AtKey
<1> HIDE DEF q
<1>3. /\ DOMAIN d.lis = 1 .. N /\ N \in Nat /\ DOMAIN c.lis = 1 .. N - 1 /\ N \in 1 .. N
      /\ d.lis[N] = x /\ \A j \in 1 .. N - 1 : d.lis[j] = c.lis[j]
  <2>1. c.lis \in Seq(ListenerSet)
    BY DEF State
  <2> QED
    BY <2>1
<1> HIDE DEF N
<1>4. KeysOf(d.lis) = KeysOf(c.lis) \cup {KeyOf(x)}
  <2>1. \A j \in 1 .. N : j = N \/ j \in 1 .. N - 1
    BY <1>3
  <2>2. KeysOf(d.lis) \subseteq KeysOf(c.lis) \cup {KeyOf(x)}
    BY <1>3, <2>1 DEF KeysOf
  <2>3. KeysOf(c.lis) \subseteq KeysOf(d.lis)
    <3>1. \A j \in 1 .. N - 1 : j \in 1 .. N
      BY <1>3
    <3> QED
      BY <1>3, <3>1 DEF KeysOf
  <2>4. KeyOf(x) \in KeysOf(d.lis)
    BY <1>3 DEF KeysOf
  <2> QED
    BY <2>2, <2>3, <2>4
<1>5. \A j \in DOMAIN c.lis : KeyOf(c.lis[j]) # KeyOf(x)
  BY DEF KeysOf
<1>6. \A i, j \in DOMAIN d.lis : KeyOf(d.lis[i]) = KeyOf(d.lis[j]) => i = j
  BY <1>3, <1>5 DEF ListInv
<1>7. ASSUME NEW j \in DOMAIN d.lis PROVE ListenerInv(d, d.lis[j], AtKey(d, KeyOf(d.lis[j])))
  <2>1. CASE j = N
    <3>1. AtKey(d, KeyOf(x)) = P
      BY <1>1, <1>2 DEF q
    <3>2. ListenerInv(d, x, AtKey(d, KeyOf(x)))
      BY <3>1, SameFile
    <3> QED
      BY <2>1, <3>2, <1>3
  <2>2. CASE j # N
    <3>1. j \in DOMAIN c.lis /\ d.lis[j] = c.lis[j]
      BY <1>3, <1>7, <2>2
    <3>2. ListenerInv(c, c.lis[j], AtKey(c, KeyOf(c.lis[j])))
      BY <3>1 DEF ListInv
    <3>3. AtKey(d, KeyOf(c.lis[j])) = AtKey(c, KeyOf(c.lis[j]))
      BY <1>1, <1>5, <3>1
    <3> QED
      BY <3>1, <3>2, <3>3, SameFile
  <2> QED
    BY <2>1, <2>2
<1> QED
  BY <1>1, <1>4, <1>6, <1>7 DEF ListInv

LEMMA ListWithOld ==
    ASSUME ConstantsOK, NEW c \in State, HasAddress(c), NEW d, d.scene = c.scene, d.world = c.world,
           d.at = [c.at EXCEPT !.k = @ + 1], ListInv(c), NEW x \in ListenerSet, NEW i \in DOMAIN c.lis, d.lis = [c.lis EXCEPT ![i] = x],
           KeyOf(c.lis[i]) = Key(Current(c), c.at.k), KeyOf(x) = KeyOf(c.lis[i]),
           NEW P, P = AtKey(c, KeyOf(x)) \cup {<<c.at.h, c.at.e, c.at.k>>}, ListenerInv(c, x, P)
    PROVE  ListInv(d) /\ KeysOf(d.lis) = KeysOf(c.lis)
<1> DEFINE q == <<c.at.h, c.at.e, c.at.k>>
<1>1. /\ KeyAt(c, q) = KeyOf(x)
      /\ {KeyAt(d, p) : p \in Accepted(d)} = {KeyAt(c, p) : p \in Accepted(c)} \cup {KeyOf(x)}
      /\ AtKey(d, KeyOf(x)) = AtKey(c, KeyOf(x)) \cup {q}
      /\ \A key : key # KeyOf(x) => AtKey(d, key) = AtKey(c, key)
  <2>1. /\ KeyAt(c, q) = Key(Current(c), c.at.k)
        /\ {KeyAt(d, p) : p \in Accepted(d)} = {KeyAt(c, p) : p \in Accepted(c)} \cup {KeyAt(c, q)}
        /\ AtKey(d, KeyAt(c, q)) = AtKey(c, KeyAt(c, q)) \cup {q}
        /\ \A key : key # KeyAt(c, q) => AtKey(d, key) = AtKey(c, key)
    BY AtKeyGrows
  <2>2. KeyAt(c, q) = KeyOf(x)
    BY <2>1
  <2> QED
    BY <2>1, <2>2
<1> HIDE DEF q
<1>2. DOMAIN d.lis = DOMAIN c.lis /\ d.lis[i] = x /\ \A j \in DOMAIN c.lis : j # i => d.lis[j] = c.lis[j]
  OBVIOUS
<1>3. \A j \in DOMAIN c.lis : KeyOf(d.lis[j]) = KeyOf(c.lis[j])
  BY <1>2
<1>4. KeysOf(d.lis) = KeysOf(c.lis) /\ KeyOf(x) \in KeysOf(c.lis)
  BY <1>2, <1>3 DEF KeysOf
<1>5. \A j, k \in DOMAIN d.lis : KeyOf(d.lis[j]) = KeyOf(d.lis[k]) => j = k
  BY <1>2, <1>3 DEF ListInv
<1>6. ASSUME NEW j \in DOMAIN d.lis PROVE ListenerInv(d, d.lis[j], AtKey(d, KeyOf(d.lis[j])))
  <2>1. CASE j = i
    <3>0. AtKey(d, KeyOf(x)) = P
      BY <1>1 DEF q
    <3>1. ListenerInv(c, x, AtKey(d, KeyOf(x)))
      BY <3>0
    <3>2. ListenerInv(d, x, AtKey(d, KeyOf(x)))
      BY <3>1, SameFile
    <3> QED
      BY <2>1, <3>2, <1>2
  <2>2. CASE j # i
    <3>1. j \in DOMAIN c.lis /\ d.lis[j] = c.lis[j] /\ KeyOf(c.lis[j]) # KeyOf(x)
      BY <1>2, <1>6, <2>2 DEF ListInv
    <3>2. ListenerInv(c, c.lis[j], AtKey(c, KeyOf(c.lis[j])))
      BY <3>1 DEF ListInv
    <3>3. AtKey(d, KeyOf(c.lis[j])) = AtKey(c, KeyOf(c.lis[j]))
      BY <1>1, <3>1
    <3> QED
      BY <3>1, <3>2, <3>3, SameFile
  <2> QED
    BY <2>1, <2>2
<1>7. KeysOf(d.lis) = {KeyAt(d, p) : p \in Accepted(d)}
  BY <1>1, <1>4 DEF ListInv
<1> QED
  BY <1>4, <1>5, <1>6, <1>7 DEF ListInv

\* Listeners that differ in nothing the commands are about.
Like(x, l) ==
    /\ x.addr = l.addr /\ x.quic = l.quic /\ x.global = l.global /\ x.ssl = l.ssl /\ x.tls = l.tls /\ x.proxy = l.proxy
    /\ l.global \/ x.hosts = l.hosts

LEMMA ListAlike ==
    ASSUME NEW c, NEW d, d.scene = c.scene, d.world = c.world, Accepted(d) = Accepted(c), ListInv(c),
           DOMAIN d.lis = DOMAIN c.lis, \A i \in DOMAIN c.lis : Like(d.lis[i], c.lis[i])
    PROVE  ListInv(d) /\ KeysOf(d.lis) = KeysOf(c.lis)
<1>1. \A p : KeyAt(d, p) = KeyAt(c, p)
  BY SameFile
<1>2. \A i \in DOMAIN c.lis : KeyOf(d.lis[i]) = KeyOf(c.lis[i])
  BY DEF KeyOf, Like
<1>3. KeysOf(d.lis) = KeysOf(c.lis)
  BY <1>2 DEF KeysOf
<1>4. \A key : AtKey(d, key) = AtKey(c, key)
  BY <1>1 DEF AtKey
<1>5. ASSUME NEW i \in DOMAIN c.lis PROVE ListenerInv(d, d.lis[i], AtKey(d, KeyOf(d.lis[i])))
  <2> DEFINE P == AtKey(c, KeyOf(c.lis[i]))
             l == c.lis[i]
             x == d.lis[i]
  <2>1. ListenerInv(c, l, P) /\ Like(x, l)
    BY DEF ListInv
  <2> HIDE DEF P, l, x
  <2>2. ListenerInv(c, x, P)
    <3>1. AgreeInv(c, x, P) /\ EntryInv(c, x.ssl, P) /\ UsableInv(x)
      BY <2>1 DEF ListenerInv, AgreeInv, UsableInv, Like
    <3>2. HostsInv(x, P)
      BY <2>1 DEF ListenerInv, HostsInv, Like
    <3> QED
      BY <3>1, <3>2 DEF ListenerInv
  <2> QED
    BY <2>2, <1>2, <1>4, SameFile DEF P, l, x
<1> QED
  BY <1>1, <1>2, <1>3, <1>5 DEF ListInv

-----------------------------------------------------------------------------
(* The steps. *)

IInv == Inv(li)

\* The cursor as it is: what it stands before is accepted already.
LEMMA SameAccepted ==
    ASSUME NEW c, NEW d, d.scene = c.scene, d.world = c.world, d.at = c.at
    PROVE  Accepted(d) = Accepted(c)
BY AcceptedStays

\* A step that fails leaves the listeners as they are.
LEMMA FailKeeps ==
    ASSUME ConstantsOK, NEW c, Inv(c), c.pc # "master", NEW why \in Reasons,
           c.ports # {} /\ c.world = 1 => why \notin {"not bound", "left over"}
    PROVE  Inv(Fail(c, why))
<1> DEFINE d == Fail(c, why)
<1>1. c \in State
  BY DEF Inv
<1>2. d \in State
  BY <1>1 DEF Fail, State, Pcs
<1>3. /\ d.scene = c.scene /\ d.pc = "failed" /\ d.why = why /\ d.mode = c.mode /\ d.given = c.given /\ d.world = c.world
      /\ d.bound = c.bound /\ d.lis = c.lis /\ d.at = c.at /\ d.sib = c.sib /\ d.ports = c.ports
  BY <1>1 DEF Fail, State
<1> HIDE DEF d
<1>4. ListInv(d)
  BY <1>3, SameAccepted, ListAlike DEF Inv, Like
<1>5. SiblingInv(d.lis, d.sib)
  BY <1>3 DEF Inv
<1>6. SocketInv(d)
  BY <1>3 DEF Inv, SocketInv, Inherits, Bound
<1>7. ProcessInv(d)
  BY <1>3 DEF Inv, ProcessInv, Done
<1> QED
  BY <1>2, <1>4, <1>5, <1>6, <1>7 DEF Inv, d

\* The address a command names belongs to the file.
LEMMA InAllKeys ==
    ASSUME NEW scene, NEW h \in Levels, NEW e \in DOMAIN scene.configs[1][h], NEW k \in DOMAIN scene.configs[1][h][e].addrs
    PROVE  Key(scene.configs[1][h][e], k) \in AllKeys(scene)
<1> DEFINE f == scene.configs[1]
           A(x, y) == {Key(f[x][y], z) : z \in DOMAIN f[x][y].addrs}
           B(x) == UNION {A(x, y) : y \in DOMAIN f[x]}
<1>1. Key(f[h][e], k) \in A(h, e)
  OBVIOUS
<1>2. A(h, e) \subseteq B(h)
  <2> HIDE DEF A
  <2> QED
    OBVIOUS
<1>3. AllKeys(scene) = UNION {B(x) : x \in Levels}
  BY DEF AllKeys
<1> HIDE DEF A, B
<1> QED
  BY <1>1, <1>2, <1>3

LEMMA KeyInFile ==
    ASSUME ConstantsOK, NEW c \in State, HasAddress(c), c.world = 1
    PROVE  Key(Current(c), c.at.k) \in AllKeys(c.scene)
<1> DEFINE d == [scene |-> c.scene, world |-> c.world, at |-> [c.at EXCEPT !.k = @ + 1]]
<1>1. d.scene = c.scene /\ d.world = c.world /\ d.at = [c.at EXCEPT !.k = @ + 1]
  OBVIOUS
<1>2. c.at.h \in Levels /\ c.at.k \in DOMAIN Current(c).addrs
  BY <1>1, AcceptedGrows
<1>3. Config(c, c.at.h) \in Seq(Commands) /\ c.at.e \in Nat \ {0}
  BY <1>2, ConfigType DEF State, Cursor
<1>4. c.at.e \in DOMAIN Config(c, c.at.h)
  BY <1>3 DEF HasAddress, HasCommand
<1> QED
  BY <1>2, <1>4, InAllKeys DEF Current, Config

\* What an accepted command has passed.
LEMMA Accepts ==
    ASSUME NEW c, NEW l, NEW new \in BOOLEAN, NEW h, NEW m, Verdict(c, l, new, h, m) = "accepted"
    PROVE  ~SslFails(c, l, new, h, m) /\ (m.type = "quic" => m.ssl # <<>>)
BY DEF Verdict

LEMMA Verdicts ==
    ASSUME NEW c, NEW l, NEW new \in BOOLEAN, NEW h, NEW m
    PROVE  /\ Verdict(c, l, new, h, m) \in Reasons \cup {"accepted"}
           /\ Verdict(c, l, new, h, m) # "left over"
           /\ Verdict(c, l, new, h, m) = "not bound" => CannotOpen(c, KeyOf(l)) /\ Inherits(c)
BY DEF Verdict, Reasons

\* Listeners that differ in nothing siblings are about.
LEMMA SiblingsAlike ==
    ASSUME NEW lis, NEW x, NEW sib, SiblingInv(lis, sib), DOMAIN x = DOMAIN lis,
           \A i \in DOMAIN lis : x[i].sibling = lis[i].sibling /\ x[i].quic = lis[i].quic /\ x[i].addr = lis[i].addr
    PROVE  SiblingInv(x, sib)
BY DEF SiblingInv, Mutual

LEMMA SiblingsWithNew ==
    ASSUME NEW lis \in Seq(ListenerSet), NEW l \in ListenerSet, NEW sib \in [1 .. 2 -> Nat], SiblingInv(lis, sib), l.sibling = 0,
           NEW key \in Keys, l.quic = key.quic, l.addr = key.addr
    PROVE  LET s == NoteSibling(sib, key, Len(lis) + 1)
           IN  s \in [1 .. 2 -> Nat] /\ SiblingInv(Append(lis, l), s)
<1> DEFINE N == Len(lis) + 1
           x == Append(lis, l)
           s == NoteSibling(sib, key, N)
<1>1. /\ DOMAIN x = 1 .. N /\ N \in Nat \ {0} /\ DOMAIN lis = 1 .. N - 1 /\ N \in 1 .. N
      /\ x[N] = l /\ \A j \in 1 .. N - 1 : x[j] = lis[j]
  OBVIOUS
<1> HIDE DEF N, x
<1>2. s \in [1 .. 2 -> Nat]
  BY <1>1 DEF NoteSibling
<1>3. \A f \in 1 .. 2 : s[f] = sib[f] \/ (s[f] = N /\ key.quic /\ key.addr.fam = Family(f))
  BY DEF NoteSibling, Family
<1>4. ASSUME NEW f \in 1 .. 2, s[f] # 0
      PROVE  s[f] \in DOMAIN x /\ x[s[f]].sibling = 0 /\ x[s[f]].quic /\ x[s[f]].addr.fam = Family(f)
  <2>1. CASE s[f] = N /\ key.quic /\ key.addr.fam = Family(f)
    BY <2>1, <1>1
  <2>2. CASE s[f] = sib[f]
    <3>1. sib[f] \in DOMAIN lis /\ lis[sib[f]].sibling = 0 /\ lis[sib[f]].quic /\ lis[sib[f]].addr.fam = Family(f)
      BY <2>2, <1>4 DEF SiblingInv
    <3>2. sib[f] \in DOMAIN x /\ x[sib[f]] = lis[sib[f]]
      BY <3>1, <1>1
    <3> QED
      BY <2>2, <3>1, <3>2
  <2> QED
    BY <1>3, <2>1, <2>2
<1>5. ASSUME NEW i \in DOMAIN x, x[i].sibling # 0 PROVE Mutual(x, i, x[i].sibling)
  <2>1. i \in DOMAIN lis /\ x[i] = lis[i]
    BY <1>1, <1>5
  <2>2. Mutual(lis, i, lis[i].sibling)
    BY <2>1, <1>5 DEF SiblingInv
  <2>3. lis[i].sibling \in DOMAIN lis
    BY <2>2 DEF Mutual
  <2>4. lis[i].sibling \in DOMAIN x /\ x[lis[i].sibling] = lis[lis[i].sibling]
    BY <2>3, <1>1
  <2> QED
    BY <2>1, <2>2, <2>4 DEF Mutual
<1>6. SiblingInv(x, s)
  BY <1>4, <1>5 DEF SiblingInv
<1> QED
  BY <1>2, <1>6 DEF x, N

\* The list of hosts that ask for ACME grows by hosts.
LEMMA NoteAcmeType ==
    ASSUME NEW c \in State, NEW h \in Levels, NEW m
    PROVE  NoteAcme(c, h, m) \in Seq(Levels)
<1>1. c.acme \in Seq(Levels)
  BY DEF State
<1> QED
  BY <1>1 DEF NoteAcme

\* A cursor that moves to the next address.
LEMMA CursorMoves ==
    ASSUME NEW c \in State
    PROVE  [c.at EXCEPT !.k = @ + 1] \in Cursor
<1>1. c.at \in Cursor
  BY DEF State
<1> QED
  BY <1>1 DEF Cursor

LEMMA FdTypes ==
    ASSUME NEW c
    PROVE  Fd(c) \in Fds /\ (c.mode = "worker" => Fd(c) # "none")
BY DEF Fd, Fds

\* The command the cursor is at.
LEMMA CurrentTypes ==
    ASSUME ConstantsOK, NEW c \in State, HasAddress(c)
    PROVE  /\ Current(c) \in Commands /\ c.at.h \in Levels /\ Key(Current(c), c.at.k) \in Keys
           /\ CommandAt(c, <<c.at.h, c.at.e, c.at.k>>) = Current(c)
<1> DEFINE m == Current(c)
           e == [scene |-> c.scene, world |-> c.world, at |-> [c.at EXCEPT !.k = @ + 1]]
<1>1. e.scene = c.scene /\ e.world = c.world /\ e.at = [c.at EXCEPT !.k = @ + 1]
  OBVIOUS
<1> HIDE DEF e
<1>2. m \in Commands /\ c.at.h \in Levels /\ c.at.k \in DOMAIN m.addrs /\ CommandAt(c, <<c.at.h, c.at.e, c.at.k>>) = m
  BY <1>1, AcceptedGrows
<1>3. m.addrs[c.at.k] \in Addresses
  BY <1>2 DEF Commands
<1> QED
  BY <1>2, <1>3 DEF Key, Keys

\* A command that is accepted at an address nobody has named yet.
LEMMA NewKeeps ==
    ASSUME ConstantsOK, NEW c, Inv(c), HasAddress(c), NEW key \in Keys, key = Key(Current(c), c.at.k), key \notin KeysOf(c.lis),
           NEW x \in ListenerSet, KeyOf(x) = key, x.sibling = 0, x.fds = <<Fd(c)>>, x.quic = key.quic, x.addr = key.addr,
           NEW P, P = {<<c.at.h, c.at.e, c.at.k>>}, ListenerInv(c, x, P), NEW d \in State, d.scene = c.scene, d.world = c.world, d.pc = c.pc,
           d.why = c.why, d.mode = c.mode, d.given = c.given, d.ports = c.ports, d.lis = Append(c.lis, x),
           d.bound = IF Inherits(c) THEN c.bound \cup {key} ELSE c.bound, d.sib = NoteSibling(c.sib, key, Len(c.lis) + 1),
           d.at = [c.at EXCEPT !.k = @ + 1]
    PROVE  Inv(d)
<1>1. c \in State /\ ListInv(c) /\ SiblingInv(c.lis, c.sib) /\ SocketInv(c) /\ ProcessInv(c) /\ c.pc = "listen"
  BY DEF Inv, HasAddress, HasCommand, InConfiguration
<1>2. Fd(c) \in Fds /\ (c.mode = "worker" => Fd(c) # "none")
  BY FdTypes
<1>3. c.lis \in Seq(ListenerSet) /\ c.sib \in [1 .. 2 -> Nat]
  BY <1>1 DEF State
<1>4. SiblingInv(d.lis, d.sib)
  BY <1>1, <1>3, SiblingsWithNew
<1>5. ListInv(d) /\ KeysOf(d.lis) = KeysOf(c.lis) \cup {key}
  <2>1. KeyOf(x) = Key(Current(c), c.at.k) /\ KeyOf(x) \notin KeysOf(c.lis)
    OBVIOUS
  <2>2. ListInv(d) /\ KeysOf(d.lis) = KeysOf(c.lis) \cup {KeyOf(x)}
    BY <1>1, <2>1, ListWithNew
  <2> QED
    BY <2>2
<1>6. SocketInv(d)
  <2>1. ASSUME NEW i \in DOMAIN d.lis PROVE Len(d.lis[i].fds) = 1 /\ (d.mode = "worker" => d.lis[i].fds[1] # "none")
    <3>1. (i \in DOMAIN c.lis /\ d.lis[i] = c.lis[i]) \/ d.lis[i] = x
      BY <1>3
    <3>2. CASE d.lis[i] = x
      <4>1. d.lis[i].fds = <<Fd(c)>>
        BY <3>2
      <4>2. Len(d.lis[i].fds) = 1 /\ d.lis[i].fds[1] = Fd(c)
        BY <4>1
      <4> QED
        BY <4>2, <1>2
    <3>3. CASE i \in DOMAIN c.lis /\ d.lis[i] = c.lis[i]
      BY <3>3, <1>1 DEF SocketInv
    <3> QED
      BY <3>1, <3>2, <3>3
  <2>2. Inherits(d) => d.bound = KeysOf(d.lis)
    BY <1>1, <1>5 DEF SocketInv, Inherits
  <2> QED
    BY <1>1, <2>1, <2>2 DEF SocketInv, Bound
<1>7. ProcessInv(d)
  BY <1>1 DEF ProcessInv, Done
<1> QED
  BY <1>4, <1>5, <1>6, <1>7 DEF Inv


LEMMA ListenNewStep ==
    ASSUME ConstantsOK, IInv, ListenNew
    PROVE  Inv(li')
<1> DEFINE h == li.at.h
           m == Current(li)
           key == Key(m, li.at.k)
           fd == Fd(li)
           new == TRUE
           l == NewListener(key, h, m, fd)
           verdict == Verdict(li, l, new, h, m)
           x == AppendHost(SetupSsl(li, l, new, h, m), h)
           bound == IF Inherits(li) THEN li.bound \cup {key} ELSE li.bound
           sib == NoteSibling(li.sib, key, Len(li.lis) + 1)
           acme == NoteAcme(li, h, m)
           at == [li.at EXCEPT !.k = @ + 1]
           lis == Append(li.lis, x)
           q == <<li.at.h, li.at.e, li.at.k>>
           P == {q}
<1>1. /\ HasAddress(li) /\ key \notin KeysOf(li.lis)
      /\ \/ verdict # "accepted" /\ li' = Fail(li, verdict)
         \/ /\ verdict = "accepted"
            /\ li' = [li EXCEPT !.lis = lis, !.bound = bound, !.sib = sib, !.acme = acme, !.at = at]
  BY DEF ListenNew
<1>2. new \in BOOLEAN
  OBVIOUS
<1>3. li \in State /\ li.pc = "listen" /\ ProcessInv(li)
  BY <1>1 DEF IInv, Inv, HasAddress, HasCommand, InConfiguration
<1>4. m \in Commands /\ h \in Levels /\ key \in Keys /\ CommandAt(li, q) = m /\ q[1] = h
  BY <1>1, <1>3, CurrentTypes
<1>5. key.quic <=> m.type = "quic"
  BY DEF Key
<1>6. fd \in Fds
  BY FdTypes
<1>7. acme \in Seq(Levels) /\ at \in Cursor
  BY <1>3, <1>4, NoteAcmeType, CursorMoves
<1>8. KeyOf(l) = key
  BY <1>4 DEF NewListener, KeyOf, Keys
<1>9. li.world = 1 => key \in AllKeys(li.scene)
  BY <1>1, <1>3, KeyInFile
<1>a. key = Key(Current(li), li.at.k)
  OBVIOUS
<1>b. P = {<<li.at.h, li.at.e, li.at.k>>} /\ P = {q}
  OBVIOUS
<1> HIDE DEF new, h, m, key, fd, l, verdict, x, q, P
<1>10. CASE verdict # "accepted"
  <2>1. verdict \in Reasons /\ verdict # "left over" /\ (verdict = "not bound" => CannotOpen(li, KeyOf(l)) /\ Inherits(li))
    BY <1>2, <1>10, Verdicts DEF verdict
  <2>2. ASSUME li.ports # {}, li.world = 1 PROVE verdict # "not bound"
    <3>1. li.given = AllKeys(li.scene) 
      BY <1>3, <2>2 DEF ProcessInv
    <3> QED
      BY <2>1, <2>2, <3>1, <1>8, <1>9 DEF CannotOpen
  <2>3. li' = Fail(li, verdict)
    BY <1>1, <1>10
  <2>4. Inv(Fail(li, verdict))
    BY <1>3, <2>1, <2>2, FailKeeps DEF IInv
  <2> QED
    BY <2>3, <2>4
<1>11. CASE verdict = "accepted"
  <2>1. ~SslFails(li, l, new, h, m) /\ (m.type = "quic" => m.ssl # <<>>)
    BY <1>2, <1>11, Accepts DEF verdict
  <2>2. /\ x \in ListenerSet /\ KeyOf(x) = key /\ x.sibling = 0 /\ x.fds = <<fd>> /\ x.quic = key.quic /\ x.addr = key.addr
        /\ ListenerInv(li, x, P)
    <3>1. ~SslFails(li, NewListener(key, h, m, fd), new, h, m)
      BY <2>1 DEF l
    <3>2. new \in BOOLEAN
      BY <1>2
    <3>3. x = AppendHost(SetupSsl(li, NewListener(key, h, m, fd), new, h, m), h)
      BY DEF x, l
    <3>4. P = {q} /\ q[1] = h /\ CommandAt(li, q) = m /\ h \in Levels /\ m \in Commands /\ key \in Keys
      BY <1>4, <1>b
    <3>5. LET y == AppendHost(SetupSsl(li, NewListener(key, h, m, fd), new, h, m), h)
          IN  /\ y \in ListenerSet /\ KeyOf(y) = key /\ y.sibling = 0 /\ y.fds = <<fd>> /\ y.quic = key.quic /\ y.addr = key.addr
              /\ ListenerInv(li, y, P)
      <4>1. li \in State
        BY <1>3
      <4>2. m.type = "quic" => m.ssl # <<>>
        BY <2>1
      <4> QED
        BY <3>1, <3>2, <3>4, <4>1, <4>2, <1>5, <1>6, NewListenerRight
    <3> QED
      BY <3>3, <3>5
  <2>3. li' = [li EXCEPT !.lis = lis, !.bound = bound, !.sib = sib, !.acme = acme, !.at = at]
    <3> HIDE DEF lis, bound, sib, acme, at
    <3> QED
      BY <1>1, <1>11
  <2>4. li.lis \in Seq(ListenerSet) /\ li.bound \in SUBSET Keys /\ li.sib \in [1 .. 2 -> Nat]
    BY <1>3 DEF State
  <2>5. lis \in Seq(ListenerSet) /\ bound \in SUBSET Keys
    BY <2>2, <2>4, <1>4
  <2>6. sib \in [1 .. 2 -> Nat]
    <3>1. SiblingInv(li.lis, li.sib)
      BY DEF IInv, Inv
    <3> QED
      BY <3>1, <1>4, <2>2, <2>4, SiblingsWithNew
  <2> DEFINE c == li
             d == li'
  <2>7. Inv(c) /\ HasAddress(c) /\ key = Key(Current(c), c.at.k) /\ key \notin KeysOf(c.lis) /\ x.fds = <<Fd(c)>>
        /\ P = {<<c.at.h, c.at.e, c.at.k>>} /\ ListenerInv(c, x, P)
    BY <1>1, <1>a, <1>b, <2>2 DEF IInv, fd
  <2> HIDE DEF lis, bound, sib, acme, at
  <2>8. d \in State
    BY <1>3, <1>7, <2>3, <2>5, <2>6 DEF State
  <2>9. /\ d.scene = c.scene /\ d.world = c.world /\ d.pc = c.pc /\ d.why = c.why /\ d.mode = c.mode /\ d.given = c.given
        /\ d.ports = c.ports /\ d.lis = lis /\ d.bound = bound /\ d.sib = sib /\ d.at = at
    BY <1>3, <2>3 DEF State
  <2>10. /\ d.lis = Append(c.lis, x) /\ d.bound = IF Inherits(c) THEN c.bound \cup {key} ELSE c.bound
         /\ d.sib = NoteSibling(c.sib, key, Len(c.lis) + 1) /\ d.at = [c.at EXCEPT !.k = @ + 1]
    BY <2>9 DEF lis, bound, sib, at
  <2> HIDE DEF c, d
  <2>11. Inv(d)
    BY <1>4, <2>2, <2>7, <2>8, <2>9, <2>10, NewKeeps
  <2> QED
    BY <2>11 DEF d
<1> QED
  BY <1>10, <1>11

\* A command of the global level only meets listeners of the global level.
LEMMA GlobalMeetsGlobal ==
    ASSUME ConstantsOK, NEW c \in State, ListInv(c), NEW i \in DOMAIN c.lis, c.at.h = 0
    PROVE  c.lis[i].global
<1> DEFINE P == AtKey(c, KeyOf(c.lis[i]))
<1>1. PICK p \in P : TRUE
  BY NamedKeys
<1>2. p \in Accepted(c)
  BY <1>1 DEF AtKey
<1>3. p[1] \in Levels /\ p[1] <= c.at.h
  BY <1>2, AcceptedTypes
<1>4. p[1] = 0
  BY <1>3 DEF Levels, ConstantsOK
<1>5. HostsInv(c.lis[i], P)
  BY DEF ListInv, ListenerInv
<1> QED
  BY <1>1, <1>4, <1>5 DEF HostsInv

\* A command that is accepted at an address that has a listener.
LEMMA OldKeeps ==
    ASSUME ConstantsOK, NEW c, Inv(c), HasAddress(c), NEW i \in DOMAIN c.lis, KeyOf(c.lis[i]) = Key(Current(c), c.at.k),
           NEW x \in ListenerSet, KeyOf(x) = KeyOf(c.lis[i]), x.sibling = c.lis[i].sibling, x.fds = c.lis[i].fds,
           x.quic = c.lis[i].quic, x.addr = c.lis[i].addr,
           NEW P, P = AtKey(c, KeyOf(x)) \cup {<<c.at.h, c.at.e, c.at.k>>}, ListenerInv(c, x, P),
           NEW d \in State, d.scene = c.scene, d.world = c.world, d.pc = c.pc,
           d.why = c.why, d.mode = c.mode, d.given = c.given, d.ports = c.ports, d.lis = [c.lis EXCEPT ![i] = x],
           d.bound = c.bound, d.sib = c.sib, d.at = [c.at EXCEPT !.k = @ + 1]
    PROVE  Inv(d)
<1>1. c \in State /\ ListInv(c) /\ SiblingInv(c.lis, c.sib) /\ SocketInv(c) /\ ProcessInv(c) /\ c.pc = "listen"
  BY DEF Inv, HasAddress, HasCommand, InConfiguration
<1>2. c.lis \in Seq(ListenerSet)
  BY <1>1 DEF State
<1>3. DOMAIN d.lis = DOMAIN c.lis /\ d.lis[i] = x /\ \A j \in DOMAIN c.lis : j # i => d.lis[j] = c.lis[j]
  BY <1>2
<1>4. \A j \in DOMAIN c.lis : /\ d.lis[j].sibling = c.lis[j].sibling /\ d.lis[j].quic = c.lis[j].quic
                              /\ d.lis[j].addr = c.lis[j].addr /\ d.lis[j].fds = c.lis[j].fds
  BY <1>3
<1>5. SiblingInv(d.lis, d.sib)
  <2>1. SiblingInv(d.lis, c.sib)
    BY <1>1, <1>3, <1>4, SiblingsAlike
  <2> QED
    BY <2>1
<1>6. ListInv(d) /\ KeysOf(d.lis) = KeysOf(c.lis)
  BY <1>1, ListWithOld
<1>7. SocketInv(d)
  BY <1>1, <1>3, <1>4, <1>6 DEF SocketInv, Inherits, Bound
<1>8. ProcessInv(d)
  BY <1>1 DEF ProcessInv, Done
<1> QED
  BY <1>5, <1>6, <1>7, <1>8 DEF Inv

LEMMA ListenAgainStep ==
    ASSUME ConstantsOK, IInv, ListenAgain
    PROVE  Inv(li')
<1> DEFINE h == li.at.h
           m == Current(li)
           key == Key(m, li.at.k)
           new == FALSE
           acme == NoteAcme(li, h, m)
           at == [li.at EXCEPT !.k = @ + 1]
           q == <<li.at.h, li.at.e, li.at.k>>
<1>1. PICK i \in DOMAIN li.lis :
         /\ KeyOf(li.lis[i]) = key
         /\ \/ Verdict(li, li.lis[i], FALSE, h, m) # "accepted" /\ li' = Fail(li, Verdict(li, li.lis[i], FALSE, h, m))
            \/ /\ Verdict(li, li.lis[i], FALSE, h, m) = "accepted"
               /\ li' = [li EXCEPT !.lis[i] = AppendHost(SetupSsl(li, @, FALSE, h, m), h), !.acme = acme, !.at.k = @ + 1]
  BY Zenon DEF ListenAgain
<1> DEFINE l == li.lis[i]
           verdict == Verdict(li, l, new, h, m)
           x == AppendHost(SetupSsl(li, l, new, h, m), h)
           lis == [li.lis EXCEPT ![i] = x]
           P == AtKey(li, key)
           Q == P \cup {q}
<1>a. HasAddress(li)
  BY DEF ListenAgain
<1>2. new \in BOOLEAN
  OBVIOUS
<1>3. li \in State /\ li.pc = "listen" /\ ListInv(li)
  BY <1>a DEF IInv, Inv, HasAddress, HasCommand, InConfiguration
<1>4. m \in Commands /\ h \in Levels /\ key \in Keys /\ CommandAt(li, q) = m /\ q[1] = h
  BY <1>a, <1>3, CurrentTypes
<1>5. l \in ListenerSet /\ li.lis \in Seq(ListenerSet) /\ KeyOf(l) = key
  BY <1>1, <1>3 DEF State
<1>6. l.quic <=> m.type = "quic"
  BY <1>5 DEF Key, KeyOf
<1>7. acme \in Seq(Levels) /\ at \in Cursor
  BY <1>3, <1>4, NoteAcmeType, CursorMoves
<1>8. h = 0 => l.global
  BY <1>3, GlobalMeetsGlobal
<1>9. ListenerInv(li, l, P)
  BY <1>3, <1>5 DEF ListInv
<1>b. \/ verdict # "accepted" /\ li' = Fail(li, verdict)
      \/ verdict = "accepted" /\ li' = [li EXCEPT !.lis = lis, !.acme = acme, !.at = at]
  <2> HIDE DEF h, m, acme
  <2> QED
    BY <1>1
<1>c. ASSUME verdict = "accepted" PROVE (~l.quic => l.proxy = m.proxy) /\ ((l.ssl = <<>>) <=> (m.ssl = <<>>))
  <2> HIDE DEF l, h, m
  <2>1. ~l.quic => l.proxy = m.proxy
    BY <1>c DEF Verdict
  <2>2. ~SslFails(li, l, FALSE, h, m)
    BY <1>c DEF Verdict
  <2>3. (l.ssl = <<>>) <=> (m.ssl = <<>>)
    BY <2>2 DEF SslFails, Mixes
  <2> QED
    BY <2>1, <2>3
<1>d. verdict # "not bound"
  BY DEF Verdict
<1>e. key = Key(Current(li), li.at.k) /\ q = <<li.at.h, li.at.e, li.at.k>> /\ P = AtKey(li, key) /\ Q = P \cup {q}
  OBVIOUS
<1> HIDE DEF new, h, m, key, l, verdict, x, q, P, Q, lis, acme, at
<1>10. CASE verdict # "accepted"
  <2>1. verdict \in Reasons /\ verdict # "left over"
    BY <1>2, <1>10, Verdicts DEF verdict
  <2>2. li' = Fail(li, verdict)
    BY <1>b, <1>10
  <2>3. Inv(Fail(li, verdict))
    BY <1>3, <1>d, <2>1, FailKeeps DEF IInv
  <2> QED
    BY <2>2, <2>3
<1>11. CASE verdict = "accepted" /\ li' = [li EXCEPT !.lis = lis, !.acme = acme, !.at = at]
  <2>1. ~SslFails(li, l, new, h, m)
    BY <1>2, <1>11, Accepts DEF verdict
  <2>2. /\ x \in ListenerSet /\ KeyOf(x) = KeyOf(l) /\ x.sibling = l.sibling /\ x.fds = l.fds /\ x.quic = l.quic /\ x.addr = l.addr
        /\ ListenerInv(li, x, Q)
    <3>1. LET y == AppendHost(SetupSsl(li, l, new, h, m), h)
          IN  /\ y \in ListenerSet /\ KeyOf(y) = KeyOf(l) /\ y.sibling = l.sibling /\ y.fds = l.fds /\ y.quic = l.quic /\ y.addr = l.addr
              /\ ListenerInv(li, y, Q)
      <4>1. li \in State /\ ((l.ssl = <<>>) <=> (m.ssl = <<>>))
        BY <1>3, <1>c, <1>11
      <4>3. ~l.quic => l.proxy = m.proxy
        BY <1>c, <1>11
      <4>4. Q = P \cup {q}
        BY <1>e
      <4>2. l \in ListenerSet
        BY <1>5
      <4> QED
        BY <2>1, <4>1, <4>2, <4>3, <4>4, <1>2, <1>4, <1>6, <1>8, <1>9, OldListenerRight
    <3> QED
      BY <3>1 DEF x
  <2>3. lis \in Seq(ListenerSet)
    BY <1>1, <1>5, <2>2 DEF lis
  <2> DEFINE c == li
             d == li'
  <2>4. d \in State
    BY <1>3, <1>7, <1>11, <2>3 DEF State
  <2>5. /\ d.scene = c.scene /\ d.world = c.world /\ d.pc = c.pc /\ d.why = c.why /\ d.mode = c.mode /\ d.given = c.given
        /\ d.ports = c.ports /\ d.lis = lis /\ d.bound = c.bound /\ d.sib = c.sib /\ d.at = at
    BY <1>3, <1>11 DEF State
  <2>6. d.lis = [c.lis EXCEPT ![i] = x] /\ d.at = [c.at EXCEPT !.k = @ + 1]
    BY <2>5 DEF lis, at
  <2>7. Inv(c) /\ HasAddress(c) /\ i \in DOMAIN c.lis /\ KeyOf(c.lis[i]) = Key(Current(c), c.at.k)
    BY <1>a, <1>1, <1>e DEF IInv
  <2>8. /\ KeyOf(x) = KeyOf(c.lis[i]) /\ x.sibling = c.lis[i].sibling /\ x.fds = c.lis[i].fds /\ x.quic = c.lis[i].quic
        /\ x.addr = c.lis[i].addr /\ Q = AtKey(c, KeyOf(x)) \cup {<<c.at.h, c.at.e, c.at.k>>} /\ ListenerInv(c, x, Q)
    BY <2>2, <1>5, <1>e DEF l
  <2> HIDE DEF c, d
  <2>9. Inv(d)
    BY <2>2, <2>4, <2>5, <2>6, <2>7, <2>8, OldKeeps
  <2> QED
    BY <2>9 DEF d
<1> QED
  BY <1>b, <1>10, <1>11

\* Where a command of the file can be.
LEMMA FileTypes ==
    ASSUME ConstantsOK, NEW c \in State, NEW h, NEW e, NEW k, InFile(c, h, e, k)
    PROVE  /\ h \in Levels /\ e \in 1 .. Len(Config(c, h)) /\ k \in 1 .. Len(Config(c, h)[e].addrs)
           /\ h \in Nat /\ e \in Nat \ {0} /\ k \in Nat \ {0} /\ Len(Config(c, h)) \in Nat /\ Len(Config(c, h)[e].addrs) \in Nat
<1>1. Config(c, h) \in Seq(Commands) /\ h \in Nat /\ h \in Levels
  BY ConfigType DEF InFile, Levels
<1>2. Config(c, h)[e] \in Commands /\ e \in 1 .. Len(Config(c, h))
  BY <1>1 DEF InFile
<1>3. Config(c, h)[e].addrs \in Seq(Addresses)
  BY <1>2 DEF Commands
<1> QED
  BY <1>1, <1>2, <1>3 DEF InFile

\* The families of a command are joined at its end.
LEMMA SiblingsJoined ==
    ASSUME NEW lis \in Seq(ListenerSet), NEW sib \in [1 .. 2 -> Nat], SiblingInv(lis, sib)
    PROVE  LET x == Joined(lis, sib)
           IN  /\ x \in Seq(ListenerSet) /\ DOMAIN x = DOMAIN lis /\ SiblingInv(x, <<0, 0>>)
               /\ \A i \in DOMAIN lis : Like(x[i], lis[i]) /\ x[i].fds = lis[i].fds
<1> DEFINE x == Joined(lis, sib)
           a == sib[1]
           b == sib[2]
           none == <<0, 0>>
<1>0. none[1] = 0 /\ none[2] = 0 /\ DOMAIN lis = 1 .. Len(lis) /\ Len(lis) \in Nat /\ a \in Nat /\ b \in Nat
  OBVIOUS
<1>1. CASE a = 0 \/ b = 0
  <2>1. x = lis
    BY <1>1 DEF Joined
  <2>2. SiblingInv(lis, none)
    BY <1>0 DEF SiblingInv
  <2> QED
    BY <2>1, <2>2 DEF Like
<1>2. CASE a # 0 /\ b # 0
  <2>1. /\ a \in DOMAIN lis /\ lis[a].sibling = 0 /\ lis[a].quic /\ lis[a].addr.fam = "inet"
        /\ b \in DOMAIN lis /\ lis[b].sibling = 0 /\ lis[b].quic /\ lis[b].addr.fam = "inet6"
    BY <1>2 DEF SiblingInv, Family
  <2>2. a # b
    BY <2>1
  <2>3. /\ x = [i \in DOMAIN lis |-> IF i = a THEN [lis[i] EXCEPT !.sibling = b]
                                     ELSE IF i = b THEN [lis[i] EXCEPT !.sibling = a] ELSE lis[i]]
    BY <1>2 DEF Joined
  <2> HIDE DEF x, a, b, none
  <2>4. ASSUME NEW i \in DOMAIN lis
        PROVE  /\ x[i] \in ListenerSet /\ Like(x[i], lis[i]) /\ x[i].fds = lis[i].fds
               /\ x[i].sibling = IF i = a THEN b ELSE IF i = b THEN a ELSE lis[i].sibling
    <3>1. lis[i] \in ListenerSet
      OBVIOUS
    <3> QED
      BY <3>1, <2>3, <1>0 DEF ListenerSet, Like
  <2>5. DOMAIN x = DOMAIN lis
    BY <2>3
  <2>6. x \in Seq(ListenerSet)
    <3>1. x \in [1 .. Len(lis) -> ListenerSet]
      BY <1>0, <2>3, <2>4, <2>5
    <3> QED
      BY <3>1, <1>0
  <2>7. ASSUME NEW i \in DOMAIN x, x[i].sibling # 0 PROVE Mutual(x, i, x[i].sibling)
    <3>1. /\ x[a].sibling = b /\ x[b].sibling = a
          /\ \A j \in DOMAIN lis : x[j].quic = lis[j].quic /\ x[j].addr = lis[j].addr
      BY <2>1, <2>2, <2>4 DEF Like
    <3>2. CASE i = a
      BY <3>1, <3>2, <2>1, <2>5 DEF Mutual
    <3>3. CASE i = b
      BY <3>1, <3>3, <2>1, <2>5 DEF Mutual
    <3>4. CASE i # a /\ i # b
      <4>1. x[i].sibling = lis[i].sibling
        BY <3>4, <2>4, <2>5
      <4>2. Mutual(lis, i, lis[i].sibling) /\ i # 0
        BY <4>1, <2>5, <2>7, <1>0 DEF SiblingInv
      <4> DEFINE j == lis[i].sibling
      <4>3. j \in DOMAIN lis /\ lis[j].sibling = i /\ j # a /\ j # b
        BY <4>2, <2>1 DEF Mutual
      <4>4. x[j].sibling = i
        BY <4>3, <2>4
      <4> QED
        BY <4>1, <4>2, <4>3, <4>4, <3>1, <2>5 DEF Mutual
    <3> QED
      BY <3>2, <3>3, <3>4
  <2>8. SiblingInv(x, none)
    BY <2>7, <1>0 DEF SiblingInv
  <2> QED
    BY <2>4, <2>5, <2>6, <2>8 DEF x, none
<1> QED
  BY <1>0, <1>1, <1>2

\* What moves the cursor over nothing, or only changes the listeners where
\* the commands have no say.
LEMMA ReadingKeeps ==
    ASSUME ConstantsOK, NEW c, Inv(c), c.pc = "listen", NEW d \in State, d.scene = c.scene, d.world = c.world, d.pc = c.pc, d.why = c.why,
           d.mode = c.mode, d.given = c.given, d.ports = c.ports, d.bound = c.bound, SiblingInv(d.lis, d.sib), DOMAIN d.lis = DOMAIN c.lis,
           \A i \in DOMAIN c.lis : Like(d.lis[i], c.lis[i]), \A i \in DOMAIN c.lis : d.lis[i].fds = c.lis[i].fds,
           Accepted(d) = Accepted(c)
    PROVE  Inv(d)
<1>1. ListInv(c) /\ SocketInv(c) /\ ProcessInv(c)
  BY DEF Inv
<1>2. ListInv(d) /\ KeysOf(d.lis) = KeysOf(c.lis)
  BY <1>1, ListAlike
<1>3. SocketInv(d)
  BY <1>1, <1>2 DEF SocketInv, Inherits, Bound
<1>4. ProcessInv(d)
  BY <1>1 DEF ProcessInv, Done
<1> QED
  BY <1>2, <1>3, <1>4 DEF Inv

LEMMA ListenEndsStep ==
    ASSUME ConstantsOK, IInv, ListenEnds
    PROVE  Inv(li')
<1> DEFINE lis == Joined(li.lis, li.sib)
           sib == <<0, 0>>
           at == [h |-> li.at.h, e |-> li.at.e + 1, k |-> 1]
           c == li
           d == li'
<1>1. HasCommand(c) /\ ~HasAddress(c) /\ d = [c EXCEPT !.lis = lis, !.sib = sib, !.at = at]
  BY DEF ListenEnds
<1>2. Inv(c) /\ c \in State /\ c.pc = "listen" /\ SiblingInv(c.lis, c.sib) /\ c.at.h \in Levels
  BY <1>1 DEF IInv, Inv, HasCommand, InConfiguration
<1>3. c.lis \in Seq(ListenerSet) /\ c.sib \in [1 .. 2 -> Nat] /\ c.at \in Cursor
  BY <1>2 DEF State
<1>4. at \in Cursor /\ at.h = c.at.h /\ at.e = c.at.e + 1 /\ at.k = 1
  BY <1>3 DEF Cursor
<1>5. LET x == Joined(c.lis, c.sib)
      IN  /\ x \in Seq(ListenerSet) /\ DOMAIN x = DOMAIN c.lis /\ SiblingInv(x, <<0, 0>>)
          /\ \A i \in DOMAIN c.lis : Like(x[i], c.lis[i]) /\ x[i].fds = c.lis[i].fds
  BY <1>2, <1>3, SiblingsJoined
<1>6. sib \in [1 .. 2 -> Nat]
  OBVIOUS
<1>7. ASSUME NEW h, NEW e, NEW k, InFile(c, h, e, k)
      PROVE  Before(<<h, e, k>>, at) <=> Before(<<h, e, k>>, c.at)
  <2>1. /\ h \in Nat /\ e \in Nat \ {0} /\ k \in 1 .. Len(Config(c, h)[e].addrs) /\ k \in Nat \ {0}
        /\ Len(Config(c, h)[e].addrs) \in Nat
    BY <1>2, <1>7, FileTypes
  <2>2. c.at.h \in Nat /\ c.at.e \in Nat /\ c.at.k \in Nat
    BY <1>3 DEF Cursor
  <2>3. h = c.at.h /\ e = c.at.e => k < c.at.k
    BY <1>1, <2>1, <2>2 DEF HasAddress, Current
  <2> QED
    BY <1>4, <2>1, <2>2, <2>3 DEF Before
<1>8. /\ DOMAIN lis = DOMAIN c.lis /\ lis \in Seq(ListenerSet) /\ SiblingInv(lis, sib)
      /\ \A i \in DOMAIN c.lis : Like(lis[i], c.lis[i])
      /\ \A i \in DOMAIN c.lis : lis[i].fds = c.lis[i].fds
  BY <1>5
<1> HIDE DEF lis, sib, at, c, d
<1>9. d \in State
  BY <1>1, <1>2, <1>4, <1>6, <1>8 DEF State
<1>10. /\ d.scene = c.scene /\ d.world = c.world /\ d.pc = c.pc /\ d.why = c.why /\ d.mode = c.mode /\ d.given = c.given
       /\ d.ports = c.ports /\ d.bound = c.bound /\ d.lis = lis /\ d.sib = sib /\ d.at = at
  BY <1>1, <1>2 DEF State
<1>11. Accepted(d) = Accepted(c)
  BY <1>7, <1>10, AcceptedStays
<1>12. Inv(d)
  BY <1>2, <1>8, <1>9, <1>10, <1>11, ReadingKeeps
<1> QED
  BY <1>12 DEF d

LEMMA LevelEndsStep ==
    ASSUME ConstantsOK, IInv, LevelEnds
    PROVE  Inv(li')
<1> DEFINE at == [h |-> li.at.h + 1, e |-> 1, k |-> 1]
           c == li
           d == li'
<1>1. /\ InConfiguration(c) /\ ~HasCommand(c)
      /\ d = Fail(c, "no listen") \/ d = [c EXCEPT !.at = at]
  BY DEF LevelEnds
<1>2. Inv(c) /\ c \in State /\ c.pc = "listen" /\ SiblingInv(c.lis, c.sib) /\ c.at.h \in Levels
  BY <1>1 DEF IInv, Inv, InConfiguration
<1>3. c.at \in Cursor
  BY <1>2 DEF State
<1>4. at \in Cursor /\ at.h = c.at.h + 1 /\ at.e = 1 /\ at.k = 1
  BY <1>3 DEF Cursor
<1>5. ASSUME NEW h, NEW e, NEW k, InFile(c, h, e, k)
      PROVE  Before(<<h, e, k>>, at) <=> Before(<<h, e, k>>, c.at)
  <2>1. h \in Nat /\ e \in Nat \ {0} /\ k \in Nat \ {0} /\ e \in 1 .. Len(Config(c, h)) /\ Len(Config(c, h)) \in Nat
    BY <1>2, <1>5, FileTypes
  <2>2. c.at.h \in Nat /\ c.at.e \in Nat /\ c.at.k \in Nat
    BY <1>3 DEF Cursor
  <2>3. ASSUME h = c.at.h PROVE e < c.at.e
    <3>1. ~(c.at.e <= Len(Config(c, c.at.h)))
      BY <1>1 DEF HasCommand
    <3> HIDE DEF c
    <3> QED
      BY <2>1, <2>2, <2>3, <3>1
  <2> QED
    BY <1>4, <2>1, <2>2, <2>3 DEF Before
<1> HIDE DEF at, c, d
<1>6. CASE d = Fail(c, "no listen")
  <2> DEFINE why == "no listen"
  <2>1. why \in Reasons /\ why \notin {"not bound", "left over"} /\ c.pc # "master"
    BY <1>2 DEF Reasons
  <2> HIDE DEF why
  <2>2. Inv(Fail(c, why))
    BY <1>2, <2>1, FailKeeps
  <2> QED
    BY <1>6, <2>2 DEF why, d
<1>7. CASE d = [c EXCEPT !.at = at]
  <2>1. d \in State
    BY <1>7, <1>2, <1>4 DEF State
  <2>2. /\ d.scene = c.scene /\ d.world = c.world /\ d.pc = c.pc /\ d.why = c.why /\ d.mode = c.mode /\ d.given = c.given
        /\ d.ports = c.ports /\ d.bound = c.bound /\ d.lis = c.lis /\ d.sib = c.sib /\ d.at = at
    BY <1>7, <1>2 DEF State
  <2>3. Accepted(d) = Accepted(c)
    BY <1>5, <2>2, AcceptedStays
  <2>4. /\ SiblingInv(d.lis, d.sib) /\ DOMAIN d.lis = DOMAIN c.lis
        /\ \A i \in DOMAIN c.lis : Like(d.lis[i], c.lis[i])
        /\ \A i \in DOMAIN c.lis : d.lis[i].fds = c.lis[i].fds
    BY <1>2, <2>2 DEF Like
  <2>5. Inv(d)
    BY <1>2, <2>1, <2>2, <2>3, <2>4, ReadingKeeps
  <2> QED
    BY <2>5 DEF d
<1> QED
  BY <1>1, <1>6, <1>7

\* In the end the global listeners have all hosts.
LEMMA BindsGlobal ==
    ASSUME ConstantsOK, NEW l \in ListenerSet
    PROVE  LET x == BindGlobal(l)
           IN  /\ x \in ListenerSet /\ Like(x, l) /\ x.fds = l.fds /\ x.sibling = l.sibling
               /\ x.global => \A h \in Hosts : \E n \in DOMAIN x.hosts : x.hosts[n] = h
<1> DEFINE all == [i \in Hosts |-> i]
           x == BindGlobal(l)
<1>1. CASE ~l.global
  BY <1>1 DEF BindGlobal, Like
<1>2. CASE l.global
  <2>1. all \in Seq(Hosts) /\ DOMAIN all = Hosts /\ \A h \in Hosts : all[h] = h
    <3>1. NumHosts \in Nat /\ all \in [1 .. NumHosts -> Hosts]
      BY DEF Hosts, ConstantsOK
    <3> QED
      BY <3>1 DEF Hosts
  <2> HIDE DEF all
  <2>2. x = [l EXCEPT !.hosts = all]
    BY <1>2 DEF BindGlobal, all
  <2>3. x.hosts = all
    BY <2>2 DEF ListenerSet
  <2> QED
    BY <1>2, <2>1, <2>2, <2>3 DEF ListenerSet, Like
<1> QED
  BY <1>1, <1>2

LEMMA GlobalExitStep ==
    ASSUME ConstantsOK, IInv, GlobalExit
    PROVE  Inv(li')
<1> DEFINE lis == [i \in DOMAIN li.lis |-> BindGlobal(li.lis[i])]
           c == li
           d == li'
<1>1. c.pc = "listen" /\ ~InConfiguration(c) /\ d = [c EXCEPT !.lis = lis, !.pc = "configured"]
  BY DEF GlobalExit
<1>2. c \in State /\ ListInv(c) /\ SiblingInv(c.lis, c.sib) /\ SocketInv(c) /\ ProcessInv(c) /\ c.lis \in Seq(ListenerSet)
  BY DEF IInv, Inv, State
<1>3. c.at.h \notin Levels
  BY <1>1 DEF InConfiguration
<1>4. DOMAIN lis = DOMAIN c.lis /\ \A i \in DOMAIN c.lis : lis[i] = BindGlobal(c.lis[i]) /\ c.lis[i] \in ListenerSet
  BY <1>2
<1> HIDE DEF lis, c, d
<1>5. ASSUME NEW i \in DOMAIN c.lis
      PROVE  /\ lis[i] \in ListenerSet /\ Like(lis[i], c.lis[i]) /\ lis[i].fds = c.lis[i].fds /\ lis[i].sibling = c.lis[i].sibling
             /\ lis[i].global => \A h \in Hosts : \E n \in DOMAIN lis[i].hosts : lis[i].hosts[n] = h
  <2> DEFINE l == c.lis[i]
  <2>1. l \in ListenerSet /\ lis[i] = BindGlobal(l)
    BY <1>4
  <2> HIDE DEF l
  <2>2. LET x == BindGlobal(l)
        IN  /\ x \in ListenerSet /\ Like(x, l) /\ x.fds = l.fds /\ x.sibling = l.sibling
            /\ x.global => \A h \in Hosts : \E n \in DOMAIN x.hosts : x.hosts[n] = h
    BY <2>1, BindsGlobal
  <2> QED
    BY <2>1, <2>2 DEF l
<1>6. lis \in Seq(ListenerSet)
  <2>1. Len(c.lis) \in Nat /\ DOMAIN c.lis = 1 .. Len(c.lis)
    BY <1>2
  <2>2. lis \in [1 .. Len(c.lis) -> ListenerSet]
    BY <2>1, <1>4, <1>5 DEF lis, c
  <2> QED
    BY <2>1, <2>2
<1>7. d \in State
  BY <1>1, <1>2, <1>6 DEF State, Pcs
<1>8. /\ d.scene = c.scene /\ d.world = c.world /\ d.pc = "configured" /\ d.why = c.why /\ d.mode = c.mode /\ d.given = c.given
      /\ d.ports = c.ports /\ d.bound = c.bound /\ d.lis = lis /\ d.sib = c.sib /\ d.at = c.at
  BY <1>1, <1>2 DEF State
<1>9. Accepted(d) = Accepted(c)
  BY <1>8, SameAccepted
<1>10. ListInv(d) /\ KeysOf(d.lis) = KeysOf(c.lis)
  BY <1>2, <1>4, <1>5, <1>8, <1>9, ListAlike
<1>11. SiblingInv(d.lis, d.sib)
  <2>1. \A i \in DOMAIN c.lis : lis[i].sibling = c.lis[i].sibling /\ lis[i].quic = c.lis[i].quic /\ lis[i].addr = c.lis[i].addr
    BY <1>5 DEF Like
  <2>2. SiblingInv(lis, c.sib)
    BY <1>2, <1>4, <2>1, SiblingsAlike
  <2> QED
    BY <2>2, <1>8
<1>12. SocketInv(d)
  BY <1>1, <1>2, <1>4, <1>5, <1>8, <1>10 DEF SocketInv, Inherits, Bound
<1>13. ProcessInv(d)
  <2>1. \A i \in DOMAIN d.lis : d.lis[i].global => \A h \in Hosts : \E n \in DOMAIN d.lis[i].hosts : d.lis[i].hosts[n] = h
    BY <1>4, <1>5, <1>8
  <2>2. ProcessInv(c) /\ c.pc = "listen"
    BY <1>1, <1>2
  <2> QED
    BY <1>3, <1>8, <2>1, <2>2 DEF ProcessInv, Done
<1>14. Inv(d)
  BY <1>7, <1>10, <1>11, <1>12, <1>13 DEF Inv
<1> QED
  BY <1>14 DEF d

-----------------------------------------------------------------------------
(* The steps of main. *)

\* Before the first command nothing is accepted.
LEMMA NothingYet ==
    ASSUME ConstantsOK, NEW c \in State, c.lis = <<>>, c.at.h = 0, c.at.e = 1, c.at.k = 1
    PROVE  ListInv(c) /\ KeysOf(c.lis) = {}
<1>1. ASSUME NEW p \in Accepted(c) PROVE FALSE
  <2>1. PICK h, e, k : InFile(c, h, e, k) /\ Before(<<h, e, k>>, c.at)
    BY OfAccepted
  <2>2. h \in Nat /\ e \in Nat \ {0} /\ k \in Nat \ {0}
    BY <2>1, FileTypes
  <2> QED
    BY <2>1, <2>2 DEF Before
<1>2. DOMAIN c.lis = {}
  OBVIOUS
<1>3. Accepted(c) = {}
  BY <1>1
<1>4. KeysOf(c.lis) = {}
  BY <1>2 DEF KeysOf
<1>5. {KeyAt(c, p) : p \in Accepted(c)} = {}
  BY <1>3
<1> QED
  BY <1>2, <1>4, <1>5 DEF ListInv

\* A process that starts to read its file.
LEMMA BeginKeeps ==
    ASSUME ConstantsOK, NEW c, Inv(c), NEW mode \in Modes, NEW given \in SUBSET Keys, NEW world \in {1, 2},
           mode # "worker" => world = 1, c.ports # {} => mode = "worker" /\ given = c.ports
    PROVE  Inv(Begin(c, mode, given, world))
<1> DEFINE d == Begin(c, mode, given, world)
           none == <<0, 0>>
           at == [h |-> 0, e |-> 1, k |-> 1]
<1>1. c \in State /\ ProcessInv(c)
  BY DEF Inv
<1>2. none \in [1 .. 2 -> Nat] /\ none[1] = 0 /\ none[2] = 0 /\ at \in Cursor
  BY DEF Cursor
<1>3. d = [c EXCEPT !.pc = "listen", !.why = "none", !.mode = mode, !.given = given, !.world = world, !.bound = {}, !.lis = <<>>,
                    !.acme = <<>>, !.at = at, !.sib = none]
  BY DEF Begin
<1> HIDE DEF none
<1>4. d \in State
  <2>1. "listen" \in Pcs /\ "none" \in Reasons
    BY DEF Pcs, Reasons
  <2>2. <<>> \in Seq(ListenerSet) /\ <<>> \in Seq(Levels) /\ {} \in SUBSET Keys
    OBVIOUS
  <2> HIDE DEF d, at
  <2> QED
    BY <1>1, <1>2, <1>3, <2>1, <2>2 DEF State
<1>5. /\ d.scene = c.scene /\ d.world = world /\ d.pc = "listen" /\ d.why = "none" /\ d.mode = mode /\ d.given = given
      /\ d.ports = c.ports /\ d.bound = {} /\ d.lis = <<>> /\ d.sib = none /\ d.at = at
  <2> HIDE DEF d, at
  <2> QED
    BY <1>1, <1>3 DEF State
<1>6. d.at.h = 0 /\ d.at.e = 1 /\ d.at.k = 1 /\ DOMAIN d.lis = {}
  BY <1>5
<1> HIDE DEF d, at
<1>7. ListInv(d) /\ KeysOf(d.lis) = {}
  BY <1>4, <1>5, <1>6, NothingYet
<1>8. SiblingInv(d.lis, d.sib)
  BY <1>2, <1>5, <1>6 DEF SiblingInv
<1>9. SocketInv(d)
  BY <1>5, <1>6, <1>7 DEF SocketInv, Bound
<1>10. ProcessInv(d)
  BY <1>1, <1>5 DEF ProcessInv, Done
<1> QED
  BY <1>4, <1>7, <1>8, <1>9, <1>10 DEF Inv, d

LEMMA MainStartStep ==
    ASSUME ConstantsOK, IInv, MainStart
    PROVE  Inv(li')
<1> DEFINE mode == li.scene.mode
           given == li.scene.given
           world == 1
           why == "nested"
<1>1. li.pc = "start" /\ (li' = Fail(li, why) \/ li' = Begin(li, mode, given, world))
  BY DEF MainStart
<1>2. li \in State /\ ProcessInv(li) /\ Inv(li)
  BY DEF IInv, Inv
<1>3. li.ports = {} /\ li.scene \in Scenes
  BY <1>1, <1>2 DEF ProcessInv, State
<1>4. mode \in Modes /\ given \in SUBSET Keys /\ world \in {1, 2} /\ (mode # "worker" => world = 1)
  BY <1>3 DEF ConstantsOK, Modes
<1>5. why \in Reasons
  BY DEF Reasons
<1> HIDE DEF mode, given, world, why
<1>6. Inv(Fail(li, why))
  BY <1>1, <1>2, <1>3, <1>5, FailKeeps
<1>7. Inv(Begin(li, mode, given, world))
  BY <1>2, <1>3, <1>4, BeginKeeps
<1> QED
  BY <1>1, <1>6, <1>7

\* start_server gives a worker what the master has found in the file.
LEMMA SpawnWorkerStep ==
    ASSUME ConstantsOK, IInv, SpawnWorker
    PROVE  Inv(li')
<1> DEFINE mode == "worker"
           given == li.ports
           world == 1
<1>1. li' = Begin(li, mode, given, world)
  BY DEF SpawnWorker
<1>2. Inv(li) /\ given \in SUBSET Keys
  BY DEF IInv, Inv, State
<1>3. mode \in Modes /\ world \in {1, 2} /\ mode = "worker" /\ given = li.ports
  BY DEF Modes
<1> HIDE DEF mode, given, world
<1>4. Inv(Begin(li, mode, given, world))
  BY <1>2, <1>3, BeginKeeps
<1> QED
  BY <1>1, <1>4

LEMMA ReloadStep ==
    ASSUME ConstantsOK, IInv, Reload
    PROVE  Inv(li')
<1> DEFINE mode == "worker"
           given == li.ports
           world == 2
<1>1. li' = Begin(li, mode, given, world)
  BY DEF Reload
<1>2. Inv(li) /\ given \in SUBSET Keys
  BY DEF IInv, Inv, State
<1>3. mode \in Modes /\ world \in {1, 2} /\ mode = "worker" /\ given = li.ports
  BY DEF Modes
<1> HIDE DEF mode, given, world
<1>4. Inv(Begin(li, mode, given, world))
  BY <1>2, <1>3, BeginKeeps
<1> QED
  BY <1>1, <1>4

\* When the file is read, every command in it was accepted.
LEMMA AllAccepted ==
    ASSUME ConstantsOK, NEW c \in State, c.world = 1, c.at.h \notin Levels, ListInv(c)
    PROVE  KeysOf(c.lis) = AllKeys(c.scene)
<1>1. c.at.h \in Nat /\ c.at.h > NumHosts
  BY DEF State, Cursor, Levels, ConstantsOK
<1>2. KeysOf(c.lis) = {KeyAt(c, p) : p \in Accepted(c)}
  BY DEF ListInv
<1>3. ASSUME NEW key \in KeysOf(c.lis) PROVE key \in AllKeys(c.scene)
  <2>1. PICK p \in Accepted(c) : key = KeyAt(c, p)
    BY <1>2
  <2>2. PICK h, e, k : p = <<h, e, k>> /\ InFile(c, h, e, k)
    BY <2>1, OfAccepted
  <2>3. key = Key(c.scene.configs[1][h][e], k)
    BY <2>1, <2>2 DEF KeyAt, CommandAt, Config
  <2>4. h \in Levels /\ e \in DOMAIN c.scene.configs[1][h] /\ k \in DOMAIN c.scene.configs[1][h][e].addrs
    BY <2>2 DEF InFile, Config
  <2> QED
    BY <2>3, <2>4, InAllKeys
<1>4. ASSUME NEW key \in AllKeys(c.scene) PROVE key \in KeysOf(c.lis)
  <2> DEFINE f == c.scene.configs[1]
  <2>1. PICK h \in Levels : key \in UNION {{Key(f[h][e], k) : k \in DOMAIN f[h][e].addrs} : e \in DOMAIN f[h]}
    BY <1>4 DEF AllKeys
  <2>2. PICK e \in DOMAIN f[h] : key \in {Key(f[h][e], k) : k \in DOMAIN f[h][e].addrs}
    BY <2>1
  <2>3. PICK k \in DOMAIN f[h][e].addrs : key = Key(f[h][e], k)
    BY <2>2
  <2>4. InFile(c, h, e, k)
    BY <2>1, <2>2, <2>3 DEF InFile, Config
  <2>5. h < c.at.h
    BY <1>1 DEF Levels, ConstantsOK
  <2>6. <<h, e, k>> \in Accepted(c)
    BY <2>4, <2>5, InAccepted DEF Before
  <2>7. key = KeyAt(c, <<h, e, k>>)
    BY <2>3 DEF KeyAt, CommandAt, Config
  <2> QED
    BY <1>2, <2>6, <2>7
<1> QED
  BY <1>3, <1>4

\* What only changes where the process is.
Same(c, d) ==
    /\ d.scene = c.scene /\ d.world = c.world /\ d.mode = c.mode /\ d.given = c.given /\ d.bound = c.bound /\ d.lis = c.lis
    /\ d.sib = c.sib /\ d.at = c.at

LEMMA SameKeeps ==
    ASSUME NEW c, Inv(c), NEW d \in State, Same(c, d)
    PROVE  ListInv(d) /\ SiblingInv(d.lis, d.sib) /\ (Inherits(d) => d.bound = KeysOf(d.lis))
<1>1. ListInv(d)
  BY SameAccepted, ListAlike DEF Inv, Like, Same
<1>2. SiblingInv(d.lis, d.sib)
  BY DEF Inv, Same
<1>3. Inherits(d) => d.bound = KeysOf(d.lis)
  BY DEF Inv, Same, SocketInv, Inherits
<1> QED
  BY <1>1, <1>2, <1>3

LEMMA ProcessGoesOn ==
    ASSUME NEW c, ProcessInv(c), NEW d, Same(c, d), d.why = c.why, d.ports = c.ports, Done(c), Done(d), c.pc # "master"
    PROVE  ProcessInv(d)
<1>1. d.pc # "start" /\ d.pc # "failed" /\ c.pc # "failed"
  BY DEF Done
<1>2. d.scene = c.scene /\ d.world = c.world /\ d.mode = c.mode /\ d.given = c.given /\ d.lis = c.lis /\ d.at = c.at
  BY DEF Same
<1>3. c.at.h \notin Levels /\ c.why = "none" /\ (c.mode # "worker" => c.world = 1)
  BY <1>1 DEF ProcessInv
<1>4. \A i \in DOMAIN c.lis : c.lis[i].global => \A h \in Hosts : \E n \in DOMAIN c.lis[i].hosts : c.lis[i].hosts[n] = h
  BY DEF ProcessInv
<1>5. c.ports # {} => c.ports = AllKeys(c.scene) /\ c.mode = "worker" /\ c.given = c.ports
  BY DEF ProcessInv
<1> QED
  BY <1>1, <1>2, <1>3, <1>4, <1>5 DEF ProcessInv

LEMMA ConfiguredStep ==
    ASSUME ConstantsOK, IInv, Configured
    PROVE  Inv(li')
<1> DEFINE loader == li.loader \/ SpawnsLoader(li)
           c == [li EXCEPT !.loader = loader]
           ports == KeysOf(c.lis)
           left == "left over"
           nolog == "no log"
<1>1. /\ li.pc = "configured"
      /\ li' = IF c.given # {} /\ c.bound # c.given THEN Fail(c, left)
               ELSE IF c.mode = "daemon" /\ ~c.scene.errlog THEN Fail(c, nolog)
               ELSE IF c.mode = "test" THEN [c EXCEPT !.pc = "tested"]
               ELSE IF c.mode = "worker" THEN [c EXCEPT !.pc = "bind"]
               ELSE [c EXCEPT !.pc = "master", !.ports = ports]
  BY DEF Configured
<1>2. li \in State /\ Inv(li) /\ loader \in BOOLEAN
  BY DEF IInv, Inv, State, SpawnsLoader
<1> HIDE DEF loader
<1>3. c \in State
  BY <1>2 DEF State
<1>4. Same(li, c) /\ c.pc = li.pc /\ c.why = li.why /\ c.ports = li.ports
  BY <1>2 DEF State, Same
<1> HIDE DEF c
<1>5. Inv(c) /\ c.pc = "configured"
  <2>1. ListInv(c) /\ SiblingInv(c.lis, c.sib) /\ (Inherits(c) => c.bound = KeysOf(c.lis))
    BY <1>2, <1>3, <1>4, SameKeeps
  <2>2. SocketInv(c)
    BY <1>2, <1>4, <2>1 DEF Inv, SocketInv, Same
  <2>3. ProcessInv(c)
    <3>1. ProcessInv(li) /\ Done(li) /\ Done(c) /\ li.pc # "master"
      BY <1>1, <1>2, <1>4 DEF Inv, Done
    <3> QED
      BY <1>4, <3>1, ProcessGoesOn
  <2> QED
    BY <1>1, <1>3, <1>4, <2>1, <2>2, <2>3 DEF Inv
<1>6. ListInv(c) /\ SocketInv(c) /\ ProcessInv(c) /\ c.at.h \notin Levels /\ c.why = "none"
  BY <1>5 DEF Inv, ProcessInv, Done
<1>7. c.world = 1 => KeysOf(c.lis) = AllKeys(c.scene)
  BY <1>3, <1>6, AllAccepted
<1>8. left \in Reasons /\ nolog \in Reasons /\ nolog \notin {"not bound", "left over"}
  BY DEF Reasons
<1>9. CASE c.given # {} /\ c.bound # c.given
  <2>1. ASSUME c.ports # {}, c.world = 1 PROVE FALSE
    <3>1. c.mode = "worker" /\ c.given = AllKeys(c.scene)
      BY <1>5, <1>6, <2>1 DEF ProcessInv
    <3>2. c.bound = KeysOf(c.lis)
      BY <1>6, <1>9, <3>1 DEF SocketInv, Inherits
    <3> QED
      BY <1>7, <1>9, <2>1, <3>1, <3>2
  <2> HIDE DEF left
  <2>2. Inv(Fail(c, left))
    BY <1>5, <1>8, <2>1, FailKeeps
  <2> QED
    BY <1>1, <1>9, <2>2
<1>10. CASE li' = Fail(c, nolog)
  <2> HIDE DEF nolog
  <2>1. Inv(Fail(c, nolog))
    BY <1>5, <1>8, FailKeeps
  <2> QED
    BY <1>10, <2>1
<1>11. CASE c.mode = "test" /\ li' = [c EXCEPT !.pc = "tested"]
  <2> DEFINE d == li'
  <2>1. d \in State /\ Same(c, d) /\ d.pc = "tested" /\ d.why = c.why /\ d.ports = c.ports
    BY <1>3, <1>11 DEF State, Same, Pcs
  <2> HIDE DEF d
  <2>2. ListInv(d) /\ SiblingInv(d.lis, d.sib) /\ (Inherits(d) => d.bound = KeysOf(d.lis))
    BY <1>5, <2>1, SameKeeps
  <2>3. SocketInv(d)
    BY <2>1, <2>2 DEF SocketInv, Bound
  <2>4. ProcessInv(d)
    BY <1>5, <1>6, <2>1 DEF ProcessInv, Same, Done
  <2> QED
    BY <2>1, <2>2, <2>3, <2>4 DEF Inv, d
<1>12. CASE ~(c.given # {} /\ c.bound # c.given) /\ c.mode = "worker" /\ li' = [c EXCEPT !.pc = "bind"]
  <2> DEFINE d == li'
  <2>1. d \in State /\ Same(c, d) /\ d.pc = "bind" /\ d.why = c.why /\ d.ports = c.ports
    BY <1>3, <1>12 DEF State, Same, Pcs
  <2> HIDE DEF d
  <2>2. ListInv(d) /\ SiblingInv(d.lis, d.sib) /\ (Inherits(d) => d.bound = KeysOf(d.lis))
    BY <1>5, <2>1, SameKeeps
  <2>3. SocketInv(d)
    BY <1>5, <1>6, <1>12, <2>1, <2>2 DEF SocketInv, Same, Bound
  <2>4. ProcessInv(d)
    BY <1>5, <1>6, <2>1 DEF ProcessInv, Same, Done
  <2> QED
    BY <2>1, <2>2, <2>3, <2>4 DEF Inv, d
<1>13. CASE c.mode # "worker" /\ li' = [c EXCEPT !.pc = "master", !.ports = ports]
  <2> DEFINE d == li'
  <2>1. ports \in SUBSET Keys
    <3>1. c.lis \in Seq(ListenerSet)
      BY <1>3 DEF State
    <3>2. ASSUME NEW i \in DOMAIN c.lis PROVE KeyOf(c.lis[i]) \in Keys
      <4> DEFINE l == c.lis[i]
      <4>1. l \in ListenerSet
        BY <3>1
      <4> HIDE DEF l
      <4>2. KeyOf(l) \in Keys
        BY <4>1 DEF KeyOf, Keys, ListenerSet
      <4> QED
        BY <4>2 DEF l
    <3> QED
      BY <3>2 DEF KeysOf
  <2>2. c.world = 1 /\ ports = AllKeys(c.scene)
    BY <1>6, <1>7, <1>13 DEF ProcessInv
  <2> HIDE DEF ports
  <2>3. d \in State /\ Same(c, d) /\ d.pc = "master" /\ d.why = c.why /\ d.ports = ports
    BY <1>3, <1>13, <2>1 DEF State, Same, Pcs
  <2> HIDE DEF d
  <2>4. ListInv(d) /\ SiblingInv(d.lis, d.sib) /\ (Inherits(d) => d.bound = KeysOf(d.lis))
    BY <1>5, <2>3, SameKeeps
  <2>5. SocketInv(d)
    BY <2>3, <2>4 DEF SocketInv, Bound
  <2>6. ProcessInv(d)
    BY <1>5, <1>6, <2>2, <2>3 DEF ProcessInv, Same, Done
  <2> QED
    BY <2>3, <2>4, <2>5, <2>6 DEF Inv, d
<1> QED
  BY <1>1, <1>9, <1>10, <1>11, <1>12, <1>13

\* A socket for every thread, none of them missing.
LEMMA ExtendedFds ==
    ASSUME ConstantsOK, NEW fds \in Seq(Fds), Len(fds) = 1, fds[1] # "none"
    PROVE  /\ Extended(fds) \in Seq(Fds) /\ Len(Extended(fds)) = NumThreads
           /\ \A n \in DOMAIN Extended(fds) : Extended(fds)[n] # "none"
<1> DEFINE N == IF Len(fds) < NumThreads THEN NumThreads ELSE Len(fds)
           x == [n \in 1 .. N |-> IF n <= Len(fds) THEN fds[n] ELSE "dup"]
<1>1. N = NumThreads /\ N \in Nat
  BY DEF ConstantsOK
<1>2. x = Extended(fds)
  BY DEF Extended
<1> HIDE DEF N
<1>3. ASSUME NEW n \in 1 .. N PROVE x[n] \in Fds /\ x[n] # "none"
  <2>1. CASE n <= 1
    <3>1. n = 1 /\ x[n] = fds[1]
      BY <1>1, <2>1
    <3> QED
      BY <3>1
  <2>2. CASE ~(n <= 1)
    <3>1. x[n] = "dup"
      BY <1>1, <2>2
    <3> QED
      BY <3>1 DEF Fds
  <2> QED
    BY <2>1, <2>2
<1>4. DOMAIN x = 1 .. N
  OBVIOUS
<1> HIDE DEF x
<1>5. x \in [1 .. N -> Fds]
  <2>1. x = [n \in 1 .. N |-> x[n]]
    BY DEF x
  <2> QED
    BY <2>1, <1>3
<1>6. x \in Seq(Fds) /\ Len(x) = N
  BY <1>1, <1>5
<1> QED
  BY <1>1, <1>2, <1>3, <1>4, <1>6

LEMMA PerThreadStep ==
    ASSUME ConstantsOK, IInv, PerThread
    PROVE  Inv(li')
<1> DEFINE lis == [i \in DOMAIN li.lis |-> BindThreads(li.lis[i])]
           c == li
           d == li'
<1>1. c.pc = "bind" /\ d = [c EXCEPT !.lis = lis, !.pc = "setuid"]
  BY DEF PerThread
<1>2. c \in State /\ ListInv(c) /\ SiblingInv(c.lis, c.sib) /\ SocketInv(c) /\ ProcessInv(c) /\ c.lis \in Seq(ListenerSet)
  BY DEF IInv, Inv, State
<1>3. \A i \in DOMAIN c.lis : lis[i] = [c.lis[i] EXCEPT !.fds = Extended(c.lis[i].fds)] /\ c.lis[i] \in ListenerSet
  BY <1>2 DEF BindThreads
<1>4. DOMAIN lis = DOMAIN c.lis /\ lis = [i \in DOMAIN c.lis |-> lis[i]]
  OBVIOUS
<1> HIDE DEF lis, c, d
<1>5. ASSUME NEW i \in DOMAIN c.lis
      PROVE  /\ lis[i] \in ListenerSet /\ Like(lis[i], c.lis[i]) /\ lis[i].sibling = c.lis[i].sibling
             /\ Len(lis[i].fds) = NumThreads /\ \A n \in DOMAIN lis[i].fds : lis[i].fds[n] # "none"
  <2> DEFINE l == c.lis[i]
             fds == l.fds
             more == Extended(fds)
  <2>1. l \in ListenerSet /\ lis[i] = [l EXCEPT !.fds = more]
    BY <1>3
  <2>2. Len(fds) = 1 /\ fds[1] # "none"
    BY <1>1, <1>2 DEF SocketInv, Bound
  <2>3. fds \in Seq(Fds)
    BY <2>1 DEF ListenerSet
  <2> HIDE DEF l, fds
  <2>4. more \in Seq(Fds) /\ Len(more) = NumThreads /\ \A n \in DOMAIN more : more[n] # "none"
    BY <2>2, <2>3, ExtendedFds
  <2> HIDE DEF more
  <2>5. lis[i].fds = more /\ Like(lis[i], l) /\ lis[i].sibling = l.sibling /\ lis[i] \in ListenerSet
    BY <2>1, <2>4 DEF ListenerSet, Like
  <2> QED
    BY <2>4, <2>5 DEF l
<1>6. lis \in Seq(ListenerSet)
  <2>1. Len(c.lis) \in Nat /\ DOMAIN c.lis = 1 .. Len(c.lis)
    BY <1>2
  <2>2. lis \in [1 .. Len(c.lis) -> ListenerSet]
    BY <2>1, <1>4, <1>5
  <2> QED
    BY <2>1, <2>2
<1>7. d \in State
  BY <1>1, <1>2, <1>6 DEF State, Pcs
<1>8. /\ d.scene = c.scene /\ d.world = c.world /\ d.pc = "setuid" /\ d.why = c.why /\ d.mode = c.mode /\ d.given = c.given
      /\ d.ports = c.ports /\ d.bound = c.bound /\ d.lis = lis /\ d.sib = c.sib /\ d.at = c.at
  BY <1>1, <1>2 DEF State
<1>9. Accepted(d) = Accepted(c)
  BY <1>8, SameAccepted
<1>10. ListInv(d) /\ KeysOf(d.lis) = KeysOf(c.lis)
  BY <1>2, <1>4, <1>5, <1>8, <1>9, ListAlike
<1>11. SiblingInv(d.lis, d.sib)
  <2>1. \A i \in DOMAIN c.lis : lis[i].sibling = c.lis[i].sibling /\ lis[i].quic = c.lis[i].quic /\ lis[i].addr = c.lis[i].addr
    BY <1>5 DEF Like
  <2>2. SiblingInv(lis, c.sib)
    BY <1>2, <1>4, <2>1, SiblingsAlike
  <2> QED
    BY <2>2, <1>8
<1>12. SocketInv(d)
  <2>1. \A i \in DOMAIN d.lis : Len(d.lis[i].fds) = NumThreads /\ \A n \in DOMAIN d.lis[i].fds : d.lis[i].fds[n] # "none"
    BY <1>4, <1>5, <1>8
  <2>2. SocketInv(c)
    BY <1>2
  <2> QED
    BY <1>1, <1>8, <1>10, <2>1, <2>2 DEF SocketInv, Inherits, Bound
<1>13. ProcessInv(d)
  <2>1. ProcessInv(c)
    BY <1>2
  <2>2. ASSUME NEW i \in DOMAIN d.lis, d.lis[i].global, NEW h \in Hosts PROVE \E n \in DOMAIN d.lis[i].hosts : d.lis[i].hosts[n] = h
    <3>1. i \in DOMAIN c.lis /\ c.lis[i].global
      BY <1>4, <1>5, <1>8, <2>2 DEF Like
    <3>2. \E n \in DOMAIN c.lis[i].hosts : c.lis[i].hosts[n] = h
      BY <1>1, <2>1, <3>1 DEF ProcessInv, Done
    <3>3. d.lis[i].hosts = c.lis[i].hosts
      BY <1>3, <1>8, <3>1 DEF ListenerSet
    <3> QED
      BY <3>2, <3>3
  <2> QED
    BY <1>1, <1>8, <2>1, <2>2 DEF ProcessInv, Done
<1>14. Inv(d)
  BY <1>7, <1>10, <1>11, <1>12, <1>13 DEF Inv
<1> QED
  BY <1>14 DEF d

\* Steps of a worker whose sockets are complete.
LEMMA WorkerGoesOn ==
    ASSUME NEW c, Inv(c), c.pc \in Bound, NEW pc \in Bound, NEW d, d = [c EXCEPT !.pc = pc]
    PROVE  Inv(d)
<1>1. c \in State /\ pc \in Pcs
  BY DEF Inv, Bound, Pcs
<1>2. d \in State /\ Same(c, d) /\ d.pc = pc /\ d.why = c.why /\ d.ports = c.ports
  BY <1>1 DEF State, Same
<1>3. ListInv(d) /\ SiblingInv(d.lis, d.sib) /\ (Inherits(d) => d.bound = KeysOf(d.lis))
  BY <1>2, SameKeeps
<1>4. SocketInv(d)
  BY <1>2, <1>3 DEF Inv, SocketInv, Same, Bound
<1>5. ProcessInv(d)
  <2>1. ProcessInv(c) /\ Done(c) /\ Done(d) /\ c.pc # "master"
    BY <1>2 DEF Inv, Done, Bound
  <2> QED
    BY <1>2, <2>1, ProcessGoesOn
<1> QED
  BY <1>2, <1>3, <1>4, <1>5 DEF Inv

LEMMA SetUserStep ==
    ASSUME ConstantsOK, IInv, SetUser
    PROVE  Inv(li')
<1> DEFINE why == IF li.scene.user THEN "setuid" ELSE "root"
           pc == "resume"
<1>1. li.pc = "setuid" /\ (li' = [li EXCEPT !.pc = pc] \/ li' = Fail(li, why))
  BY DEF SetUser
<1>2. why \in Reasons /\ why \notin {"not bound", "left over"}
  BY DEF Reasons
<1>3. li.pc \in Bound /\ pc \in Bound /\ Inv(li)
  BY <1>1 DEF Bound, IInv
<1> HIDE DEF why, pc
<1>4. Inv(Fail(li, why))
  BY <1>1, <1>2, <1>3, FailKeeps
<1> QED
  BY <1>1, <1>3, <1>4, WorkerGoesOn

LEMMA StartThreadsStep ==
    ASSUME IInv, StartThreads
    PROVE  Inv(li')
<1> DEFINE pc == "run"
<1>1. li.pc = "resume" /\ li' = [li EXCEPT !.pc = pc]
  BY DEF StartThreads
<1>2. li.pc \in Bound /\ pc \in Bound /\ Inv(li)
  BY <1>1 DEF Bound, IInv
<1> HIDE DEF pc
<1> QED
  BY <1>1, <1>2, WorkerGoesOn

-----------------------------------------------------------------------------
(* The theorems. *)

LEMMA Initially ==
    ASSUME ConstantsOK, Init
    PROVE  Inv(li)
<1> DEFINE none == <<0, 0>>
           at == [h |-> 0, e |-> 1, k |-> 1]
           c == li
<1>1. PICK scene \in Scenes :
        c = [scene |-> scene, pc |-> "start", why |-> "none", mode |-> scene.mode, given |-> {}, world |-> 1, bound |-> {}, lis |-> <<>>,
             acme |-> <<>>, at |-> at, sib |-> none, loader |-> FALSE, ports |-> {}]
  BY DEF Init
<1>2. none \in [1 .. 2 -> Nat] /\ none[1] = 0 /\ none[2] = 0 /\ at \in Cursor /\ scene.mode \in Modes
  BY DEF Cursor, ConstantsOK, Modes
<1>3. at.h = 0 /\ at.e = 1 /\ at.k = 1
  OBVIOUS
<1> HIDE DEF none, at, c
<1>4. c \in State
  <2>1. "start" \in Pcs /\ "none" \in Reasons
    BY DEF Pcs, Reasons
  <2>2. <<>> \in Seq(ListenerSet) /\ <<>> \in Seq(Levels) /\ {} \in SUBSET Keys
    OBVIOUS
  <2> QED
    BY <1>1, <1>2, <2>1, <2>2 DEF State
<1>5. /\ c.world = 1 /\ c.pc = "start" /\ c.why = "none" /\ c.given = {} /\ c.ports = {} /\ c.bound = {} /\ c.lis = <<>>
      /\ c.sib = none /\ c.at = at
  BY <1>1
<1>6. DOMAIN c.lis = {}
  BY <1>5
<1>7. ListInv(c) /\ KeysOf(c.lis) = {}
  BY <1>3, <1>4, <1>5, NothingYet
<1>8. SiblingInv(c.lis, c.sib)
  BY <1>2, <1>5, <1>6 DEF SiblingInv
<1>9. SocketInv(c)
  BY <1>5, <1>6, <1>7 DEF SocketInv, Bound
<1>10. ProcessInv(c)
  BY <1>5 DEF ProcessInv, Done
<1> QED
  BY <1>4, <1>7, <1>8, <1>9, <1>10 DEF Inv, c

\* The listeners of the server, the commands accepted so far, the sockets
\* and the state of the process fit together, whatever the configuration
\* (src/main.c, from main to the start of the threads).
THEOREM ListenersInvariant == ConstantsOK => (Spec => []IInv)
<1> SUFFICES ASSUME ConstantsOK
             PROVE  Spec => []IInv
  OBVIOUS
<1>1. Init => IInv
  BY Initially DEF IInv
<1>2. IInv /\ [Next]_li => IInv'
  <2> SUFFICES ASSUME IInv, [Next]_li
               PROVE  IInv'
    OBVIOUS
  <2>1. CASE UNCHANGED li
    BY <2>1 DEF IInv
  <2>2. ASSUME Inv(li') PROVE IInv'
    BY <2>2 DEF IInv
  <2>3. CASE ListenNew
    BY <2>2, <2>3, ListenNewStep
  <2>4. CASE ListenAgain
    BY <2>2, <2>4, ListenAgainStep
  <2>5. CASE ListenEnds
    BY <2>2, <2>5, ListenEndsStep
  <2>6. CASE LevelEnds
    BY <2>2, <2>6, LevelEndsStep
  <2>7. CASE GlobalExit
    BY <2>2, <2>7, GlobalExitStep
  <2>8. CASE MainStart
    BY <2>2, <2>8, MainStartStep
  <2>9. CASE Configured
    BY <2>2, <2>9, ConfiguredStep
  <2>10. CASE SpawnWorker
    BY <2>2, <2>10, SpawnWorkerStep
  <2>11. CASE Reload
    BY <2>2, <2>11, ReloadStep
  <2>12. CASE PerThread
    BY <2>2, <2>12, PerThreadStep
  <2>13. CASE SetUser
    BY <2>2, <2>13, SetUserStep
  <2>14. CASE StartThreads
    BY <2>2, <2>14, StartThreadsStep
  <2> QED
    BY <2>1, <2>3, <2>4, <2>5, <2>6, <2>7, <2>8, <2>9, <2>10, <2>11, <2>12, <2>13, <2>14 DEF Next, Listening, Main
<1> QED
  BY <1>1, <1>2, PTL DEF Spec

\* The entry a name leads to is one of the listener's, and the identity
\* that is chosen one of the entry's.
LEMMA ResolveSniIn ==
    ASSUME NEW c, NEW l \in ListenerSet, l.ssl # <<>>, NEW n
    PROVE  \E j \in DOMAIN l.ssl : /\ ResolveSni(c, l, n) = l.ssl[j]
                                   /\ (\E i \in DOMAIN l.ssl : Named(c, l.ssl[i], n)) => Named(c, l.ssl[j], n)
<1> DEFINE S == {i \in DOMAIN l.ssl : Named(c, l.ssl[i], n)}
<1>1. l.ssl \in Seq(EntrySet) /\ 1 \in DOMAIN l.ssl /\ DOMAIN l.ssl \subseteq Nat
  <2>1. l.ssl \in Seq(EntrySet)
    BY DEF ListenerSet
  <2> QED
    BY <2>1
<1>2. ResolveSni(c, l, n) = l.ssl[IF S = {} THEN 1 ELSE FirstOf(S)]
  BY DEF ResolveSni
<1>3. S \subseteq Nat /\ S \subseteq DOMAIN l.ssl
  BY <1>1
<1>4. \A i \in DOMAIN l.ssl : i \in S <=> Named(c, l.ssl[i], n)
  OBVIOUS
<1> HIDE DEF S
<1>5. CASE S = {}
  BY <1>1, <1>2, <1>4, <1>5
<1>6. CASE S # {}
  <2>1. FirstOf(S) \in S
    BY <1>3, <1>6, FirstOfLeast
  <2> QED
    BY <1>2, <1>3, <1>4, <1>6, <2>1
<1> QED
  BY <1>5, <1>6

LEMMA ChooseIdentityIn ==
    ASSUME NEW c, NEW entry \in EntrySet, entry.ids # <<>>, NEW raw, NEW sigs
    PROVE  \E n \in DOMAIN entry.ids : ChooseIdentity(c, entry, raw, sigs) = entry.ids[n]
<1> DEFINE S == {n \in DOMAIN entry.ids : n # 1 /\ Suits(c, entry.ids[n], raw, sigs)}
<1>1. 1 \in DOMAIN entry.ids /\ DOMAIN entry.ids \subseteq Nat
  <2>1. entry.ids \in Seq(IdentitySet)
    BY DEF EntrySet
  <2> QED
    BY <2>1
<1>2. ChooseIdentity(c, entry, raw, sigs) = entry.ids[IF S = {} THEN 1 ELSE FirstOf(S)]
  BY DEF ChooseIdentity
<1>3. S \subseteq Nat /\ S \subseteq DOMAIN entry.ids
  BY <1>1
<1> HIDE DEF S
<1>4. S # {} => FirstOf(S) \in S
  BY <1>3, FirstOfLeast
<1> QED
  BY <1>1, <1>2, <1>3, <1>4

\* However many commands and hosts name an address, it has one listener, and
\* there is no listener that nobody asked for (find_listener and
\* add_listener, src/main.c).
THEOREM OneListener == ConstantsOK => (Spec => []OneListenerPerAddress)
<1>1. IInv => OneListenerPerAddress
  BY DEF IInv, Inv, ListInv, OneListenerPerAddress
<1> QED
  BY <1>1, ListenersInvariant, PTL

\* Commands that share a listener agree on TLS and on the PROXY protocol
\* (the checks of on_config_listen_element and listener_setup_ssl).
THEOREM Agreement == ConstantsOK => (Spec => []CommandsAgree)
<1>1. IInv => CommandsAgree
  <2> SUFFICES ASSUME IInv, NEW i \in DOMAIN li.lis, NEW p \in Accepted(li), KeyAt(li, p) = KeyOf(li.lis[i])
               PROVE  /\ (CommandAt(li, p).ssl = <<>>) = (li.lis[i].ssl = <<>>)
                      /\ CommandAt(li, p).type # "quic" => li.lis[i].proxy = CommandAt(li, p).proxy
    BY DEF CommandsAgree
  <2> DEFINE P == AtKey(li, KeyOf(li.lis[i]))
  <2>1. p \in P
    BY DEF AtKey
  <2>2. AgreeInv(li, li.lis[i], P)
    BY DEF IInv, Inv, ListInv, ListenerInv
  <2> HIDE DEF P
  <2> QED
    BY <2>1, <2>2 DEF AgreeInv
<1> QED
  BY <1>1, ListenersInvariant, PTL

\* A listener serves a host when the global level or the host itself has
\* asked for it, and no other host (on_config_listen_exit, src/main.c).
THEOREM Service == ConstantsOK => (Spec => []ServesWhoAsked)
<1>1. IInv => ServesWhoAsked
  <2> SUFFICES ASSUME IInv, NEW i \in DOMAIN li.lis, NEW h \in Hosts, Live, li.pc # "listen"
               PROVE  (\E n \in DOMAIN li.lis[i].hosts : li.lis[i].hosts[n] = h)
                        <=> \E p \in Accepted(li) : KeyAt(li, p) = KeyOf(li.lis[i]) /\ p[1] \in {0, h}
    BY DEF ServesWhoAsked
  <2> DEFINE P == AtKey(li, KeyOf(li.lis[i]))
  <2>1. HostsInv(li.lis[i], P)
    BY DEF IInv, Inv, ListInv, ListenerInv
  <2>2. (\E p \in Accepted(li) : KeyAt(li, p) = KeyOf(li.lis[i]) /\ p[1] \in {0, h}) <=> \E p \in P : p[1] \in {0, h}
    BY DEF AtKey
  <2>3. li.lis[i].global => \E n \in DOMAIN li.lis[i].hosts : li.lis[i].hosts[n] = h
    BY DEF IInv, Inv, ProcessInv, Done, Live
  <2> HIDE DEF P
  <2> QED
    BY <2>1, <2>2, <2>3 DEF HostsInv
<1> QED
  BY <1>1, ListenersInvariant, PTL

\* The name of a host leads to an entry that carries a name covering it,
\* with the identities its own command brings unless another host covers
\* the name or the host brings several (resolve_sni, src/main.c).
THEOREM SniResolution == ConstantsOK => (Spec => []SniFindsTheHost)
<1> SUFFICES ASSUME ConstantsOK
             PROVE  Spec => []SniFindsTheHost
  OBVIOUS
<1>1. IInv => SniFindsTheHost
  <2> SUFFICES ASSUME IInv, NEW i \in DOMAIN li.lis, NEW p \in Accepted(li), Brings(li, p, KeyOf(li.lis[i]))
               PROVE  LET entry == ResolveSni(li, li.lis[i], p[1])
                      IN  /\ Named(li, entry, p[1])
                          /\ \/ CertsOf(entry) = IdsAt(li, p)
                             \/ \E h \in Hosts \ {p[1]} : <<h, p[1]>> \in li.scene.covers
                             \/ \E q \in Accepted(li) : Brings(li, q, KeyOf(li.lis[i])) /\ q[1] = p[1] /\ IdsAt(li, q) # IdsAt(li, p)
    BY DEF SniFindsTheHost
  <2> DEFINE l == li.lis[i]
             key == KeyOf(l)
             P == AtKey(li, key)
             entry == ResolveSni(li, l, p[1])
             h == p[1]
  <2>1. li \in State /\ l \in ListenerSet /\ EntryInv(li, l.ssl, P) /\ AgreeInv(li, l, P)
    BY DEF IInv, Inv, ListInv, ListenerInv, State
  <2>2. p \in P /\ h # 0 /\ CommandAt(li, p).ssl # <<>>
    BY DEF Brings, AtKey
  <2>3. h \in Hosts
    <3>1. h \in Levels
      BY <2>1, AcceptedTypes
    <3> QED
      BY <2>2, <3>1 DEF Levels, Hosts
  <2>4. l.ssl # <<>>
    BY <2>1, <2>2 DEF AgreeInv
  <2>5. \E j \in DOMAIN l.ssl : Named(li, l.ssl[j], h)
    <3>1. PICK j \in DOMAIN l.ssl : Holds(li, l.ssl[j], p)
      BY <2>1, <2>2 DEF EntryInv
    <3>2. <<h, h>> \in li.scene.covers
      BY <2>1, <2>3 DEF ConstantsOK, State
    <3> QED
      BY <3>1, <3>2 DEF Holds, Named
  <2>6. PICK j \in DOMAIN l.ssl : entry = l.ssl[j] /\ Named(li, l.ssl[j], h)
    <3> HIDE DEF l
    <3> QED
      BY <2>1, <2>4, <2>5, ResolveSniIn
  <2>7. PICK n \in DOMAIN l.ssl[j].names : <<l.ssl[j].names[n], h>> \in li.scene.covers
    BY <2>6 DEF Named
  <2>8. l.ssl[j].names[n] \in Hosts
    <3>1. l.ssl \in Seq(EntrySet)
      BY <2>1 DEF ListenerSet
    <3>2. l.ssl[j] \in EntrySet
      BY <3>1
    <3>3. l.ssl[j].names \in Seq(Hosts)
      BY <3>2 DEF EntrySet
    <3> QED
      BY <3>3
  <2>9. ASSUME l.ssl[j].names[n] = h
        PROVE  CertsOf(entry) = IdsAt(li, p) \/ \E q \in Accepted(li) : Brings(li, q, key) /\ q[1] = h /\ IdsAt(li, q) # IdsAt(li, p)
    <3>1. PICK q \in P : q[1] = h /\ CommandAt(li, q).ssl # <<>> /\ CertsOf(l.ssl[j]) = IdsAt(li, q)
      <4> HIDE DEF l, P, h
      <4> QED
        BY <2>1, <2>9 DEF EntryInv
    <3>2. q \in Accepted(li) /\ Brings(li, q, key)
      BY <2>2, <3>1 DEF AtKey, Brings
    <3> QED
      BY <2>6, <3>1, <3>2
  <2>10. \/ CertsOf(entry) = IdsAt(li, p)
         \/ \E x \in Hosts \ {h} : <<x, h>> \in li.scene.covers
         \/ \E q \in Accepted(li) : Brings(li, q, key) /\ q[1] = h /\ IdsAt(li, q) # IdsAt(li, p)
    BY <2>7, <2>8, <2>9
  <2>11. Named(li, entry, h)
    BY <2>6
  <2> QED
    BY <2>10, <2>11
<1> QED
  BY <1>1, ListenersInvariant, PTL

\* The first identity of every entry can be used by OpenSSL, and where it
\* can be used by picotls so can the alternatives; on QUIC every ClientHello
\* gets a picotls context (listener_setup_ssl, on_client_hello_ptls).
THEOREM Identification == ConstantsOK => (Spec => []IdentitiesAreUsable)
<1>1. IInv => IdentitiesAreUsable
  <2> SUFFICES ASSUME IInv, NEW i \in DOMAIN li.lis
               PROVE  LET l == li.lis[i] IN
                      /\ \A j \in DOMAIN l.ssl : /\ l.ssl[j].ids # <<>> /\ l.ssl[j].ids[1].ossl
                                                 /\ l.ssl[j].ids[1].ptls => \A n \in DOMAIN l.ssl[j].ids : l.ssl[j].ids[n].ptls
                      /\ l.quic => /\ l.ssl # <<>> /\ l.tls = 1
                                   /\ \A h \in Hosts, raw \in BOOLEAN, sigs \in SUBSET Signatures :
                                         ChooseIdentity(li, ResolveSni(li, l, h), raw, sigs).ptls
    BY DEF IdentitiesAreUsable
  <2> DEFINE l == li.lis[i]
  <2>1. l \in ListenerSet /\ UsableInv(l)
    BY DEF IInv, Inv, ListInv, ListenerInv, State
  <2> HIDE DEF l
  <2>2. \A j \in DOMAIN l.ssl : Usable(l.ssl[j], l.quic)
    BY <2>1 DEF UsableInv
  <2>3. \A j \in DOMAIN l.ssl : /\ l.ssl[j].ids # <<>> /\ l.ssl[j].ids[1].ossl
                                /\ l.ssl[j].ids[1].ptls => \A n \in DOMAIN l.ssl[j].ids : l.ssl[j].ids[n].ptls
    BY <2>2 DEF Usable
  <2>4. l.quic => l.ssl # <<>> /\ l.tls = 1
    BY <2>1 DEF UsableInv
  <2>5. ASSUME l.quic, NEW h \in Hosts, NEW raw \in BOOLEAN, NEW sigs \in SUBSET Signatures
        PROVE  ChooseIdentity(li, ResolveSni(li, l, h), raw, sigs).ptls
    <3> DEFINE entry == ResolveSni(li, l, h)
    <3>1. PICK j \in DOMAIN l.ssl : entry = l.ssl[j]
      BY <2>1, <2>4, <2>5, ResolveSniIn
    <3>2. l.ssl \in Seq(EntrySet)
      BY <2>1 DEF ListenerSet
    <3>3. entry \in EntrySet /\ Usable(entry, l.quic)
      BY <2>2, <3>1, <3>2
    <3> HIDE DEF entry
    <3>4. entry.ids # <<>> /\ \A n \in DOMAIN entry.ids : entry.ids[n].ptls
      BY <2>5, <3>3 DEF Usable
    <3>5. PICK n \in DOMAIN entry.ids : ChooseIdentity(li, entry, raw, sigs) = entry.ids[n]
      BY <3>3, <3>4, ChooseIdentityIn
    <3> QED
      BY <3>4, <3>5 DEF entry
  <2> QED
    BY <2>3, <2>4, <2>5 DEF l
<1> QED
  BY <1>1, ListenersInvariant, PTL

\* The sockets of both families of a QUIC command know each other (the end
\* of on_config_listen_element, src/main.c).
THEOREM Siblings == ConstantsOK => (Spec => []SiblingsAreMutual)
<1>1. IInv => SiblingsAreMutual
  BY DEF IInv, Inv, SiblingInv, Mutual, SiblingsAreMutual
<1> QED
  BY <1>1, ListenersInvariant, PTL

\* What runs has a socket per thread for every listener, and all that was
\* inherited is used (create_per_thread_listeners and main, src/main.c).
THEOREM Sockets == ConstantsOK => (Spec => []SocketsAreComplete)
<1>1. IInv => SocketsAreComplete
  <2> SUFFICES ASSUME IInv, li.pc \in {"setuid", "resume", "run"}
               PROVE  /\ \A i \in DOMAIN li.lis : Len(li.lis[i].fds) = NumThreads /\ \A n \in DOMAIN li.lis[i].fds : li.lis[i].fds[n] # "none"
                      /\ li.given # {} => KeysOf(li.lis) = li.given
    BY DEF SocketsAreComplete
  <2>1. SocketInv(li) /\ li.pc \in Bound
    BY DEF IInv, Inv, Bound
  <2>2. \A i \in DOMAIN li.lis : Len(li.lis[i].fds) = NumThreads /\ \A n \in DOMAIN li.lis[i].fds : li.lis[i].fds[n] # "none"
    BY <2>1 DEF SocketInv
  <2>3. li.given # {} => KeysOf(li.lis) = li.given
    BY <2>1 DEF SocketInv, Inherits
  <2> QED
    BY <2>2, <2>3
<1> QED
  BY <1>1, ListenersInvariant, PTL

\* A worker finds the sockets the master has opened for it, and no more, as
\* long as the file is not edited (find_listener_from_server_starter and
\* main, src/main.c).
THEOREM Inheritance == ConstantsOK => (Spec => []WorkersFindTheirSockets)
<1>1. IInv => WorkersFindTheirSockets
  BY DEF IInv, Inv, ProcessInv, WorkersFindTheirSockets
<1> QED
  BY <1>1, ListenersInvariant, PTL
=============================================================================
