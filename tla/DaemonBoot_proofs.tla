-------------------------- MODULE DaemonBoot_proofs --------------------------
(***************************************************************************)
(* Theorems about DaemonBoot for any documents, flags, modules and ports.  *)
(***************************************************************************)
EXTENDS DaemonBoot, SequenceTheorems, WellFoundedInduction, TLAPS

-----------------------------------------------------------------------------
\* Resolving a configuration.

\* A nonempty set of naturals has a least element.
LEMMA LeastOf ==
    ASSUME NEW I \in SUBSET Nat, I # {}
    PROVE  Min(I) \in I /\ \A j \in I : Min(I) <= j
<1> DEFINE less == OpToRel(<, Nat)
<1>1. IsWellFoundedOn(less, Nat)
  BY NatLessThanWellFounded, Zenon
<1>2. \A a, b \in Nat : a < b => <<a, b>> \in less
  BY Zenon DEF OpToRel
<1> HIDE DEF less
<1>3. PICK x \in I : \A y \in I : ~(<<y, x>> \in less)
  BY <1>1, WFMin
<1>4. x \in Nat /\ \A y \in I : y \in Nat /\ ~(y < x)
  BY <1>2, <1>3, Zenon
<1>5. \A y \in I : x <= y
  BY <1>4
<1> QED
  BY <1>5 DEF Min

\* SelectInSeq finds the first local listener.
LEMMA FirstLocal ==
    ASSUME NEW ls \in Seq(Listener), \E i \in DOMAIN ls : IsLocal(ls[i])
    PROVE  LET i == SelectInSeq(ls, IsLocal) IN
           /\ i \in 1..Len(ls) /\ IsLocal(ls[i])
           /\ \A j \in 1..Len(ls) : IsLocal(ls[j]) => i <= j
<1> DEFINE I == {i \in 1..Len(ls) : IsLocal(ls[i])}
<1>1. I # {} /\ I \in SUBSET Nat
  OBVIOUS
<1>2. Min(I) \in I /\ \A j \in I : Min(I) <= j
  BY <1>1, LeastOf
<1>3. SelectInSeq(ls, IsLocal) = Min(I)
  BY <1>1 DEF SelectInSeq
<1> QED
  BY <1>2, <1>3

LEMMA LocalIsListener == Local \in Listener
BY DEF Local, Listener, Protocol, Host

\* LocalFirst keeps the type and puts a local listener in front ...
LEMMA LocalFirstType ==
    ASSUME NEW ls \in Seq(Listener)
    PROVE  /\ LocalFirst(ls) \in Seq(Listener)
           /\ LocalFirst(ls) # <<>> /\ IsLocal(LocalFirst(ls)[1])
<1>1. CASE \E i \in DOMAIN ls : IsLocal(ls[i])
  <2> DEFINE i == SelectInSeq(ls, IsLocal)
  <2>1. i \in 1..Len(ls) /\ IsLocal(ls[i])
    BY <1>1, FirstLocal
  <2> HIDE DEF i
  <2>2. /\ SubSeq(ls, 1, i-1) \in Seq(Listener)
        /\ SubSeq(ls, i+1, Len(ls)) \in Seq(Listener)
    BY <2>1, SubSeqProperties
  <2>3. RemoveAt(ls, i) \in Seq(Listener)
    BY <2>2, ConcatProperties DEF RemoveAt
  <2>4. LocalFirst(ls) = <<ls[i]>> \o RemoveAt(ls, i)
    BY <1>1 DEF LocalFirst, i
  <2>5. <<ls[i]>> \in Seq(Listener)
    BY <2>1
  <2> QED
    BY <2>1, <2>3, <2>4, <2>5
<1>2. CASE ~\E i \in DOMAIN ls : IsLocal(ls[i])
  <2>1. LocalFirst(ls) = <<Local>> \o ls
    BY <1>2, Zenon DEF LocalFirst
  <2> QED
    BY <2>1, LocalIsListener DEF IsLocal, Local
<1> QED
  BY <1>1, <1>2

\* ... and leaves a sequence alone that has one there.
LEMMA LocalFirstStays ==
    ASSUME NEW ls \in Seq(Listener), ls # <<>>, IsLocal(ls[1])
    PROVE  LocalFirst(ls) = ls
<1>1. 1 \in 1..Len(ls) /\ \E i \in DOMAIN ls : IsLocal(ls[i])
  OBVIOUS
<1> DEFINE i == SelectInSeq(ls, IsLocal)
<1>2. i \in 1..Len(ls) /\ i <= 1
  BY <1>1, FirstLocal
<1> HIDE DEF i
<1>3. LocalFirst(ls) = <<ls[1]>> \o RemoveAt(ls, 1)
  <2>1. LocalFirst(ls) = <<ls[i]>> \o RemoveAt(ls, i)
    BY <1>1 DEF LocalFirst, i
  <2>2. i = 1
    BY <1>2
  <2> QED
    BY <2>1, <2>2
<1>4. RemoveAt(ls, 1) = SubSeq(ls, 2, Len(ls))
  BY DEF RemoveAt
<1>5. SubSeq(ls, 2, Len(ls)) = Tail(ls)
  BY <1>1
<1>6. <<ls[1]>> \o SubSeq(ls, 2, Len(ls)) = ls
  BY <1>1, <1>5
<1> QED
  BY <1>3, <1>4, <1>6

\* Each step of the resolution yields a configuration.
LEMMA LoadedType == ASSUME NEW doc \in Document \cup {None} PROVE Loaded(doc) \in Config
<1>1. Defaults \in Config
  <2>1. [m \in Module |-> <<>>] \in [Module -> Seq(Listener)] /\ {} \in SUBSET Material
    OBVIOUS
  <2>2. "" \in Policy /\ FALSE \in BOOLEAN
    BY DEF Policy
  <2> QED
    BY DirsAssumption, <2>1, <2>2 DEF Defaults, Config
<1>2. ASSUME NEW c \in Config PROVE FromJson(c) \in Config
  BY DEF FromJson, Config
<1>3. doc # None => doc.cfg \in Config
  BY DEF Document
<1> QED
  BY <1>1, <1>2, <1>3 DEF Loaded

LEMMA LayeredType ==
    ASSUME NEW c \in Config, NEW fs \in FlagSet PROVE Layered(c, fs) \in Config
BY DEF Layered, Config, FlagSet

LEMMA WithSslType == ASSUME NEW c \in Config PROVE WithSsl(c) \in Config
<1> DEFINE Equip(l) == IF l.protocol = "tcp_ssl" THEN [l EXCEPT !.tls = @ \cup c.ssl] ELSE l
           New == [m \in Module |-> [i \in DOMAIN c.modules[m] |-> Equip(c.modules[m][i])]]
<1>1. c.ssl \subseteq Material /\ c.modules \in [Module -> Seq(Listener)]
  BY DEF Config
<1>2. ASSUME NEW l \in Listener PROVE Equip(l) \in Listener
  BY <1>1 DEF Listener
<1>3. ASSUME NEW m \in Module PROVE New[m] \in Seq(Listener)
  <2>1. c.modules[m] \in Seq(Listener)
    BY <1>1
  <2>2. \A i \in 1..Len(c.modules[m]) : Equip(c.modules[m][i]) \in Listener
    BY <1>2, <2>1
  <2> HIDE DEF Equip
  <2> QED
    BY <2>1, <2>2
<1>4. New \in [Module -> Seq(Listener)]
  BY <1>3
<1>5. WithSsl(c) = [c EXCEPT !.modules = New]
  BY DEF WithSsl
<1> HIDE DEF New
<1> QED
  BY <1>4, <1>5 DEF Config

LEMMA PreparedType == ASSUME NEW c \in Config PROVE Prepared(c) \in Config
<1>1. \A m \in Module : c.modules[m] \in Seq(Listener)
  BY DEF Config
<1>2. \A m \in Module : LocalFirst(c.modules[m]) \in Seq(Listener)
  BY <1>1, LocalFirstType
<1> QED
  BY <1>1, <1>2 DEF Prepared, Config

LEMMA ResolvedType ==
    ASSUME NEW doc \in Document \cup {None}, NEW fs \in FlagSet, NEW fl
    PROVE  Resolved(fl, doc, fs) \in Config
BY LoadedType, LayeredType, WithSslType, PreparedType DEF Resolved

-----------------------------------------------------------------------------
\* A configuration that logoscore resolved is what it resolves again from
\* the file it is written to.

LEMMA PreparedStays ==
    ASSUME NEW c \in Config PROVE Prepared(Prepared(c)) = Prepared(c)
<1> DEFINE p == Prepared(c)
<1>1. p \in Config
  BY PreparedType
<1>2. ASSUME NEW m \in Module
      PROVE  Prepared(p).modules[m] = p.modules[m]
  <2>1. c.modules[m] \in Seq(Listener) /\ p.modules[m] \in Seq(Listener)
    BY <1>1 DEF Config
  <2>2. p.modules[m] = IF m \in WellKnown \/ c.modules[m] # <<>>
                       THEN LocalFirst(c.modules[m]) ELSE <<>>
    BY DEF Prepared, Config
  <2>3. Prepared(p).modules[m] = IF m \in WellKnown \/ p.modules[m] # <<>>
                                 THEN LocalFirst(p.modules[m]) ELSE <<>>
    BY <1>1 DEF Prepared, Config
  <2>4. CASE m \in WellKnown \/ c.modules[m] # <<>>
    <3>1. /\ p.modules[m] = LocalFirst(c.modules[m])
          /\ p.modules[m] # <<>> /\ IsLocal(p.modules[m][1])
      BY <2>1, <2>2, <2>4, LocalFirstType
    <3>2. LocalFirst(p.modules[m]) = p.modules[m]
      BY <2>1, <3>1, LocalFirstStays
    <3> QED
      BY <2>3, <3>1, <3>2
  <2>5. CASE ~(m \in WellKnown \/ c.modules[m] # <<>>)
    BY <2>2, <2>3, <2>5
  <2> QED
    BY <2>4, <2>5
<1>3. Prepared(p).modules = p.modules
  BY <1>1, <1>2, PreparedType DEF Config
<1>4. Prepared(p) = [p EXCEPT !.modules = Prepared(p).modules]
  BY <1>1 DEF Prepared, Config
<1> HIDE DEF p
<1>5. Prepared(p) = p
  BY <1>1, <1>3, <1>4 DEF Config
<1> QED
  BY <1>5 DEF p

LEMMA WrittenIsDocument ==
    ASSUME NEW c \in Config PROVE Written(c) \in Document /\ Written(c) # None
<1>1. Written(c) \in Document
  BY DEF Written, Document
<1> QED
  BY <1>1, NoneAssumption

LEMMA NoFlagsLayer ==
    ASSUME NEW c \in Config PROVE Layered(c, NoFlags) = c
BY DEF Layered, NoFlags, Config

\* Both spellings of the data directory have been reconciled.
LEMMA DirsReconciled ==
    ASSUME NEW doc \in Document \cup {None}, NEW fs \in FlagSet
    PROVE  LET c == Layered(Loaded(doc), fs) IN
           c \in Config /\ (c.data = "" => c.persistence = "")
<1>1. Loaded(doc) \in Config
  BY LoadedType
<1>2. Loaded(doc).data = "" => Loaded(doc).persistence = ""
  <2>1. doc # None => doc.cfg \in Config
    BY DEF Document
  <2> QED
    BY <2>1 DEF Loaded, FromJson, Defaults, Config
<1> QED
  BY <1>1, <1>2, LayeredType DEF Layered, Config

LEMMA ResolvedStays ==
    ASSUME NEW doc \in Document \cup {None}, NEW fs \in FlagSet
    PROVE  LET c == Resolved("legacy", doc, fs) IN
           Resolved("legacy", Written(c), NoFlags) = c
<1> DEFINE l == Layered(Loaded(doc), fs)
           c == Resolved("legacy", doc, fs)
<1>1. l \in Config /\ (l.data = "" => l.persistence = "")
  BY DirsReconciled
<1>2. c = Prepared(l)
  BY DEF Resolved
<1> HIDE DEF l, c
<1>3. c \in Config /\ (c.data = "" => c.persistence = "")
  <2>1. c.data = l.data /\ c.persistence = l.persistence
    BY <1>1, <1>2 DEF Prepared, Config
  <2> QED
    BY <1>1, <1>2, <2>1, PreparedType
<1>4. Loaded(Written(c)) = c
  <2>1. Loaded(Written(c)) = FromJson(c)
    BY <1>3, WrittenIsDocument DEF Loaded, Written
  <2>2. FromJson(c) = c
    BY <1>3 DEF FromJson, Config
  <2> QED
    BY <2>1, <2>2
<1>5. Resolved("legacy", Written(c), NoFlags) = Prepared(c)
  BY <1>3, <1>4, NoFlagsLayer DEF Resolved
<1> QED
  BY <1>1, <1>2, <1>5, PreparedStays DEF c

-----------------------------------------------------------------------------
\* Types of the variables.

Steps == Stopped \cup WellKnown \cup Equipped

Setting == {"embedded", "user", "keyring", "policy"}

Manager == [up : BOOLEAN, settings : SUBSET Setting, todo : Seq(Setting),
            lost : SUBSET Setting, original : BOOLEAN, kept : BOOLEAN]

TypeOK ==
    /\ flavor \in Flavors
    /\ daemonFile \in Document \cup {None}
    /\ pc \in Steps
    /\ flags \in FlagSet \cup {NoFlags} /\ (flavor = "modern" => flags = NoFlags)
    /\ cfg \in Config
    /\ bound \in [WellKnown -> Seq(Listener)]
    /\ manager \in Manager

LEMMA NoFlagsIsFlagSet == NoFlags \in FlagSet
BY DEF NoFlags, FlagSet

\* A listener with a port put in is a listener.
LEMMA PortPut ==
    ASSUME NEW l \in Listener, NEW p \in Port
    PROVE  LET b == [l EXCEPT !.port = p] IN
           /\ b \in Listener /\ ~Automatic(b)
           /\ b.protocol = l.protocol /\ b.host = l.host /\ b.tls = l.tls
BY PortAssumption DEF Listener, Automatic

\* A listener as configured, but for a port the kernel picked.
FromConfig(l, of) ==
    l.protocol = of.protocol /\ l.host = of.host /\ l.tls = of.tls /\ ~Automatic(l)

\* The listeners buildTransportSet makes.
LEMMA Ported ==
    ASSUME NEW ls \in Seq(Listener), NEW ports \in [DOMAIN ls -> Port]
    PROVE  LET new == [i \in DOMAIN ls |->
                          IF Automatic(ls[i]) THEN [ls[i] EXCEPT !.port = ports[i]] ELSE ls[i]]
           IN  /\ new \in Seq(Listener)
               /\ \A i \in DOMAIN new : i \in DOMAIN ls /\ FromConfig(new[i], ls[i])
<1> DEFINE New(i) == IF Automatic(ls[i]) THEN [ls[i] EXCEPT !.port = ports[i]] ELSE ls[i]
<1>1. \A i \in 1..Len(ls) : ls[i] \in Listener /\ ports[i] \in Port
  OBVIOUS
<1>2. \A i \in 1..Len(ls) : New(i) \in Listener /\ FromConfig(New(i), ls[i])
  BY <1>1, PortPut DEF FromConfig
<1> HIDE DEF New
<1>3. [i \in 1..Len(ls) |-> New(i)] \in Seq(Listener)
  BY <1>2
<1>4. DOMAIN ls = 1..Len(ls)
  OBVIOUS
<1>5. /\ [i \in DOMAIN ls |-> New(i)] \in Seq(Listener)
      /\ \A i \in DOMAIN [j \in DOMAIN ls |-> New(j)] :
            i \in DOMAIN ls /\ FromConfig([j \in DOMAIN ls |-> New(j)][i], ls[i])
  BY <1>2, <1>3, <1>4
<1> QED
  BY <1>5 DEF New

LEMMA NoManagerType == NoManager \in Manager
<1>1. {} \in SUBSET Setting /\ <<>> \in Seq(Setting)
  OBVIOUS
<1> QED
  BY <1>1 DEF NoManager, Manager

LEMMA SettingsType == Settings \in Seq(Setting)
<1>1. /\ <<"embedded", "user", "keyring">> \in Seq(Setting)
      /\ <<"policy">> \in Seq(Setting) /\ <<>> \in Seq(Setting)
  BY DEF Setting
<1>2. (IF cfg.policy # "" THEN <<"policy">> ELSE <<>>) \in Seq(Setting)
  BY <1>1, Zenon
<1> QED
  BY <1>1, <1>2, ConcatProperties DEF Settings

LEMMA AppendedSeq ==
    ASSUME NEW S, NEW s \in Seq(S), NEW t \in Seq(S), t # <<>>
    PROVE  \E i \in DOMAIN (s \o t) : (s \o t)[i] = t[1]
<1>1. Len(t) >= 1 /\ Len(s) \in Nat /\ s \o t \in Seq(S) /\ Len(s \o t) = Len(s) + Len(t)
  OBVIOUS
<1>2. (s \o t)[Len(s) + 1] = t[1] /\ Len(s) + 1 \in DOMAIN (s \o t)
  BY <1>1
<1> QED
  BY <1>2

LEMMA PolicyAmongSettings ==
    cfg.policy # "" => \E i \in DOMAIN Settings : Settings[i] = "policy"
<1> DEFINE dirs == <<"embedded", "user", "keyring">>
           last == <<"policy">>
<1>1. dirs \in Seq(Setting) /\ last \in Seq(Setting)
  BY DEF Setting
<1>2. last # <<>> /\ last[1] = "policy"
  OBVIOUS
<1> HIDE DEF dirs, last
<1>3. \E i \in DOMAIN (dirs \o last) : (dirs \o last)[i] = "policy"
  BY <1>1, <1>2, AppendedSeq
<1>4. cfg.policy # "" => Settings = dirs \o last
  BY DEF Settings, dirs, last
<1> QED
  BY <1>3, <1>4

LEMMA TypeInit == Init => TypeOK
<1> SUFFICES ASSUME Init PROVE TypeOK
  OBVIOUS
<1>1. Defaults \in Config
  BY LoadedType DEF Loaded
<1>2. [m \in WellKnown |-> <<>>] \in [WellKnown -> Seq(Listener)]
  OBVIOUS
<1> QED
  BY <1>1, <1>2, NoManagerType DEF Init, TypeOK, Steps, Stopped

LEMMA TypeStep == TypeOK /\ [Next]_vars => TypeOK'
<1> SUFFICES ASSUME TypeOK, [Next]_vars PROVE TypeOK'
  OBVIOUS
<1> USE DEF TypeOK, Steps, Stopped, Equipped, files, session
<1>1. CASE UNCHANGED vars
  BY <1>1 DEF vars
<1>2. ASSUME NEW doc \in Documents, Edit(doc) PROVE TypeOK'
  BY <1>2, DocumentsAssumption DEF Edit
<1>3. ASSUME NEW doc \in Documents, ConfigSet(doc) PROVE TypeOK'
  BY <1>2, <1>3 DEF ConfigSet
<1>4. CASE ClientSet
  BY <1>4 DEF ClientSet
<1>5. ASSUME NEW p \in Port, TakePort(p) \/ FreePort(p) PROVE TypeOK'
  BY <1>5 DEF TakePort, FreePort
<1>6. CASE Client
  BY <1>6 DEF Client, ClientReads, ClientTruncates, ClientWrites, ClientDies
<1>7. ASSUME NEW fs \in FlagSets, Launch(fs) PROVE TypeOK'
  <2>1. fs \in FlagSet
    BY FlagsAssumption
  <2>2. cfg' \in Config
    BY <1>7, <2>1, ResolvedType DEF Launch
  <2>3. bound' \in [WellKnown -> Seq(Listener)]
    BY <1>7 DEF Launch
  <2>4. pc' \in Steps
    BY <1>7 DEF Launch, WellKnown
  <2> QED
    BY <1>7, <2>1, <2>2, <2>3, <2>4 DEF Launch
<1>8. ASSUME NEW m \in WellKnown, NEW ports \in [DOMAIN cfg.modules[m] -> Port],
             BuildTransports(m, ports)
      PROVE  TypeOK'
  <2> DEFINE ls == cfg.modules[m]
             new == [i \in DOMAIN ls |-> IF Automatic(ls[i]) THEN [ls[i] EXCEPT !.port = ports[i]]
                                         ELSE ls[i]]
  <2>1. ls \in Seq(Listener)
    BY WellKnownAssumption DEF Config
  <2>2. new \in Seq(Listener)
    BY <2>1, Ported
  <2>3. bound' = [bound EXCEPT ![m] = new]
    BY <1>8 DEF BuildTransports
  <2> HIDE DEF new
  <2>4. pc' \in Steps
    BY <1>8 DEF BuildTransports, WellKnown
  <2> QED
    BY <1>8, <2>2, <2>3, <2>4 DEF BuildTransports
<1>9. CASE FailBoot
  BY <1>9, NoManagerType DEF FailBoot
<1>10. ASSUME NEW b \in BOOLEAN, LoadBundled(b) PROVE TypeOK'
  <2>1. manager' \in Manager
    BY <1>10, NoManagerType, SettingsType DEF LoadBundled, Manager
  <2> QED
    BY <1>10, <2>1 DEF LoadBundled
<1>11. ASSUME NEW b \in BOOLEAN, NEW a \in BOOLEAN, Configure(b, a) PROVE TypeOK'
  <2>1. Head(manager.todo) \in Setting /\ Tail(manager.todo) \in Seq(Setting)
    BY <1>11 DEF Configure, Manager
  <2>2. manager' \in Manager
    BY <1>11, <2>1 DEF Configure, Manager
  <2> QED
    BY <1>11, <2>2 DEF Configure
<1>12. CASE EndBootstrap \/ Publish \/ ReadArtifacts \/ WriteArtifacts
  <2>1. [manager EXCEPT !.kept = manager.up] \in Manager
    BY DEF Manager
  <2> QED
    BY <1>12, <2>1, NoManagerType DEF EndBootstrap, Publish, ReadArtifacts, WriteArtifacts
<1>13. CASE Persist
  BY <1>13, WrittenIsDocument DEF Persist
<1>14. CASE ManagerRestarts \/ ManagerDies
  <2>1. manager' \in Manager
    BY <1>14, NoManagerType DEF ManagerRestarts, ManagerDies, Manager
  <2> QED
    BY <1>14, <2>1 DEF ManagerRestarts, ManagerDies
<1>15. CASE Stop \/ Crash
  BY <1>15, NoManagerType DEF Stop, Crash
<1> QED
  BY <1>1, <1>2, <1>3, <1>4, <1>5, <1>6, <1>7, <1>8, <1>9, <1>10, <1>11, <1>12, <1>13,
     <1>14, <1>15 DEF Next, Operator, Daemon

-----------------------------------------------------------------------------
\* What a launch has established holds for as long as the daemon runs.

\* The guards were passed, and the listeners are those of the configuration.
Launched == pc \notin Stopped => MayBoot(flavor, cfg, flags)

BoundAsConfigured ==
    \A m \in WellKnown : \A i \in DOMAIN bound[m] :
        i \in DOMAIN cfg.modules[m] /\ FromConfig(bound[m][i], cfg.modules[m][i])

BootInv == TypeOK /\ Launched /\ BoundAsConfigured /\ NoPortZero

LEMMA BootInit == Init => BootInv
BY TypeInit DEF Init, BootInv, Launched, Stopped, BoundAsConfigured, NoPortZero

LEMMA BootStep == BootInv /\ [Next]_vars => BootInv'
<1> SUFFICES ASSUME BootInv, [Next]_vars PROVE BootInv'
  OBVIOUS
<1> USE DEF BootInv, files, session
<1>0. TypeOK'
  BY TypeStep
<1>1. CASE UNCHANGED <<pc, flavor, cfg, flags, bound, published>>
  BY <1>0, <1>1 DEF Launched, BoundAsConfigured, NoPortZero, TypeOK
<1>2. ASSUME NEW fs \in FlagSets, Launch(fs) PROVE BootInv'
  BY <1>0, <1>2 DEF Launch, Launched, BoundAsConfigured, NoPortZero, Stopped
<1>3. ASSUME NEW m \in WellKnown, NEW ports \in [DOMAIN cfg.modules[m] -> Port],
             BuildTransports(m, ports)
      PROVE  BootInv'
  <2> DEFINE ls == cfg.modules[m]
             new == [i \in DOMAIN ls |-> IF Automatic(ls[i]) THEN [ls[i] EXCEPT !.port = ports[i]]
                                         ELSE ls[i]]
  <2>1. ls \in Seq(Listener)
    BY WellKnownAssumption DEF TypeOK, Config
  <2>2. \A i \in DOMAIN new : i \in DOMAIN ls /\ FromConfig(new[i], ls[i])
    BY <2>1, Ported
  <2>3. bound' = [bound EXCEPT ![m] = new] /\ cfg' = cfg
    BY <1>3 DEF BuildTransports
  <2> HIDE DEF new
  <2>4. BoundAsConfigured'
    BY <2>2, <2>3 DEF BoundAsConfigured, TypeOK
  <2>5. Launched' /\ NoPortZero'
    BY <1>3 DEF BuildTransports, Launched, NoPortZero, Stopped, WellKnown, Automatic
  <2> QED
    BY <1>0, <2>4, <2>5
<1>4. CASE Publish
  <2>1. published' = bound /\ bound' = bound /\ cfg' = cfg
    BY <1>4 DEF Publish
  <2>2. NoPortZero'
    BY <2>1 DEF BoundAsConfigured, FromConfig, NoPortZero
  <2> QED
    BY <1>0, <1>4, <2>1, <2>2 DEF Publish, Launched, BoundAsConfigured, Stopped
<1>5. CASE Persist \/ ReadArtifacts \/ WriteArtifacts \/ EndBootstrap
  BY <1>0, <1>5 DEF Persist, ReadArtifacts, WriteArtifacts, EndBootstrap, Launched, BoundAsConfigured,
                    NoPortZero, Stopped
<1>6. CASE FailBoot \/ Stop \/ Crash
  BY <1>0, <1>6 DEF FailBoot, Stop, Crash, Launched, BoundAsConfigured, NoPortZero, Stopped
<1>7. ASSUME NEW b \in BOOLEAN, LoadBundled(b) PROVE BootInv'
  BY <1>0, <1>7 DEF LoadBundled, Launched, BoundAsConfigured, NoPortZero, Stopped
<1>8. CASE UNCHANGED vars \/ Operator \/ Client
  BY <1>1, <1>8 DEF vars, Operator, Client, Edit, ConfigSet, ClientSet, TakePort, FreePort,
                    ClientReads, ClientTruncates, ClientWrites, ClientDies
<1>9. CASE (\E b, a \in BOOLEAN : Configure(b, a)) \/ ManagerRestarts \/ ManagerDies
  BY <1>1, <1>9 DEF Configure, ManagerRestarts, ManagerDies
<1> QED
  BY <1>2, <1>3, <1>4, <1>5, <1>6, <1>7, <1>8, <1>9 DEF Next, Daemon

\* Whatever the documents and flags say, a daemon past its launch listens on
\* plaintext TCP off the loopback only with insecure_tcp, and one of logosctl's
\* has both the certificate and the key of each TLS listener.
THEOREM ListenersSound == Spec => []SoundListeners
<1>1. BootInv => SoundListeners
  <2> SUFFICES ASSUME BootInv, pc \in {"capability_module"} \cup Equipped,
                      NEW m \in WellKnown, NEW i \in DOMAIN bound[m]
               PROVE  /\ Plain(bound[m][i]) => cfg.insecure
                      /\ flavor = "modern" => ~Unequipped(bound[m][i])
    BY DEF SoundListeners
  <2> DEFINE l == cfg.modules[m][i]
  <2>1. i \in DOMAIN cfg.modules[m] /\ FromConfig(bound[m][i], l)
    BY DEF BootInv, BoundAsConfigured
  <2>2. l \in Listeners(cfg)
    BY <2>1, WellKnownAssumption DEF Listeners
  <2>3. MayBoot(flavor, cfg, flags)
    BY DEF BootInv, Launched, Stopped, Equipped
  <2> QED
    BY <2>1, <2>2, <2>3 DEF MayBoot, PlainRefused, Plain, Unequipped, FromConfig
<1> QED
  BY <1>1, BootInit, BootStep, PTL DEF Spec

\* Whatever fails to be allocated, state.json never advertises port 0.
THEOREM PortsKnown == Spec => []NoPortZero
<1>1. BootInv => NoPortZero
  BY DEF BootInv
<1> QED
  BY <1>1, BootInit, BootStep, PTL DEF Spec

-----------------------------------------------------------------------------
\* --persist-config.

\* The configuration is one that resolves to itself; the file a persist wrote
\* is untouched and would pass the guards; and so it did, if it was launched.
Reproducible(c) ==
    /\ MayBoot("legacy", c, NoFlags)
    /\ Resolved("legacy", Written(c), NoFlags) = c

PersistInv ==
    /\ BootInv
    /\ pc = "persisting" => flags.persist
    /\ pc \notin Stopped /\ flavor = "legacy" => Reproducible(cfg)
    /\ baked # None => flavor = "legacy" /\ daemonFile = Written(baked) /\ Reproducible(baked)
    /\ PersistReproduces

LEMMA LaunchReproducible ==
    ASSUME NEW doc \in Document \cup {None}, NEW fs \in FlagSet,
           MayBoot("legacy", Resolved("legacy", doc, fs), fs)
    PROVE  Reproducible(Resolved("legacy", doc, fs))
<1>1. FlagsAccepted(NoFlags)
  BY DEF FlagsAccepted, NoFlags
<1> QED
  BY <1>1, ResolvedStays DEF MayBoot, Reproducible

LEMMA PersistStep == PersistInv /\ [Next]_vars => PersistInv'
<1> SUFFICES ASSUME PersistInv, [Next]_vars PROVE PersistInv'
  OBVIOUS
<1> USE DEF files, session
<1>0. BootInv'
  BY BootStep DEF PersistInv
<1>1. CASE UNCHANGED <<pc, flavor, flags, cfg, baked, daemonFile>>
  BY <1>0, <1>1 DEF PersistInv, PersistReproduces
<1>2. ASSUME NEW fs \in FlagSets, Launch(fs) PROVE PersistInv'
  <2>1. fs \in FlagSet /\ daemonFile \in Document \cup {None}
    BY FlagsAssumption DEF PersistInv, BootInv, TypeOK
  <2>2. /\ cfg' = Resolved(flavor, daemonFile, fs) /\ flags' = fs
        /\ pc' = IF MayBoot(flavor, cfg', fs) THEN "core_service" ELSE "refused"
        /\ UNCHANGED <<flavor, daemonFile, baked>>
    BY <1>2 DEF Launch
  <2>3. pc' \notin Stopped' /\ flavor' = "legacy" => Reproducible(cfg')
    BY <2>1, <2>2, LaunchReproducible DEF Stopped
  <2>4. PersistReproduces'
    BY <2>2 DEF PersistReproduces, PersistInv, Reproducible
  <2> QED
    BY <1>0, <2>2, <2>3, <2>4 DEF PersistInv
<1>3. ASSUME pc' = "down" \/ (pc \notin Stopped /\ pc' \notin Stopped),
             pc' = "persisting" => flags.persist,
             UNCHANGED <<flavor, flags, cfg, baked, daemonFile>>
      PROVE  PersistInv'
  BY <1>0, <1>3 DEF PersistInv, PersistReproduces, Stopped
<1>4. CASE Persist
  <2>1. /\ pc = "persisting" /\ pc' = "artifacts"
        /\ \/ daemonFile' = Written(cfg) /\ baked' = cfg
           \/ UNCHANGED <<daemonFile, baked>>
        /\ UNCHANGED <<flavor, flags, cfg>>
    BY <1>4 DEF Persist
  <2>2. flags.persist /\ flags # NoFlags /\ flavor = "legacy"
    BY <2>1, FlavorsAssumption DEF PersistInv, BootInv, TypeOK, NoFlags
  <2>3. Reproducible(cfg)
    BY <2>1, <2>2 DEF PersistInv, Stopped
  <2> QED
    BY <1>0, <2>1, <2>2, <2>3 DEF PersistInv, PersistReproduces, Stopped
<1>5. ASSUME NEW doc \in Documents, Edit(doc) PROVE PersistInv'
  BY <1>0, <1>5 DEF Edit, PersistInv, PersistReproduces
<1>6. ASSUME NEW doc \in Documents, ConfigSet(doc) PROVE PersistInv'
  BY <1>5, <1>6 DEF ConfigSet
<1>7. CASE UNCHANGED vars \/ ClientSet \/ Client \/ \E p \in Port : TakePort(p) \/ FreePort(p)
  BY <1>1, <1>7 DEF vars, Client, ClientSet, TakePort, FreePort, ClientReads,
                    ClientTruncates, ClientWrites, ClientDies
<1>8. CASE (\E b, a \in BOOLEAN : Configure(b, a)) \/ ManagerRestarts \/ ManagerDies
  BY <1>1, <1>8 DEF Configure, ManagerRestarts, ManagerDies
<1>9. ASSUME NEW m \in WellKnown, NEW ports \in [DOMAIN cfg.modules[m] -> Port],
             BuildTransports(m, ports)
      PROVE  PersistInv'
  BY <1>3, <1>9 DEF BuildTransports, WellKnown, Stopped, Steps, Equipped
<1>10. ASSUME NEW b \in BOOLEAN, LoadBundled(b) PROVE PersistInv'
  BY <1>3, <1>10 DEF LoadBundled, Stopped, Steps, Equipped
<1>11. CASE \/ FailBoot \/ EndBootstrap \/ Publish \/ ReadArtifacts \/ WriteArtifacts
            \/ Stop \/ Crash
  BY <1>3, <1>11 DEF FailBoot, EndBootstrap, Publish, ReadArtifacts, WriteArtifacts, Stop,
                     Crash, Stopped, Steps, Equipped
<1> QED
  BY <1>2, <1>4, <1>5, <1>6, <1>7, <1>8, <1>9, <1>10, <1>11 DEF Next, Operator, Daemon

\* What --persist-config wrote, unedited, boots again without flags, as the
\* configuration that was persisted, whatever flags and file it came from.
THEOREM PersistedConfigReproduced == Spec => []PersistReproduces
<1>1. Init => PersistInv
  BY BootInit DEF Init, PersistInv, PersistReproduces, Stopped
<1>2. PersistInv => PersistReproduces
  BY DEF PersistInv
<1> QED
  BY <1>1, <1>2, PersistStep, PTL DEF Spec

-----------------------------------------------------------------------------
\* The signature policy.

PolicyComing == \E i \in DOMAIN manager.todo : manager.todo[i] = "policy"

PolicyInv ==
    /\ TypeOK
    /\ manager.up => pc \in {"settings", "publishing"} \cup Announced
    /\ pc = "settings" /\ manager.up /\ manager.original =>
          \/ cfg.policy = "" \/ "policy" \in manager.settings \cup manager.lost
          \/ PolicyComing
    /\ PolicyAsAdvertised

LEMMA PolicyStep == PolicyInv /\ [Next]_vars => PolicyInv'
<1> SUFFICES ASSUME PolicyInv, [Next]_vars PROVE PolicyInv'
  OBVIOUS
<1> USE DEF files, session
<1>0. TypeOK' /\ manager \in Manager
  BY TypeStep DEF PolicyInv, TypeOK
<1>1. CASE UNCHANGED <<pc, cfg, manager>>
  BY <1>0, <1>1 DEF PolicyInv, PolicyAsAdvertised, PolicyComing
<1>2. ASSUME manager'.up = FALSE PROVE PolicyInv'
  BY <1>0, <1>2 DEF PolicyInv, PolicyAsAdvertised
<1>3. ASSUME NEW fs \in FlagSets, Launch(fs) PROVE PolicyInv'
  <2>1. manager'.up = FALSE
    BY <1>0, <1>3 DEF Launch, PolicyInv, Stopped, Announced, Manager
  <2> QED
    BY <1>2, <2>1
<1>4. ASSUME NEW m \in WellKnown, NEW ports \in [DOMAIN cfg.modules[m] -> Port],
             BuildTransports(m, ports)
      PROVE  PolicyInv'
  <2>1. manager'.up = FALSE
    BY <1>0, <1>4 DEF BuildTransports, PolicyInv, WellKnown, Announced, Manager
  <2> QED
    BY <1>2, <2>1
<1>5. CASE FailBoot \/ Stop \/ Crash \/ ManagerDies
  <2>1. manager' = NoManager \/ manager' = [manager EXCEPT !.up = FALSE, !.settings = {}]
    BY <1>5 DEF FailBoot, Stop, Crash, ManagerDies
  <2>2. NoManager.up = FALSE
    BY DEF NoManager
  <2>3. [manager EXCEPT !.up = FALSE, !.settings = {}].up = FALSE
    BY <1>0 DEF Manager
  <2> QED
    BY <1>2, <2>1, <2>2, <2>3
<1>6. CASE LoadBundled(FALSE)
  BY <1>2, <1>6 DEF LoadBundled, NoManager
<1>7. CASE LoadBundled(TRUE)
  <2>1. pc' = "settings" /\ manager'.todo = Settings /\ cfg' = cfg
    BY <1>7 DEF LoadBundled, NoManager
  <2> QED
    BY <1>0, <2>1, PolicyAmongSettings DEF PolicyInv, PolicyComing, PolicyAsAdvertised, Announced
<1>8. ASSUME NEW b \in BOOLEAN, NEW a \in BOOLEAN, Configure(b, a) PROVE PolicyInv'
  <2>1. /\ pc = "settings" /\ manager.todo # <<>> /\ (a => b)
        /\ manager' = [manager EXCEPT
              !.todo = Tail(@),
              !.settings = IF b THEN @ \cup {Head(manager.todo)} ELSE @,
              !.lost = IF a THEN @ ELSE @ \cup {Head(manager.todo)}]
        /\ pc' = pc /\ cfg' = cfg
    BY <1>8 DEF Configure
  <2>2. PolicyComing => Head(manager.todo) = "policy" \/ PolicyComing'
    <3> SUFFICES ASSUME NEW i \in DOMAIN manager.todo, manager.todo[i] = "policy", i # 1
                 PROVE  PolicyComing'
      BY <1>0 DEF PolicyComing, Manager
    <3>1. i - 1 \in DOMAIN Tail(manager.todo) /\ Tail(manager.todo)[i - 1] = "policy"
      BY <1>0, <2>1 DEF Manager
    <3>2. manager'.todo = Tail(manager.todo)
      BY <1>0, <2>1 DEF Manager
    <3> QED
      BY <3>1, <3>2 DEF PolicyComing
  <2>3. /\ manager'.settings = IF b THEN manager.settings \cup {Head(manager.todo)}
                               ELSE manager.settings
        /\ manager'.lost = IF a THEN manager.lost ELSE manager.lost \cup {Head(manager.todo)}
        /\ manager'.up = manager.up /\ manager'.original = manager.original
    BY <1>0, <2>1 DEF Manager
  <2>4. "policy" \in manager.settings \cup manager.lost \/ PolicyComing
        => "policy" \in manager'.settings \cup manager'.lost \/ PolicyComing'
    BY <2>1, <2>2, <2>3
  <2> QED
    BY <1>0, <2>1, <2>3, <2>4 DEF PolicyInv, PolicyAsAdvertised, Announced
<1>9. CASE EndBootstrap
  <2>1. /\ pc = "settings" /\ manager.todo = <<>> /\ pc' = "publishing" /\ cfg' = cfg
    BY <1>9 DEF EndBootstrap
  <2>2. ~PolicyComing
    BY <2>1 DEF PolicyComing
  <2>3. CASE "policy" \notin manager.lost /\ manager' = manager
    BY <1>0, <2>1, <2>2, <2>3 DEF PolicyInv, PolicyAsAdvertised, Announced
  <2>4. CASE manager' = NoManager
    BY <1>2, <2>4 DEF NoManager
  <2>5. CASE manager' = [manager EXCEPT !.kept = manager.up]
    <3>1. manager'.kept = manager.up /\ manager'.up = manager.up
      BY <1>0, <2>5 DEF Manager
    <3> QED
      BY <1>0, <2>1, <3>1 DEF PolicyInv, PolicyAsAdvertised, Announced
  <2> QED
    BY <1>9, <2>3, <2>4, <2>5 DEF EndBootstrap
<1>10. CASE Publish \/ Persist \/ ReadArtifacts \/ WriteArtifacts
  <2>1. /\ pc \in {"publishing"} \cup Announced /\ pc' \in Announced
        /\ manager' = manager /\ cfg' = cfg
    BY <1>10 DEF Publish, Persist, ReadArtifacts, WriteArtifacts, Announced
  <2> QED
    BY <1>0, <2>1 DEF PolicyInv, PolicyAsAdvertised, Announced
<1>11. CASE ManagerRestarts
  <2>1. manager'.original = FALSE /\ pc' = "up"
    BY <1>11 DEF ManagerRestarts, NoManager
  <2> QED
    BY <1>0, <2>1 DEF PolicyInv, PolicyAsAdvertised, Announced
<1>12. CASE UNCHANGED vars \/ Operator \/ Client
  BY <1>1, <1>12 DEF vars, Operator, Client, Edit, ConfigSet, ClientSet, TakePort, FreePort,
                    ClientReads, ClientTruncates, ClientWrites, ClientDies
<1> QED
  BY <1>3, <1>4, <1>5, <1>6, <1>7, <1>8, <1>9, <1>10, <1>11, <1>12 DEF Next, Daemon

\* Whatever settings get lost on the way to it, the package_manager of a boot
\* enforces the policy that the session advertises, or is one that the core
\* refused to unload when the boot asked it to.
THEOREM PolicyEnforced == Spec => []PolicyAsAdvertised
<1>1. Init => PolicyInv
  BY TypeInit DEF Init, PolicyInv, NoManager, PolicyAsAdvertised, Announced
<1>2. PolicyInv => PolicyAsAdvertised
  BY DEF PolicyInv
<1> QED
  BY <1>1, <1>2, PolicyStep, PTL DEF Spec
=============================================================================
