----------------------------- MODULE DaemonBoot -----------------------------
(***************************************************************************)
(* One session directory and the configuration that passes through it:     *)
(* the operator writes, installs or persists daemon/config.*, a launch     *)
(* resolves it against its flags and guards it, the daemon turns it into   *)
(* listeners with real ports, hands package_manager its settings, and      *)
(* publishes what it resolved.  Client commands persist their dial spec in *)
(* the client file that every boot may refresh.                            *)
(*                                                                         *)
(* Who owns the session, and its tokens, are DaemonSession and TokenStore. *)
(* Here one daemon runs at a time.                                         *)
(***************************************************************************)
EXTENDS SessionConfig

CONSTANTS
    Flavors,    \* the front ends in use: "modern" is logosctl, "legacy" logoscore
    Documents,  \* what an operator may put into daemon/config.*
    FlagSets,   \* the flags a logoscore daemon may be launched with
    Port,       \* TCP ports the kernel hands out
    MaxBoots    \* bounds the instance ids

ASSUME DocumentsAssumption == Documents \subseteq Document
ASSUME FlagsAssumption     == FlagSets \subseteq FlagSet
ASSUME PortAssumption      == Port \subseteq Nat \ {0}
ASSUME FlavorsAssumption   == Flavors \subseteq {"modern", "legacy"}
ASSUME NoneAssumption      == None \notin Document

VARIABLES
    flavor,     \* the front end this session is used with
    daemonFile, \* daemon/config.*: a document or None
    clientFile, \* client/config.*: [instance, dial] or None
    pc,         \* where the daemon is
    flags,      \* the flags of the last launch
    cfg,        \* the configuration that launch resolved
    bound,      \* the transport sets built from it, ports included
    published,  \* the `resolved.modules` of state.json, or None
    instance,   \* instance id of the last daemon
    taken,      \* ports other processes hold
    manager,    \* package_manager: [up, settings, todo, lost, original, kept]
    client,     \* a client command about to persist: its merged dial spec or None
    baked,      \* history: what the file's last writer, a persist, resolved, or None
    bakedDial   \* history: the dial spec a client command persisted last, or None

vars == <<flavor, daemonFile, clientFile, pc, flags, cfg, bound, published,
          instance, taken, manager, client, baked, bakedDial>>

files   == <<daemonFile, clientFile, baked, bakedDial>>
session == <<flavor, flags, cfg, instance>>

Automatic(l) == l.protocol # "local" /\ l.port = 0

Stopped == {"down", "refused"}
\* Past the transport sets; past the bootstrap of the package modules.
Equipped  == {"loading", "settings", "publishing", "persisting", "artifacts", "writing",
              "up"}
Announced == {"persisting", "artifacts", "writing", "up"}

NoManager == [up |-> FALSE, settings |-> {}, todo |-> <<>>, lost |-> {},
              original |-> FALSE, kept |-> FALSE]

Dial == {"local", "remote", "torn"}

Init == /\ flavor \in Flavors
        /\ daemonFile = None /\ clientFile = None /\ client = None
        /\ pc = "down" /\ flags = NoFlags /\ cfg = Defaults
        /\ bound = [m \in WellKnown |-> <<>>]
        /\ published = None /\ instance = 0 /\ taken = {}
        /\ manager = NoManager
        /\ baked = None /\ bakedDial = None

-----------------------------------------------------------------------------
\* The operator and other processes.

\* An editor: nothing checks what it saves.
Edit(doc) ==
    /\ daemonFile' = doc /\ baked' = None
    /\ UNCHANGED <<clientFile, pc, bound, published, taken, manager, client,
                   bakedDial, session>>

\* `daemon config set`: validate, write beside, rename; a failing write leaves
\* the old document.
ConfigSet(doc) ==
    /\ flavor = "modern" /\ Installable(doc)
    /\ Edit(doc)

\* `client config set` installs a dial spec of the operator's own.
ClientSet ==
    /\ flavor = "modern"
    /\ clientFile' = [instance |-> None, dial |-> "remote"]
    /\ bakedDial' = None
    /\ UNCHANGED <<daemonFile, pc, bound, published, taken, manager, client, baked,
                   session>>

TakePort(p) ==
    /\ taken' = taken \cup {p}
    /\ UNCHANGED <<pc, bound, published, manager, client, files, session>>

FreePort(p) ==
    /\ taken' = taken \ {p}
    /\ UNCHANGED <<pc, bound, published, manager, client, files, session>>

-----------------------------------------------------------------------------
\* A logoscore client command with --client-* flags and --persist-config: it
\* reads the file, layers its flags, and later truncates and writes the file.

ClientReads(dial) ==
    /\ flavor = "legacy" /\ client = None
    /\ client' = [instance |-> IF clientFile = None THEN None ELSE clientFile.instance,
                  dial |-> dial]
    /\ UNCHANGED <<pc, bound, published, taken, manager, files, session>>

ClientTruncates ==
    /\ client # None /\ clientFile # [instance |-> None, dial |-> "torn"]
    /\ clientFile' = [instance |-> None, dial |-> "torn"]
    /\ bakedDial' = None
    /\ UNCHANGED <<daemonFile, pc, bound, published, taken, manager, client, baked,
                   session>>

ClientWrites ==
    /\ client # None /\ clientFile = [instance |-> None, dial |-> "torn"]
    /\ clientFile' = client /\ bakedDial' = client.dial /\ client' = None
    /\ UNCHANGED <<daemonFile, pc, bound, published, taken, manager, baked, session>>

\* It may be killed in between.
ClientDies ==
    /\ client # None /\ client' = None
    /\ UNCHANGED <<pc, bound, published, taken, manager, files, session>>

-----------------------------------------------------------------------------
\* The daemon.

\* Read the file, layer the flags, prepare the listeners and guard them.
Launch(fs) ==
    LET c == Resolved(flavor, daemonFile, fs) IN
    /\ pc \in Stopped /\ instance < MaxBoots
    /\ flavor = "modern" => fs = NoFlags
    /\ flags' = fs /\ cfg' = c
    /\ bound' = [m \in WellKnown |-> <<>>]
    /\ IF MayBoot(flavor, c, fs)
       THEN pc' = "core_service" /\ instance' = instance + 1
       ELSE pc' = "refused" /\ UNCHANGED instance
    /\ UNCHANGED <<flavor, published, taken, manager, client, files>>

\* PortAllocator binds port 0 on a numeric address, notes what it got and
\* closes the probe: the next probe may get the same port.
Allocatable(l) == Automatic(l) => l.host # "localhost" /\ Port \ taken # {}

\* Slip: a failing allocation leaves port 0 and goes on.
BuildTransportsOrZero(m, ports) ==
    LET ls == cfg.modules[m] IN
    /\ pc = m
    /\ bound' = [bound EXCEPT ![m] =
          [i \in DOMAIN ls |-> IF Automatic(ls[i]) /\ Allocatable(ls[i])
                               THEN [ls[i] EXCEPT !.port = ports[i]] ELSE ls[i]]]
    /\ pc' = CASE m = "core_service"   -> "capability_module"
               [] flavor = "modern"    -> "loading"
               [] OTHER                -> "publishing"
    /\ UNCHANGED <<published, taken, manager, client, files, session>>

\* buildTransportSet for one of the two modules the daemon binds.
BuildTransports(m, ports) ==
    LET ls == cfg.modules[m] IN
    /\ pc = m /\ \A i \in DOMAIN ls : Allocatable(ls[i])
    /\ \A i \in DOMAIN ls : Automatic(ls[i]) => ports[i] \notin taken
    /\ bound' = [bound EXCEPT ![m] =
          [i \in DOMAIN ls |-> IF Automatic(ls[i]) THEN [ls[i] EXCEPT !.port = ports[i]]
                               ELSE ls[i]]]
    /\ pc' = CASE m = "core_service"   -> "capability_module"
               [] flavor = "modern"    -> "loading"
               [] OTHER                -> "publishing"
    /\ UNCHANGED <<published, taken, manager, client, files, session>>

\* A listener without a port ends the boot, as does a failing token or state file.
FailBoot ==
    /\ \/ pc \in WellKnown /\ \E i \in DOMAIN cfg.modules[pc] :
                                 ~Allocatable(cfg.modules[pc][i])
       \/ pc \in {"loading", "publishing"}
    /\ pc' = "down" /\ manager' = NoManager
    /\ UNCHANGED <<bound, published, taken, client, files, session>>

\* What the bootstrap tells package_manager, in this order.
Settings == <<"embedded", "user", "keyring">>
            \o (IF cfg.policy # "" THEN <<"policy">> ELSE <<>>)

LoadBundled(loaded) ==
    /\ pc = "loading"
    /\ manager' = IF loaded THEN [NoManager EXCEPT !.up = TRUE, !.original = TRUE,
                                                   !.todo = Settings]
                  ELSE NoManager
    /\ pc' = IF loaded THEN "settings" ELSE "publishing"
    /\ UNCHANGED <<bound, published, taken, client, files, session>>

\* One configuration call: it lands or not, and its answer arrives or not.
Configure(landed, answered) ==
    /\ pc = "settings" /\ manager.todo # <<>>
    /\ landed => manager.up
    /\ answered => landed
    /\ manager' = [manager EXCEPT
          !.todo = Tail(@),
          !.settings = IF landed THEN @ \cup {Head(manager.todo)} ELSE @,
          !.lost = IF answered THEN @ ELSE @ \cup {Head(manager.todo)}]
    /\ UNCHANGED <<pc, bound, published, taken, client, files, session>>

\* Slip: a lost policy is only warned about.
EndBootstrapAnyway ==
    /\ pc = "settings" /\ manager.todo = <<>> /\ pc' = "publishing"
    /\ UNCHANGED <<bound, published, taken, manager, client, files, session>>

\* A policy that did not arrive has package_manager unloaded, unless the core
\* refuses to: nobody looks at its answer.  A directory that did not arrive is
\* only warned about.
EndBootstrap ==
    /\ pc = "settings" /\ manager.todo = <<>>
    /\ \/ /\ "policy" \notin manager.lost
          /\ UNCHANGED manager
       \/ /\ "policy" \in manager.lost
          /\ manager' \in {NoManager, [manager EXCEPT !.kept = manager.up]}
    /\ pc' = "publishing"
    /\ UNCHANGED <<bound, published, taken, client, files, session>>

\* state.json: the listeners with their ports.
Publish ==
    /\ pc = "publishing"
    /\ published' = bound
    /\ pc' = IF flags.persist THEN "persisting" ELSE "artifacts"
    /\ UNCHANGED <<bound, taken, manager, client, files, session>>

\* Slip: the file gets the ports of this boot.
PersistBound ==
    /\ pc = "persisting" /\ pc' = "artifacts"
    /\ daemonFile' = Written([cfg EXCEPT !.modules =
          [m \in Module |-> IF m \in WellKnown THEN bound[m] ELSE @[m]]])
    /\ baked' = cfg
    /\ UNCHANGED <<clientFile, bound, published, taken, manager, client, bakedDial,
                   session>>

\* --persist-config writes what was resolved, not what was bound; a failing
\* write is a warning.
Persist ==
    /\ pc = "persisting" /\ pc' = "artifacts"
    /\ \/ daemonFile' = Written(cfg) /\ baked' = cfg
       \/ UNCHANGED <<daemonFile, baked>>
    /\ UNCHANGED <<clientFile, bound, published, taken, manager, client, bakedDial,
                   session>>

\* A client file that is absent or names another instance is regenerated.
ToRegenerate(found) == found = None \/ found.instance \notin {None, instance}

\* The daemon looks at the client file, and writes it later: a client command
\* may have been there in between.
ReadArtifacts ==
    /\ pc = "artifacts"
    /\ pc' = IF ToRegenerate(clientFile) THEN "writing" ELSE "up"
    /\ UNCHANGED <<bound, published, taken, manager, client, files, session>>

\* A failing write is a warning.
WriteArtifacts ==
    /\ pc = "writing" /\ pc' = "up"
    /\ clientFile' \in {[instance |-> instance, dial |-> "local"], clientFile}
    /\ UNCHANGED <<daemonFile, bound, published, taken, manager, client, baked,
                   bakedDial, session>>

\* `module load`, `module reload` and a crash of package_manager once the
\* daemon serves: a new process starts from the module's own defaults.
ManagerRestarts ==
    /\ pc = "up" /\ flavor = "modern"
    /\ manager' = [NoManager EXCEPT !.up = TRUE]
    /\ UNCHANGED <<pc, bound, published, taken, client, files, session>>

ManagerDies ==
    /\ manager.up
    /\ manager' = [manager EXCEPT !.up = FALSE, !.settings = {}]
    /\ UNCHANGED <<pc, bound, published, taken, client, files, session>>

\* A stop removes state.json, a crash leaves it.
Stop ==
    /\ pc = "up" /\ pc' = "down"
    /\ published' = None /\ manager' = NoManager
    /\ UNCHANGED <<bound, taken, client, files, session>>

Crash ==
    /\ pc \notin Stopped /\ pc' = "down" /\ manager' = NoManager
    /\ UNCHANGED <<bound, published, taken, client, files, session>>

Operator == \/ \E doc \in Documents : Edit(doc) \/ ConfigSet(doc)
            \/ ClientSet
            \/ \E p \in Port : TakePort(p) \/ FreePort(p)

Client == (\E d \in Dial \ {"torn"} : ClientReads(d)) \/ ClientTruncates \/ ClientWrites
          \/ ClientDies

Daemon ==
    \/ \E fs \in FlagSets : Launch(fs)
    \/ \E m \in WellKnown : \E ports \in [DOMAIN cfg.modules[m] -> Port] :
          BuildTransports(m, ports)
    \/ FailBoot
    \/ \E b \in BOOLEAN : LoadBundled(b) \/ \E a \in BOOLEAN : Configure(b, a)
    \/ EndBootstrap \/ Publish \/ Persist \/ ReadArtifacts \/ WriteArtifacts
    \/ ManagerRestarts \/ ManagerDies \/ Stop \/ Crash

Next == Operator \/ Client \/ Daemon

Spec == Init /\ [][Next]_vars
-----------------------------------------------------------------------------
\* Properties.

\* Wherever a listener was written down (the file, the ssl block, a flag), a
\* daemon that gets past its launch never binds plaintext TCP off the loopback
\* without insecure_tcp, and a logosctl one no TLS listener without both its
\* certificate and its key (main.cpp:869-906, main_legacy.cpp:656-675).
SoundListeners ==
    pc \in {"capability_module"} \cup Equipped =>
        \A m \in WellKnown : \A i \in DOMAIN bound[m] :
            /\ Plain(bound[m][i]) => cfg.insecure
            /\ flavor = "modern" => ~Unequipped(bound[m][i])

\* After a launch with --persist-config the next launch without flags is
\* accepted and resolves the same configuration, automatic ports included,
\* unless the file was edited since (docs/logoscore.md:65).
PersistReproduces ==
    flags = NoFlags /\ baked # None /\ pc # "down" => pc # "refused" /\ cfg = baked

\* What state.json advertises has a port: a failing allocation ends the boot
\* instead of publishing port 0 (daemon.cpp:170-173), although the file goes on
\* saying 0.
NoPortZero ==
    published # None => \A m \in WellKnown : \A i \in DOMAIN published[m] :
                            ~Automatic(published[m][i])

\* The package_manager a boot brought up enforces the signature policy the
\* session advertises, whichever of its settings got lost, or is one that the
\* core refused to unload (package_bootstrap.cpp:90-111).
PolicyAsAdvertised ==
    manager.up /\ manager.original /\ pc \in {"publishing"} \cup Announced =>
        cfg.policy = "" \/ "policy" \in manager.settings \/ manager.kept

\* "A manager that enforces less than the session advertises is worse than no
\* manager, so take it out of the session" (package_bootstrap.cpp:97-99).  Not
\* so when the core refuses: see the run that checks it.
FailsClosed ==
    manager.up /\ manager.original /\ pc \in {"publishing"} \cup Announced =>
        cfg.policy = "" \/ "policy" \in manager.settings

=============================================================================
