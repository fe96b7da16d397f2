----------------------------- MODULE PackageOps -----------------------------
(***************************************************************************)
(* Installing, upgrading and removing packages in a running daemon:        *)
(* package_ops::plan and package_ops::apply                                *)
(* (src/src/core_service/package_ops.cpp).  apply drives three external    *)
(* parties with synchronous calls: the package_manager module, which gates *)
(* every change behind one pending action that must be acknowledged and    *)
(* confirmed; the package_downloader module; and logos_core, which runs    *)
(* the modules.  Every call into the two package modules may be refused,   *)
(* or be carried out and its answer lost to the deadline.                  *)
(*                                                                         *)
(* The calls of apply block the daemon's event loop, so one operation runs *)
(* at a time and module commands come between operations; a module's own   *)
(* process may die at any moment.                                          *)
(***************************************************************************)
EXTENDS FiniteSets

CONSTANTS
    Package,    \* package names; a package is also the module it installs
    Needs,      \* the packages each package needs, transitively
    Requests,   \* the operations clients ask for
    Latest,     \* the version the catalog, or a local file, offers
    Old,        \* an earlier version
    None        \* not installed; no pending action; no name

Request == [kind : {"install", "upgrade", "remove"}, names : SUBSET Package,
            local : BOOLEAN,            \* from .lgx files
            withDeps : BOOLEAN, withDependents : BOOLEAN]

ASSUME NeedsAssumption ==
    /\ Needs \in [Package -> SUBSET Package]
    /\ \A p \in Package : \A q \in Needs[p] : Needs[q] \subseteq Needs[p]
ASSUME RequestsAssumption == Requests \subseteq Request
ASSUME VersionsAssumption == /\ Latest # Old /\ None \notin {Latest, Old}
                             /\ None \notin Package

VARIABLES
    disk,       \* the version of each package in the session's modules tree
    loaded,     \* the modules that run
    gate,       \* package_manager's pending action
    pc,         \* where apply is; "idle" between operations
    op,         \* the request it is applying, or applied last
    planned,    \* the packages its plan says will change
    toRestore,  \* affected_loaded: those of them that ran when it planned
    left,       \* the names it has yet to get past the gate
    got,        \* the package files it has yet to install
    reloaded,   \* the modules it reports as restarted
    status,     \* of the last operation
    refused     \* modules that did not stop when apply asked them to (history)

vars == <<disk, loaded, gate, pc, op, planned, toRestore, left, got,
          reloaded, status, refused>>

OnDisk == {p \in Package : disk[p] # None}

\* Every running module has what it needs running beside it.
Complete(running) == \A m \in running : Needs[m] \subseteq running

NeedsOf(names) == UNION {Needs[n] : n \in names}

-----------------------------------------------------------------------------
Init ==
    /\ disk \in [Package -> {None, Old, Latest}]
    /\ \A p \in OnDisk : Needs[p] \subseteq OnDisk
    /\ loaded \in SUBSET OnDisk /\ Complete(loaded)
    /\ gate = None
    /\ pc = "idle"
    /\ op = None
    /\ planned = {} /\ toRestore = {} /\ left = {} /\ got = {}
    /\ reloaded = {} /\ refused = {}
    /\ status = "none"

Goto(from, to) == pc = from /\ pc' = to

\* The `fail` lambda: no step of the operation is undone.
Fail(at) == Goto(at, "idle") /\ status' = "error"

JobVars == <<op, planned, toRestore, left>>

-----------------------------------------------------------------------------
(* plan                                                                    *)

\* resolveFlatDependents: what is installed and needs one of the names.
Dependents(names) == {q \in OnDisk : Needs[q] \cap names # {}}

\* removalSet.
Victims(r) == r.names \cup (IF r.withDependents THEN Dependents(r.names) ELSE {})

\* resolveClosure: dependencies already on disk are short-circuited; without
\* deps the result is filtered to what was named.
Resolved(r) ==
    r.names \cup (IF r.withDeps THEN NeedsOf(r.names) \ OnDisk ELSE {})

\* The plan's changes, without those whose action is "installed".
Changes(r) == IF r.kind = "remove" THEN Victims(r)
              ELSE IF r.local THEN r.names
              ELSE {p \in Resolved(r) : disk[p] # Latest}

Plan(r) ==
    /\ Goto("idle", "request")
    /\ r.kind = "remove" => r.names \subseteq OnDisk
    /\ op' = r
    /\ planned' = Changes(r)
    /\ toRestore' = Changes(r) \cap loaded
    /\ left' = r.names
    /\ got' = {} /\ reloaded' = {} /\ refused' = {}
    /\ status' = "running"
    /\ UNCHANGED <<disk, loaded, gate>>

-----------------------------------------------------------------------------
(* apply                                                                   *)

Slot(names) == [names |-> names, acked |-> FALSE]

\* The names one requestInstall, requestUpgrade or requestMultiUninstall is for.
Gated == IF op.kind = "remove" THEN {planned} ELSE {{n} : n \in left}

\* Slip: keeps asking while another action is pending, instead of failing.
RequestUntilFree ==
    /\ pc = "request"
    /\ \E names \in Gated :
         \/ gate = None /\ Goto("request", "ack") /\ gate' = Slot(names)
         \/ gate # None /\ UNCHANGED <<pc, gate>>
    /\ UNCHANGED <<status, disk, loaded, JobVars, got, reloaded, refused>>

\* openGate, or the batch request of a removal.  package_manager allows one
\* pending action at a time.
RequestGate ==
    /\ pc = "request"
    /\ \E names \in Gated :
         \/ /\ gate = None
            /\ Goto("request", "ack")
            /\ gate' = Slot(names)
            /\ UNCHANGED status
         \/ /\ Fail("request")
            /\ gate' \in {gate} \cup (IF gate = None THEN {Slot(names)} ELSE {})
    /\ UNCHANGED <<disk, loaded, JobVars, got, reloaded, refused>>

\* ackPendingAction.  A removal cancels the request when this fails; install
\* and upgrade leave that to package_manager's timer.
AckGate ==
    /\ pc = "ack"
    /\ \/ /\ gate # None
          /\ Goto("ack", "unload")
          /\ gate' = [gate EXCEPT !.acked = TRUE]
          /\ UNCHANGED status
       \/ /\ Fail("ack")
          /\ gate' \in {gate} \cup (IF gate # None THEN {[gate EXCEPT !.acked = TRUE]} ELSE {})
                              \cup (IF op.kind = "remove" THEN {None} ELSE {})
    /\ UNCHANGED <<disk, loaded, JobVars, got, reloaded, refused>>

\* logos_core_unload_module(m, with_dependents): what runs and needs m goes too.
WithDependents(mods) == mods \cup {m \in loaded : Needs[m] \cap mods # {}}

\* Any module may refuse to stop, and then what it needs stays up too.
Stoppable(mods) == {down \in SUBSET WithDependents(mods) : WithDependents(down) = down}

\* The unloads of mods, one after the other; what they return is not looked at.
Unload(mods, down) ==
    /\ loaded' = loaded \ down
    /\ refused' = mods \cap loaded'

ToStop == IF op.kind = "remove" THEN planned ELSE toRestore

\* Slip: stops the affected modules alone.
StopOnlyAffected ==
    /\ Goto("unload", "confirm")
    /\ \E down \in SUBSET ToStop : Unload(ToStop, down)
    /\ UNCHANGED <<disk, gate, JobVars, got, reloaded, status>>

\* Slip: goes straight on to the files.
StopNothing ==
    /\ Goto("unload", "confirm")
    /\ UNCHANGED <<disk, loaded, gate, JobVars, got, reloaded, status, refused>>

\* Whoever refuses: the operation goes on.
StopAffected ==
    /\ Goto("unload", "confirm")
    /\ \E down \in Stoppable(ToStop) : Unload(ToStop, down)
    /\ UNCHANGED <<disk, gate, JobVars, got, reloaded, status>>

\* What confirming does to the files: confirmUpgrade removes the old copy,
\* confirmMultiUninstall the victims, confirmInstall nothing.
Confirmed(names) ==
    [p \in Package |-> IF p \in names /\ op.kind # "install" THEN None ELSE disk[p]]

\* package_manager confirms only what has been acknowledged.
MayConfirm == pc = "confirm" /\ gate # None /\ gate.acked

\* Confirming fails, or is carried out unheard.  install and upgrade close the
\* gate (closeGate, which may fail too); a removal does not.
FailConfirm ==
    /\ Fail("confirm")
    /\ \/ UNCHANGED disk /\ gate' \in {gate} \cup (IF op.kind = "remove" THEN {} ELSE {None})
       \/ /\ MayConfirm
          /\ disk' = Confirmed(gate.names)
          /\ gate' = None
    /\ UNCHANGED <<loaded, JobVars, got, reloaded, refused>>

\* A local file is installed right behind its own gate; catalog packages are
\* fetched when every name is past it.
ConfirmChange ==
    /\ MayConfirm /\ op.kind # "remove"
    /\ disk' = Confirmed(gate.names)
    /\ gate' = None
    /\ left' = left \ gate.names
    /\ IF op.local
       THEN Goto("confirm", "install") /\ got' = gate.names
       ELSE Goto("confirm", IF left' = {} THEN "download" ELSE "request") /\ UNCHANGED got
    /\ UNCHANGED <<loaded, op, planned, toRestore, reloaded, status, refused>>

ConfirmRemoval ==
    /\ MayConfirm /\ op.kind = "remove"
    /\ Goto("confirm", "idle")
    /\ disk' = Confirmed(gate.names)
    /\ gate' = None
    /\ status' = "ok"
    /\ UNCHANGED <<loaded, JobVars, got, reloaded, refused>>

\* Slip: fetches the named packages and leaves their dependencies out.
FetchedNamed == {p \in op.names : disk[p] # Latest}

\* downloadResolvedDependencies: with deps it is told what is on disk by now;
\* without, it is told nothing, and its answer is not filtered to the names.
Fetched ==
    IF op.withDeps
    THEN {p \in op.names : disk[p] # Latest} \cup (NeedsOf(op.names) \ OnDisk)
    ELSE op.names \cup NeedsOf(op.names)

Download ==
    /\ \/ Goto("download", "install") /\ got' = Fetched /\ UNCHANGED status
       \/ Fail("download") /\ UNCHANGED got
    /\ UNCHANGED <<disk, loaded, gate, JobVars, reloaded, refused>>

\* Slip: installs what a package needs along with it.
InstallWithNeeds ==
    /\ pc = "install"
    /\ \E p \in got :
         /\ disk' = [q \in Package |-> IF q \in {p} \cup Needs[p] THEN Latest ELSE disk[q]]
         /\ got' = got \ {p} /\ UNCHANGED <<pc, status>>
    /\ UNCHANGED <<loaded, gate, JobVars, reloaded, refused>>

\* installPlugin.
InstallOne ==
    /\ \E p \in got :
         \/ /\ pc = "install"
            /\ disk' = [disk EXCEPT ![p] = Latest]
            /\ got' = got \ {p}
            /\ UNCHANGED <<pc, status>>
         \/ /\ Fail("install")
            /\ disk' \in {disk, [disk EXCEPT ![p] = Latest]}
            /\ UNCHANGED got
    /\ UNCHANGED <<loaded, gate, JobVars, reloaded, refused>>

AllInstalled ==
    /\ got = {}
    /\ Goto("install", IF left = {} THEN "restart" ELSE "request")
    /\ UNCHANGED <<disk, loaded, gate, JobVars, got, reloaded, status, refused>>

\* logos_core_load_module brings up a module and all it needs, or fails; one
\* that runs is left alone.
Loadable(m) == {m} \cup Needs[m] \subseteq OnDisk

\* logos_core_refresh_modules, then a load of every module in the restore set;
\* one that did not stop counts as restarted.
Restart ==
    /\ Goto("restart", "idle")
    /\ \E up \in SUBSET {m \in toRestore \ loaded : Loadable(m)} :
         /\ loaded' = loaded \cup up \cup NeedsOf(up)
         /\ reloaded' = toRestore \cap (loaded \cup up)
    /\ status' = "ok"
    /\ UNCHANGED <<disk, gate, JobVars, got, refused>>

-----------------------------------------------------------------------------
(* Around the operations.                                                  *)

\* package_manager cancels an action nobody acknowledged within 3 s.
AckTimeout ==
    /\ gate # None /\ ~gate.acked
    /\ gate' = None
    /\ UNCHANGED <<disk, loaded, pc, JobVars, got, reloaded, status, refused>>

\* CoreServiceImpl::loadModule and unloadModule, between operations.
LoadModule(m) ==
    /\ pc = "idle" /\ Loadable(m)
    /\ loaded' = loaded \cup {m} \cup Needs[m]
    /\ UNCHANGED <<disk, gate, pc, JobVars, got, reloaded, status, refused>>

UnloadModule(m) ==
    /\ pc = "idle"
    /\ \E down \in {{m}} \cup Stoppable({m}) : loaded' = loaded \ down
    /\ UNCHANGED <<disk, gate, pc, JobVars, got, reloaded, status, refused>>

\* A module's process dies.
ModuleDies(m) ==
    /\ m \in loaded
    /\ loaded' = loaded \ {m}
    /\ UNCHANGED <<disk, gate, pc, JobVars, got, reloaded, status, refused>>

-----------------------------------------------------------------------------
Step == \/ RequestGate \/ AckGate \/ StopAffected
        \/ ConfirmChange \/ ConfirmRemoval \/ FailConfirm
        \/ Download \/ InstallOne \/ AllInstalled \/ Restart

Next == \/ \E r \in Requests : Plan(r)
        \/ Step
        \/ AckTimeout
        \/ \E m \in Package : LoadModule(m) \/ UnloadModule(m) \/ ModuleDies(m)

Spec == Init /\ [][Next]_vars /\ WF_vars(Step)

-----------------------------------------------------------------------------
TypeOK ==
    /\ disk \in [Package -> {None, Old, Latest}]
    /\ loaded \subseteq Package
    /\ gate \in [names : SUBSET Package, acked : BOOLEAN] \cup {None}
    /\ pc \in {"idle", "request", "ack", "unload", "confirm", "download",
               "install", "restart"}
    /\ op \in Requests \cup {None}
    /\ pc # "idle" => op \in Requests
    /\ planned \subseteq Package /\ toRestore \subseteq planned
    /\ left \subseteq Package /\ got \subseteq Package
    /\ reloaded \subseteq toRestore /\ refused \subseteq Package
    /\ status \in {"none", "running", "ok", "error"}

\* The files of a package the plan changes are moved only once its module has
\* been stopped, or has been asked to and did not (the unloads of apply).
StoppedBeforeMoved ==
    [][\A p \in planned : disk'[p] # disk[p] => p \notin loaded \ refused]_vars

\* "Stop them before their files disappear" (package_ops.cpp:434).  Not so when
\* a module refuses: see the run that checks it.
NeverMovedUnderRunning ==
    [][\A p \in planned : disk'[p] # disk[p] => p \notin loaded]_vars

\* An operation touches the files of what its plan announced and of what its
\* client named, whatever fails or is lost on the way.
OnlyPlanned ==
    [][\A p \in Package : disk'[p] # disk[p] => p \in planned \cup op.names]_vars

\* No step of an operation leaves a module running without a module it needs,
\* if none was before the step, also when only some of the modules it asks stop:
\* dependents are stopped first and a restarted module comes up with its
\* dependencies.
NoneLeftBehind ==
    [][pc' # pc /\ Complete(loaded) => Complete(loaded')]_vars

\* An operation that reports ok did all of it: the named packages are on disk
\* with everything they need, or are gone with everything that needed them.
DoneAsAsked ==
    status = "ok" =>
        IF op.kind = "remove"
        THEN /\ op.names \cap OnDisk = {}
             /\ op.withDependents => Dependents(op.names) = {}
        ELSE /\ \A n \in op.names : disk[n] = Latest
             /\ op.withDeps /\ ~op.local => NeedsOf(op.names) \subseteq OnDisk

\* Every operation returns to its client, whatever the package modules answer.
Ends == pc # "idle" ~> pc = "idle"
=============================================================================
