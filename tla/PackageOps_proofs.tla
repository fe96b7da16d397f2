-------------------------- MODULE PackageOps_proofs --------------------------
(***************************************************************************)
(* Theorems about PackageOps for any packages, dependencies and requests.  *)
(***************************************************************************)
EXTENDS PackageOps, TLAPS

LEMMA NeedsInPackage == \A names \in SUBSET Package : NeedsOf(names) \subseteq Package
BY NeedsAssumption DEF NeedsOf

LEMMA RequestFields ==
    ASSUME NEW r \in Requests
    PROVE  /\ r.names \subseteq Package
           /\ r.kind \in {"install", "upgrade", "remove"}
           /\ r.local \in BOOLEAN /\ r.withDeps \in BOOLEAN
BY RequestsAssumption DEF Request

LEMMA ChangesInPackage == ASSUME NEW r \in Requests PROVE Changes(r) \subseteq Package
BY RequestFields, NeedsInPackage DEF Changes, Victims, Dependents, Resolved, OnDisk

-----------------------------------------------------------------------------
\* Every variable keeps its type under any step.
LEMMA TypeStep == TypeOK /\ [Next]_vars => TypeOK'
<1> SUFFICES ASSUME TypeOK, [Next]_vars PROVE TypeOK'
  OBVIOUS
<1> USE DEF TypeOK, Goto, Fail, JobVars
<1>1. ASSUME NEW r \in Requests, Plan(r) PROVE TypeOK'
  BY <1>1, RequestFields, ChangesInPackage DEF Plan
<1>2. CASE RequestGate
  <2>1. Gated \subseteq SUBSET Package
    BY <1>2 DEF RequestGate, Gated
  <2>2. \A names \in Gated : Slot(names) \in [names : SUBSET Package, acked : BOOLEAN]
    BY <2>1 DEF Slot
  <2>3. gate' \in [names : SUBSET Package, acked : BOOLEAN] \cup {None}
    BY <1>2, <2>2 DEF RequestGate
  <2> QED BY <1>2, <2>3 DEF RequestGate
<1>3. CASE AckGate
  BY <1>3 DEF AckGate
<1>4. CASE StopAffected
  BY <1>4 DEF StopAffected, Unload
<1>5. CASE FailConfirm
  BY <1>5 DEF FailConfirm, Confirmed
<1>6. CASE ConfirmChange
  <2>1. gate.names \subseteq Package /\ Confirmed(gate.names) \in [Package -> {None, Old, Latest}]
    BY <1>6 DEF ConfirmChange, MayConfirm, Confirmed
  <2> QED BY <1>6, <2>1 DEF ConfirmChange, MayConfirm
<1>7. CASE ConfirmRemoval
  BY <1>7 DEF ConfirmRemoval, Confirmed
<1>8. CASE Download
  <2>1. Fetched \subseteq Package
    BY <1>8, RequestFields, NeedsInPackage DEF Download, Fetched
  <2> QED BY <1>8, <2>1 DEF Download
<1>9. CASE InstallOne
  BY <1>9 DEF InstallOne
<1>10. CASE AllInstalled
  BY <1>10 DEF AllInstalled
<1>11. CASE Restart
  BY <1>11, NeedsInPackage DEF Restart
<1>12. CASE AckTimeout
  BY <1>12 DEF AckTimeout
<1>13. ASSUME NEW m \in Package, LoadModule(m) \/ UnloadModule(m) \/ ModuleDies(m)
       PROVE TypeOK'
  BY <1>13, NeedsAssumption DEF LoadModule, UnloadModule, ModuleDies
<1>14. CASE UNCHANGED vars
  BY <1>14 DEF vars
<1> QED BY <1>1, <1>2, <1>3, <1>4, <1>5, <1>6, <1>7, <1>8, <1>9, <1>10, <1>11,
           <1>12, <1>13, <1>14 DEF Next, Step

LEMMA TypeInit == Init => TypeOK
BY DEF Init, TypeOK, OnDisk

\* Every variable keeps its type, for any packages and requests.
THEOREM TypeCorrect == Spec => []TypeOK
BY TypeInit, TypeStep, PTL DEF Spec

-----------------------------------------------------------------------------
\* Why files move only under stopped modules: while an operation runs nothing
\* it planned to change starts, and from the unloading on none of it runs but
\* what refused to stop.
Quiet ==
    /\ pc # "idle" => planned \cap loaded \subseteq toRestore
    /\ pc \in {"confirm", "download", "install"} => planned \cap loaded \subseteq refused

LEMMA QuietStep == TypeOK /\ Quiet /\ [Next]_vars => Quiet'
<1> SUFFICES ASSUME TypeOK, Quiet, [Next]_vars PROVE Quiet'
  OBVIOUS
<1> USE DEF TypeOK, Quiet, Goto, Fail, JobVars
<1>1. ASSUME NEW r \in Requests, Plan(r) PROVE Quiet'
  BY <1>1 DEF Plan
<1>2. CASE RequestGate \/ AckGate
  BY <1>2 DEF RequestGate, AckGate
<1>3. CASE StopAffected
  BY <1>3 DEF StopAffected, Unload, ToStop
<1>4. CASE FailConfirm \/ ConfirmChange \/ ConfirmRemoval
  BY <1>4 DEF FailConfirm, ConfirmChange, ConfirmRemoval, MayConfirm
<1>5. CASE Download \/ InstallOne \/ AllInstalled \/ Restart
  BY <1>5 DEF Download, InstallOne, AllInstalled, Restart
<1>6. CASE AckTimeout
  BY <1>6 DEF AckTimeout
<1>7. ASSUME NEW m \in Package, LoadModule(m) \/ UnloadModule(m) \/ ModuleDies(m)
      PROVE Quiet'
  BY <1>7 DEF LoadModule, UnloadModule, ModuleDies
<1>8. CASE UNCHANGED vars
  BY <1>8 DEF vars
<1> QED BY <1>1, <1>2, <1>3, <1>4, <1>5, <1>6, <1>7, <1>8 DEF Next, Step

\* Whatever an action does to the files, it does at one of these places.
LEMMA WhereFilesMove ==
    [Next]_vars /\ disk' # disk =>
        /\ pc \in {"confirm", "install"}
        /\ FailConfirm \/ ConfirmChange \/ ConfirmRemoval \/ InstallOne
BY DEF Next, Step, vars, Goto, Fail, Plan, RequestGate, AckGate, StopAffected, FailConfirm,
       ConfirmChange, ConfirmRemoval, MayConfirm, Download, InstallOne, AllInstalled,
       Restart, AckTimeout, LoadModule, UnloadModule, ModuleDies

\* The files of a package an operation changes are moved only once its module
\* has been stopped, or has refused to stop when asked, however the calls of the
\* operation fail or get lost and whatever modules die.
THEOREM FilesMoveWhenStopped == Spec => StoppedBeforeMoved
<1>1. Init => TypeOK /\ Quiet
  BY TypeInit DEF Init, Quiet
<1>2. TypeOK /\ Quiet /\ [Next]_vars => TypeOK' /\ Quiet'
  BY TypeStep, QuietStep
<1>3. TypeOK /\ Quiet /\ [Next]_vars =>
        [\A p \in planned : disk'[p] # disk[p] => p \notin loaded \ refused]_vars
  BY WhereFilesMove DEF Quiet
<1> QED BY <1>1, <1>2, <1>3, PTL DEF Spec, StoppedBeforeMoved

-----------------------------------------------------------------------------
Announced == planned \cup op.names

\* Why an operation keeps to its plan: the pending action it confirms is its
\* own, and what it fetches was missing when it planned or is its own doing.
Scoped ==
    /\ pc # "idle" => left \subseteq op.names
    /\ pc \in {"ack", "unload", "confirm"} /\ gate # None => gate.names \subseteq Announced
    /\ pc # "idle" /\ op.kind # "remove" /\ ~op.local =>
          NeedsOf(op.names) \ OnDisk \subseteq Announced
    /\ pc = "download" => op.kind # "remove" /\ ~op.local
    /\ pc = "install" => got \subseteq Announced

\* Every request is for a local file, for a removal, or with dependencies.
NoRequestWithoutDeps ==
    \A r \in Requests : r.withDeps \/ r.local \/ r.kind = "remove"

LEMMA PlanScoped ==
    ASSUME TypeOK, NoRequestWithoutDeps, NEW r \in Requests, Plan(r)
    PROVE  Scoped'
<1> USE DEF Goto
<1>1. op' = r /\ planned' = Changes(r) /\ left' = r.names /\ pc' = "request" /\ disk' = disk
  BY DEF Plan
<1>2. r.kind # "remove" /\ ~r.local => NeedsOf(r.names) \ OnDisk \subseteq Changes(r)
  BY RequestFields, NeedsInPackage, VersionsAssumption
     DEF Changes, Resolved, OnDisk, NoRequestWithoutDeps
<1> QED BY <1>1, <1>2 DEF Scoped, Announced, OnDisk

LEMMA ScopedStep ==
    TypeOK /\ NoRequestWithoutDeps /\ Scoped /\ [Next]_vars => Scoped'
<1> SUFFICES ASSUME TypeOK, NoRequestWithoutDeps, Scoped, [Next]_vars PROVE Scoped'
  OBVIOUS
<1> USE DEF TypeOK, Scoped, Announced, Goto, Fail, JobVars
<1>1. ASSUME NEW r \in Requests, Plan(r) PROVE Scoped'
  BY <1>1, PlanScoped
<1>2. CASE RequestGate
  <2>1. \A names \in Gated : names \subseteq Announced /\ Slot(names).names = names
    BY <1>2 DEF RequestGate, Gated, Slot
  <2>2. pc' = "ack" => gate'.names \subseteq Announced
    BY <1>2, <2>1 DEF RequestGate
  <2> QED BY <1>2, <2>2 DEF RequestGate, OnDisk
<1>3. CASE AckGate
  BY <1>3 DEF AckGate, OnDisk
<1>4. CASE StopAffected
  BY <1>4 DEF StopAffected, OnDisk
<1>5. CASE FailConfirm \/ ConfirmRemoval
  BY <1>5 DEF FailConfirm, ConfirmRemoval, MayConfirm
<1>6. CASE ConfirmChange
  <2>1. OnDisk \ OnDisk' \subseteq gate.names
    BY <1>6 DEF ConfirmChange, Confirmed, OnDisk
  <2>2. gate.names \subseteq Announced /\ Announced' = Announced
    BY <1>6 DEF ConfirmChange, MayConfirm
  <2> QED BY <1>6, <2>1, <2>2 DEF ConfirmChange, MayConfirm
<1>7. CASE Download
  <2>1. pc = "download" /\ op \in Requests
    BY <1>7 DEF Download
  <2>2. op.withDeps /\ NeedsOf(op.names) \ OnDisk \subseteq Announced
    BY <2>1 DEF NoRequestWithoutDeps
  <2>3. Fetched \subseteq Announced
    BY <2>2 DEF Fetched
  <2> QED BY <1>7, <2>3 DEF Download, OnDisk
<1>8. CASE InstallOne
  <2>1. OnDisk \subseteq OnDisk'
    BY <1>8, VersionsAssumption DEF InstallOne, OnDisk
  <2> QED BY <1>8, <2>1 DEF InstallOne
<1>9. CASE AllInstalled \/ Restart
  BY <1>9 DEF AllInstalled, Restart, OnDisk
<1>10. CASE AckTimeout
  BY <1>10 DEF AckTimeout, OnDisk
<1>11. ASSUME NEW m \in Package, LoadModule(m) \/ UnloadModule(m) \/ ModuleDies(m)
       PROVE Scoped'
  BY <1>11 DEF LoadModule, UnloadModule, ModuleDies, OnDisk
<1>12. CASE UNCHANGED vars
  BY <1>12 DEF vars, OnDisk
<1> QED BY <1>1, <1>2, <1>3, <1>4, <1>5, <1>6, <1>7, <1>8, <1>9, <1>10, <1>11, <1>12
        DEF Next, Step

\* An operation touches only the files of packages its plan announced or its
\* client named, as long as nobody asks to leave dependencies out.
THEOREM OperationsKeepToTheirPlan == NoRequestWithoutDeps => (Spec => OnlyPlanned)
<1> SUFFICES ASSUME NoRequestWithoutDeps PROVE Spec => OnlyPlanned
  OBVIOUS
<1>1. Init => TypeOK /\ Scoped
  BY TypeInit DEF Init, Scoped
<1>2. TypeOK /\ Scoped /\ [Next]_vars => TypeOK' /\ Scoped'
  BY TypeStep, ScopedStep
<1>3. TypeOK /\ Scoped /\ [Next]_vars =>
        [\A p \in Package : disk'[p] # disk[p] => p \in planned \cup op.names]_vars
  <2> SUFFICES ASSUME TypeOK, Scoped, [Next]_vars, NEW p \in Package, disk'[p] # disk[p]
               PROVE  p \in Announced
    BY DEF Announced
  <2> USE DEF TypeOK, Scoped, Goto, Fail
  <2>1. CASE FailConfirm \/ ConfirmChange \/ ConfirmRemoval
    BY <2>1 DEF FailConfirm, ConfirmChange, ConfirmRemoval, MayConfirm, Confirmed
  <2>2. CASE InstallOne
    BY <2>2 DEF InstallOne
  <2> QED BY <2>1, <2>2, WhereFilesMove
<1> QED BY <1>1, <1>2, <1>3, PTL DEF Spec, OnlyPlanned

-----------------------------------------------------------------------------
\* Of the steps of an operation only two change what runs.
LEMMA WhereModulesChange ==
    [Next]_vars /\ pc' # pc /\ loaded' # loaded => StopAffected \/ Restart
BY DEF Next, Step, vars, Goto, Fail, Plan, RequestGate, AckGate, FailConfirm,
       ConfirmChange, ConfirmRemoval, MayConfirm, Download, InstallOne, AllInstalled,
       AckTimeout, LoadModule, UnloadModule, ModuleDies

\* Stopping modules, each with its dependents, leaves nothing without what it
\* needs, also when only some of those asked to stop do.
LEMMA StoppingIsClosed ==
    ASSUME Complete(loaded), NEW mods, NEW down \in Stoppable(mods)
    PROVE  Complete(loaded \ down)
<1> SUFFICES ASSUME NEW m \in loaded \ down, NEW n \in Needs[m]
             PROVE  n \in loaded \ down
  BY DEF Complete
<1>1. n \in loaded
  BY DEF Complete
<1>2. WithDependents(down) = down
  BY DEF Stoppable
<1>3. Needs[m] \cap down = {}
  BY <1>2 DEF WithDependents
<1> QED BY <1>1, <1>3

\* Starting modules with all they need leaves nothing without it either.
LEMMA StartingIsClosed ==
    ASSUME loaded \subseteq Package, Complete(loaded), NEW up \in SUBSET Package
    PROVE  Complete(loaded \cup up \cup NeedsOf(up))
BY NeedsAssumption DEF Complete, NeedsOf

\* No step of an operation, for any dependencies between packages and whichever
\* modules refuse to stop, leaves a module running without one it needs: it stops
\* dependents along with what it stops and brings up dependencies along with what
\* it restarts.
THEOREM OperationsLeaveNoneBehind == Spec => NoneLeftBehind
<1>1. Init => TypeOK
  BY TypeInit
<1>2. TypeOK /\ [Next]_vars => TypeOK'
  BY TypeStep
<1>3. TypeOK /\ [Next]_vars =>
        [pc' # pc /\ Complete(loaded) => Complete(loaded')]_vars
  <2> SUFFICES ASSUME TypeOK, [Next]_vars, pc' # pc, Complete(loaded), loaded' # loaded
               PROVE  Complete(loaded')
    OBVIOUS
  <2>1. CASE StopAffected
    BY <2>1, StoppingIsClosed DEF StopAffected, Unload
  <2>2. CASE Restart
    <3>1. PICK up \in SUBSET (toRestore \ loaded) : loaded' = loaded \cup up \cup NeedsOf(up)
      BY <2>2 DEF Restart
    <3> QED BY <3>1, StartingIsClosed DEF TypeOK
  <2> QED BY <2>1, <2>2, WhereModulesChange
<1> QED BY <1>1, <1>2, <1>3, PTL DEF Spec, NoneLeftBehind

-----------------------------------------------------------------------------
(* Why an `ok` can be believed.                                            *)

\* A removal is past its plan, which names all it has to remove.
Removing ==
    pc \in {"request", "ack", "unload", "confirm"} /\ op.kind = "remove" =>
        /\ planned = Victims(op)
        /\ pc # "request" /\ gate # None => gate.names = planned

\* An install or upgrade asks for one name at a time.
OneByOne ==
    pc \in {"ack", "unload", "confirm"} /\ op.kind # "remove" /\ gate # None =>
        \E n \in left : gate.names = {n}

\* Of a local file the gate was opened for, the package is installed next.
LocalDone ==
    pc # "idle" /\ op.kind # "remove" /\ op.local =>
        \A n \in op.names \ left : disk[n] = Latest \/ (pc = "install" /\ n \in got)

\* What was not there when the catalog packages were fetched is being installed.
CatalogDone ==
    /\ pc = "download" => left = {} /\ ~op.local
    /\ pc \in {"install", "restart"} /\ ~op.local =>
          /\ left = {}
          /\ \A n \in op.names : disk[n] = Latest \/ n \in got
          /\ op.withDeps => NeedsOf(op.names) \subseteq OnDisk \cup got

\* The last step of an operation runs when nothing is left to do.
LastStep ==
    /\ pc \in {"download", "install", "restart"} => op.kind # "remove"
    /\ pc = "restart" => left = {} /\ got = {}
    /\ status = "ok" => pc = "idle"

DoneInv == Removing /\ OneByOne /\ LocalDone /\ CatalogDone /\ LastStep /\ DoneAsAsked

\* Nothing of it depends on which modules run.
LEMMA DoneFrame ==
    ASSUME DoneInv, UNCHANGED <<disk, pc, op, planned, left, got, status>>,
           gate' = gate \/ gate' = None
    PROVE  DoneInv'
BY DEF DoneInv, Removing, OneByOne, LocalDone, CatalogDone, LastStep, DoneAsAsked,
       OnDisk, Victims, Dependents

\* A step that ends with an error claims nothing.
LEMMA DoneFails ==
    ASSUME pc' = "idle", status' = "error"
    PROVE  DoneInv'
BY DEF DoneInv, Removing, OneByOne, LocalDone, CatalogDone, LastStep, DoneAsAsked

LEMMA DonePlan ==
    ASSUME TypeOK, DoneInv, NEW r \in Requests, Plan(r)
    PROVE  DoneInv'
<1>1. pc' = "request" /\ op' = r /\ planned' = Changes(r) /\ left' = r.names /\ disk' = disk
      /\ status' = "running"
  BY DEF Plan, Goto
<1>2. Removing'
  BY <1>1 DEF Removing, Changes, Victims, Dependents, OnDisk
<1> QED BY <1>1, <1>2 DEF DoneInv, OneByOne, LocalDone, CatalogDone, LastStep, DoneAsAsked

LEMMA DoneRequest ==
    ASSUME TypeOK, DoneInv, RequestGate
    PROVE  DoneInv'
<1> USE DEF Goto, Fail, JobVars
<1>1. PICK names \in Gated :
        \/ gate' = Slot(names) /\ pc = "request" /\ pc' = "ack" /\ UNCHANGED status
        \/ pc' = "idle" /\ status' = "error"
  BY DEF RequestGate
<1>2. UNCHANGED <<disk, op, planned, left, got>>
  BY DEF RequestGate
<1>3. CASE gate' = Slot(names) /\ pc = "request" /\ pc' = "ack" /\ UNCHANGED status
  <2>1. gate'.names = names
    BY <1>3 DEF Slot
  <2>2. Removing' /\ OneByOne'
    BY <1>1, <1>2, <1>3, <2>1 DEF DoneInv, Removing, OneByOne, Gated, Victims, Dependents, OnDisk
  <2> QED BY <1>2, <1>3, <2>2 DEF DoneInv, LocalDone, CatalogDone, LastStep, DoneAsAsked
<1> QED BY <1>1, <1>3, DoneFails

LEMMA DoneConfirm ==
    ASSUME TypeOK, DoneInv, ConfirmChange
    PROVE  DoneInv'
<1> USE DEF Goto, MayConfirm
<1>1. PICK n \in left : gate.names = {n}
  BY DEF ConfirmChange, DoneInv, OneByOne
<1>2. /\ pc = "confirm" /\ op.kind # "remove" /\ gate' = None
      /\ left' = left \ {n} /\ op' = op /\ planned' = planned /\ status' = status
  BY <1>1 DEF ConfirmChange
<1>3. \A p \in Package \ {n} : disk'[p] = disk[p]
  BY <1>1 DEF ConfirmChange, Confirmed, TypeOK
<1>4. op.names \subseteq Package /\ op.local \in BOOLEAN
  BY <1>2, RequestFields DEF TypeOK
<1>5. CASE op.local
  <2>1. pc' = "install" /\ got' = {n}
    BY <1>1, <1>5 DEF ConfirmChange
  <2>2. LocalDone'
    BY <1>2, <1>3, <1>4, <1>5, <2>1 DEF DoneInv, LocalDone
  <2> QED BY <1>2, <1>5, <2>1, <2>2 DEF DoneInv, Removing, OneByOne, CatalogDone, LastStep, DoneAsAsked
<1>6. CASE ~op.local
  <2>1. got' = got /\ pc' = IF left' = {} THEN "download" ELSE "request"
    BY <1>6 DEF ConfirmChange
  <2> QED BY <1>2, <1>6, <2>1 DEF DoneInv, Removing, OneByOne, LocalDone, CatalogDone, LastStep, DoneAsAsked
<1> QED BY <1>4, <1>5, <1>6

LEMMA DoneRemoval ==
    ASSUME TypeOK, DoneInv, ConfirmRemoval
    PROVE  DoneInv'
<1> USE DEF Goto, MayConfirm
<1>1. pc = "confirm" /\ op.kind = "remove" /\ gate.names = Victims(op) /\ op' = op
      /\ pc' = "idle" /\ status' = "ok" /\ op.names \subseteq Package
  BY RequestFields DEF ConfirmRemoval, JobVars, DoneInv, Removing, TypeOK
<1>2. OnDisk' = OnDisk \ Victims(op)
  BY <1>1, VersionsAssumption DEF ConfirmRemoval, Confirmed, OnDisk, TypeOK
<1>3. DoneAsAsked'
  BY <1>1, <1>2 DEF DoneAsAsked, Victims, Dependents
<1> QED BY <1>1, <1>3 DEF DoneInv, Removing, OneByOne, LocalDone, CatalogDone, LastStep

LEMMA DoneDownload ==
    ASSUME TypeOK, DoneInv, Download
    PROVE  DoneInv'
<1> USE DEF Goto, Fail, JobVars
<1>1. CASE pc' = "idle" /\ status' = "error"
  BY <1>1, DoneFails
<1>2. CASE pc = "download" /\ pc' = "install" /\ got' = Fetched /\ UNCHANGED status
  <2>1. UNCHANGED <<disk, op, left, planned>> /\ left = {} /\ ~op.local /\ op.kind # "remove"
    BY <1>2 DEF Download, DoneInv, CatalogDone, LastStep
  <2>2. /\ \A n \in op.names : disk[n] = Latest \/ n \in Fetched
        /\ op.withDeps => NeedsOf(op.names) \subseteq OnDisk \cup Fetched
    BY DEF Fetched
  <2>3. CatalogDone'
    BY <1>2, <2>1, <2>2 DEF CatalogDone, OnDisk
  <2> QED BY <1>2, <2>1, <2>3 DEF DoneInv, Removing, OneByOne, LocalDone, LastStep, DoneAsAsked
<1> QED BY <1>1, <1>2 DEF Download

LEMMA DoneInstall ==
    ASSUME TypeOK, DoneInv, InstallOne
    PROVE  DoneInv'
<1> USE DEF Goto, Fail, JobVars
<1>1. CASE pc' = "idle" /\ status' = "error"
  BY <1>1, DoneFails
<1>2. CASE \E p \in got : pc = "install" /\ disk' = [disk EXCEPT ![p] = Latest]
                          /\ got' = got \ {p} /\ UNCHANGED <<pc, status>>
  <2>1. PICK p \in got : pc = "install" /\ disk' = [disk EXCEPT ![p] = Latest]
                          /\ got' = got \ {p} /\ UNCHANGED <<pc, status>>
    BY <1>2
  <2>2. UNCHANGED <<op, left, planned>>
    BY DEF InstallOne
  <2>3. disk'[p] = Latest /\ \A q \in Package \ {p} : disk'[q] = disk[q]
    BY <2>1 DEF TypeOK
  <2>4. op.names \subseteq Package
    BY <2>1, RequestFields DEF TypeOK
  <2>5. OnDisk \cup got \subseteq OnDisk' \cup got'
    BY <2>1, <2>3, VersionsAssumption DEF OnDisk, TypeOK
  <2>6. LocalDone' /\ CatalogDone'
    BY <2>1, <2>2, <2>3, <2>4, <2>5 DEF DoneInv, LocalDone, CatalogDone
  <2> QED BY <2>1, <2>2, <2>6 DEF DoneInv, Removing, OneByOne, LastStep, DoneAsAsked
<1> QED BY <1>1, <1>2 DEF InstallOne

LEMMA DoneAllInstalled ==
    ASSUME TypeOK, DoneInv, AllInstalled
    PROVE  DoneInv'
<1>1. /\ pc = "install" /\ pc' = (IF left = {} THEN "restart" ELSE "request")
      /\ got = {} /\ UNCHANGED <<disk, op, planned, left, got, status, gate>>
      /\ op.kind # "remove"
  BY DEF AllInstalled, Goto, JobVars, DoneInv, LastStep
<1>2. LocalDone' /\ CatalogDone'
  BY <1>1 DEF DoneInv, LocalDone, CatalogDone, OnDisk
<1> QED BY <1>1, <1>2 DEF DoneInv, Removing, OneByOne, LastStep, DoneAsAsked

LEMMA DoneRestart ==
    ASSUME TypeOK, DoneInv, Restart
    PROVE  DoneInv'
<1>1. /\ pc = "restart" /\ pc' = "idle" /\ status' = "ok"
      /\ UNCHANGED <<disk, op, got, left>>
      /\ op.kind # "remove" /\ left = {} /\ got = {} /\ op.local \in BOOLEAN
  BY RequestFields DEF Restart, Goto, JobVars, DoneInv, LastStep, TypeOK
<1>2. /\ \A n \in op.names : disk[n] = Latest
      /\ op.withDeps /\ ~op.local => NeedsOf(op.names) \subseteq OnDisk
  BY <1>1 DEF DoneInv, LocalDone, CatalogDone
<1>3. DoneAsAsked'
  BY <1>1, <1>2 DEF DoneAsAsked, OnDisk
<1> QED BY <1>1, <1>3 DEF DoneInv, Removing, OneByOne, LocalDone, CatalogDone, LastStep

LEMMA DoneStep == TypeOK /\ DoneInv /\ [Next]_vars => DoneInv'
<1> SUFFICES ASSUME TypeOK, DoneInv, [Next]_vars PROVE DoneInv'
  OBVIOUS
<1> USE DEF Goto, Fail, JobVars
<1>1. CASE AckGate
  <2>1. CASE pc' = "idle" /\ status' = "error"
    BY <2>1, DoneFails
  <2>2. CASE /\ pc = "ack" /\ pc' = "unload" /\ UNCHANGED status /\ gate # None
             /\ gate' = [gate EXCEPT !.acked = TRUE]
    <3>1. gate'.names = gate.names /\ UNCHANGED <<disk, op, planned, left, got>>
      BY <1>1, <2>2 DEF AckGate, TypeOK
    <3> QED BY <2>2, <3>1 DEF DoneInv, Removing, OneByOne, LocalDone, CatalogDone, LastStep,
                              DoneAsAsked, OnDisk, Victims, Dependents
  <2> QED BY <1>1, <2>1, <2>2 DEF AckGate
<1>2. CASE StopAffected
  BY <1>2 DEF StopAffected, DoneInv, Removing, OneByOne, LocalDone, CatalogDone, LastStep,
              DoneAsAsked, OnDisk, Victims, Dependents
<1>3. CASE FailConfirm
  BY <1>3, DoneFails DEF FailConfirm
<1>4. CASE AckTimeout
  BY <1>4, DoneFrame DEF AckTimeout
<1>5. ASSUME NEW m \in Package, LoadModule(m) \/ UnloadModule(m) \/ ModuleDies(m)
      PROVE DoneInv'
  BY <1>5, DoneFrame DEF LoadModule, UnloadModule, ModuleDies
<1>6. CASE UNCHANGED vars
  BY <1>6, DoneFrame DEF vars
<1> QED BY <1>1, <1>2, <1>3, <1>4, <1>5, <1>6, DonePlan, DoneRequest, DoneConfirm, DoneRemoval,
           DoneDownload, DoneInstall, DoneAllInstalled, DoneRestart DEF Next, Step

\* What an operation reports as done is done, for any requests and dependencies
\* and whatever calls failed, got lost or were refused before: a removal's
\* packages and, when asked, their dependents are gone; an install's or
\* upgrade's are there in the offered version, with what they need.
THEOREM OkMeansDone == Spec => []DoneAsAsked
<1>1. Init => TypeOK /\ DoneInv
  BY TypeInit DEF Init, DoneInv, Removing, OneByOne, LocalDone, CatalogDone, LastStep, DoneAsAsked
<1>2. TypeOK /\ DoneInv /\ [Next]_vars => TypeOK' /\ DoneInv'
  BY TypeStep, DoneStep
<1>3. DoneInv => DoneAsAsked
  BY DEF DoneInv
<1> QED BY <1>1, <1>2, <1>3, PTL DEF Spec
=============================================================================
