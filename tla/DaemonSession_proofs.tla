------------------------ MODULE DaemonSession_proofs ------------------------
(***************************************************************************)
(* Theorems about DaemonSession for any set of daemons and pids.  The      *)
(* first two hold for every interleaving; the others are what the          *)
(* already-running check achieves when starts and stops do not overlap.    *)
(***************************************************************************)
EXTENDS DaemonSession, TLAPS

\* A step of the serial specification is a step of the unrestricted one.
LEMMA SerialNextIsNext == SerialNext => Next
BY DEF SerialNext, Next

-----------------------------------------------------------------------------
\* Every variable keeps its type under any step of any specification here.
LEMMA TypeStep == TypeOK /\ [Next]_vars => TypeOK'
<1> SUFFICES ASSUME TypeOK, [Next]_vars PROVE TypeOK'
  OBVIOUS
<1> USE DEF TypeOK, Status, Booting, Running, Gone, Goto
<1>1. ASSUME NEW d \in Daemon, Start(d) PROVE TypeOK'
  BY <1>1 DEF Start, LaunchForeground, LaunchDetached, Launch, RemoveStateFile
<1>2. ASSUME NEW d \in Daemon, Boot(d) PROVE TypeOK'
  <2>1. CASE Refuse(d) \/ PassCheck(d) \/ StartCore(d) \/ FailBoot(d)
    BY <2>1 DEF Refuse, PassCheck, StartCore, FailBoot
  <2>2. CASE IssueAutoToken(d) \/ WriteClientToken(d) \/ FailArtifacts(d)
    BY <2>2 DEF IssueAutoToken, WriteClientToken, FailArtifacts
  <2>3. CASE PublishState(d)
    BY <2>3 DEF PublishState, StateFile
  <2>4. CASE WriteDialSpec(d)
    <3>1. dialSpec' \in DialSpec \cup {None}
      BY <2>4 DEF WriteDialSpec, LeavesAlone, DialSpec
    <3> QED BY <2>4, <3>1 DEF WriteDialSpec
  <2>5. CASE ReadDialSpec(d)
    BY <2>5 DEF ReadDialSpec
  <2> QED BY <1>2, <2>1, <2>2, <2>3, <2>4, <2>5 DEF Boot
<1>3. ASSUME NEW d \in Daemon, Quit(d) \/ Unwind(d) \/ Crash(d) PROVE TypeOK'
  BY <1>3 DEF Quit, Unwind, Cleanup, Exit, Crash, Live, RemoveStateFile
<1>4. ASSUME NEW d \in Daemon, Parent(d) PROVE TypeOK'
  BY <1>4 DEF Parent, ParentSeesState, ParentSeesNoState
<1>5. CASE World
  <2>1. CASE RepointTokenFile
    <3>1. dialSpec' \in DialSpec \cup {None}
      BY <2>1 DEF RepointTokenFile, DialSpec
    <3> QED BY <2>1, <3>1 DEF RepointTokenFile
  <2>2. ASSUME NEW p \in Pid, ForeignProcess(p) PROVE TypeOK'
    BY <2>2 DEF ForeignProcess
  <2>3. CASE InstallDialSpec
    <3>1. dialSpec' \in DialSpec
      BY <2>3 DEF InstallDialSpec, DialSpec
    <3> QED BY <2>3, <3>1 DEF InstallDialSpec
  <2> QED BY <1>5, <2>1, <2>2, <2>3 DEF World
<1>6. CASE UNCHANGED vars
  BY <1>6 DEF vars
<1> QED BY <1>1, <1>2, <1>3, <1>4, <1>5, <1>6 DEF Next

\* Every variable keeps its type, whatever starts, stops and crashes do.
THEOREM TypeCorrect == Spec => []TypeOK
<1>1. Init => TypeOK
  BY DEF Init, TypeOK, Status, DialSpec
<1> QED BY <1>1, TypeStep, PTL DEF Spec

-----------------------------------------------------------------------------
\* However boots, stops and crashes interleave, state.json names a daemon that
\* published it and is up, or was killed: never one that stopped cleanly.
THEOREM StateFileTruthful == Spec => []StateNamesLiveOrCrashed
<1> DEFINE Inv == TypeOK /\ StateNamesLiveOrCrashed
<1>1. Init => Inv
  BY DEF Init, TypeOK, Status, DialSpec, StateNamesLiveOrCrashed
<1>2. Inv /\ [Next]_vars => Inv'
  <2> SUFFICES ASSUME TypeOK, StateNamesLiveOrCrashed, [Next]_vars
               PROVE  StateNamesLiveOrCrashed'
    BY TypeStep
  <2>1. stateFile = None \/ stateFile.inst \in Daemon
    BY DEF TypeOK, StateFile
  <2> USE DEF TypeOK, StateNamesLiveOrCrashed, Goto
  <2>2. ASSUME NEW d \in Daemon, Start(d) PROVE StateNamesLiveOrCrashed'
    BY <2>1, <2>2 DEF Start, LaunchForeground, LaunchDetached, Launch, RemoveStateFile
  <2>3. ASSUME NEW d \in Daemon, Boot(d) PROVE StateNamesLiveOrCrashed'
    <3>1. CASE PublishState(d)
      BY <3>1 DEF PublishState
    <3>2. CASE ReadDialSpec(d) \/ WriteDialSpec(d) \/ WriteClientToken(d) \/ FailArtifacts(d)
      BY <2>1, <3>2 DEF ReadDialSpec, WriteDialSpec, WriteClientToken, FailArtifacts
    <3>3. CASE Refuse(d) \/ PassCheck(d) \/ StartCore(d) \/ IssueAutoToken(d) \/ FailBoot(d)
      BY <2>1, <3>3 DEF Refuse, PassCheck, StartCore, IssueAutoToken, FailBoot
    <3> QED BY <2>3, <3>1, <3>2, <3>3 DEF Boot
  <2>4. ASSUME NEW d \in Daemon, Quit(d) \/ Unwind(d) \/ Crash(d)
        PROVE StateNamesLiveOrCrashed'
    <3>1. CASE Quit(d) \/ Exit(d)
      BY <3>1 DEF Quit, Exit, RemoveStateFile
    <3>2. CASE Cleanup(d) \/ Crash(d)
      BY <2>1, <3>2 DEF Cleanup, Crash
    <3> QED BY <2>4, <3>1, <3>2 DEF Unwind
  <2>5. CASE World \/ \E d \in Daemon : Parent(d)
    BY <2>5 DEF World, RepointTokenFile, InstallDialSpec, ForeignProcess, Parent,
                ParentSeesState, ParentSeesNoState
  <2>6. CASE UNCHANGED vars
    BY <2>6 DEF vars
  <2> QED BY <2>2, <2>3, <2>4, <2>5, <2>6 DEF Next
<1> QED BY <1>1, <1>2, PTL DEF Spec

-----------------------------------------------------------------------------
\* A dial spec without instance id is the operator's own: no daemon wrote its
\* token file, so none says "auto".
OperatorNames == dialSpec # None /\ dialSpec.inst = None => dialSpec.tokenFile = "named"

\* No daemon that looked at the file after an operator wrote it overwrites the
\* operator's dial spec, or takes back the token file the operator named, however
\* daemons boot, fail and crash; what is lost is lost to a daemon that had looked
\* before.
THEOREM OperatorsConfigStays == Spec => OperatorConfigKept
<1> DEFINE Inv == TypeOK /\ OperatorNames
           Kept == LosesOperatorsWork => \E d \in Daemon : WritesBlindly(d)
<1>1. Init => Inv
  BY DEF Init, TypeOK, Status, DialSpec, OperatorNames
<1>2. Inv /\ [Next]_vars => Inv' /\ Kept
  <2> SUFFICES ASSUME TypeOK, OperatorNames, [Next]_vars PROVE OperatorNames' /\ Kept
    BY TypeStep
  <2>1. /\ dialSpec # None => dialSpec \in DialSpec
        /\ \A d \in Daemon : seen[d] # None => seen[d] \in DialSpec
    BY DEF TypeOK
  <2>2. ASSUME NEW d \in Daemon, WriteDialSpec(d) PROVE OperatorNames' /\ Kept
    <3>1. \A t \in {"auto", "named"} : /\ [inst |-> d, tokenFile |-> t] \in DialSpec
                                       /\ [inst |-> d, tokenFile |-> t] # None
      BY NoneAssumption DEF DialSpec
    <3>2. pc[d] = "decided" /\ pc'[d] = "dialspec" /\ None # d
      BY <2>2, NoneAssumption DEF WriteDialSpec, Goto, TypeOK
    <3>3. CASE LeavesAlone(d, seen[d])
      BY <2>2, <3>3 DEF WriteDialSpec, OperatorNames, LosesOperatorsWork
    <3>4. CASE ~LeavesAlone(d, seen[d])
      <4>1. PICK t \in {"auto", "named"} :
               /\ dialSpec' = [inst |-> d, tokenFile |-> t]
               /\ t = IF seen[d] = None THEN "auto" ELSE seen[d].tokenFile
        BY <2>1, <2>2, <3>4 DEF WriteDialSpec, DialSpec
      <4>2. OperatorNames'
        BY <3>1, <3>2, <4>1 DEF OperatorNames
      <4>3. seen[d] = dialSpec => ~LosesOperatorsWork
        BY <3>1, <3>4, <4>1 DEF LeavesAlone, LosesOperatorsWork
      <4> QED BY <3>2, <4>2, <4>3 DEF WritesBlindly
    <3> QED BY <3>3, <3>4
  <2>3. CASE RepointTokenFile \/ InstallDialSpec
    <3>1. dialSpec' \in DialSpec /\ dialSpec' # None /\ dialSpec'.tokenFile = "named"
      BY <2>1, <2>3, NoneAssumption DEF RepointTokenFile, InstallDialSpec, DialSpec
    <3>2. dialSpec # None /\ dialSpec.inst = None => dialSpec' = dialSpec
      BY <2>1, <2>3 DEF RepointTokenFile, InstallDialSpec, OperatorNames, DialSpec
    <3> QED
      BY <3>1, <3>2 DEF OperatorNames, LosesOperatorsWork
  <2>4. CASE UNCHANGED dialSpec
    BY <2>4 DEF OperatorNames, LosesOperatorsWork
  <2>5. ASSUME NEW d \in Daemon,
               Start(d) \/ Boot(d) \/ Quit(d) \/ Unwind(d) \/ Crash(d) \/ Parent(d)
        PROVE  UNCHANGED dialSpec \/ WriteDialSpec(d)
    <3>1. CASE Start(d) \/ Quit(d) \/ Crash(d) \/ Parent(d) \/ Unwind(d)
      BY <3>1 DEF Start, LaunchForeground, LaunchDetached, Launch, Quit, Crash, Parent,
                  ParentSeesState, ParentSeesNoState, Unwind, Cleanup, Exit
    <3>2. CASE Boot(d)
      BY <3>2 DEF Boot, Refuse, PassCheck, StartCore, IssueAutoToken, PublishState,
                  FailBoot, ReadDialSpec, WriteClientToken, FailArtifacts
    <3> QED
      BY <2>5, <3>1, <3>2
  <2>6. CASE World \/ UNCHANGED vars
    BY <2>3, <2>4, <2>6 DEF World, ForeignProcess, vars
  <2> QED
    BY <2>2, <2>4, <2>5, <2>6 DEF Next
<1> QED
  BY <1>1, <1>2, PTL DEF Spec, OperatorConfigKept

-----------------------------------------------------------------------------
\* What a start changes: one that takes the state file away finds nobody in the
\* session.
LEMMA CarefulStart ==
    ASSUME TypeOK, DetachesAlone, NEW d \in Daemon, Settled(d), Start(d)
    PROVE  /\ pc[d] = "idle"
           /\ pc' = [pc EXCEPT ![d] = "checking"]
           /\ \E p \in Pid : pid' = [pid EXCEPT ![d] = p]
           /\ \/ stateFile' = stateFile
              \/ stateFile' = None /\ \A e \in Daemon : ~Owns(e)
           /\ UNCHANGED <<foreign, seen, autoToken, dialSpec, clientToken, warned>>
<1>1. CASE \E p \in Pid : LaunchForeground(d, p)
  BY <1>1 DEF LaunchForeground, Launch, Goto
<1>2. CASE \E p \in Pid : LaunchDetached(d, p)
  <2>1. /\ pc[d] = "idle" /\ pc' = [pc EXCEPT ![d] = "checking"]
        /\ \E p \in Pid : pid' = [pid EXCEPT ![d] = p]
        /\ stateFile' = None /\ parent' = [parent EXCEPT ![d] = "waiting"]
        /\ UNCHANGED <<foreign, seen, autoToken, dialSpec, clientToken, warned>>
    BY <1>2 DEF LaunchDetached, Launch, Goto, RemoveStateFile
  <2>2. parent[d] # "waiting" /\ parent'[d] = "waiting"
    BY <2>1 DEF Settled, TypeOK
  <2>3. \A e \in Daemon : pc[e] # "serving"
    BY <2>2 DEF DetachesAlone
  <2>4. \A e \in Daemon : ~Owns(e)
    BY <2>1, <2>3 DEF Settled, Owns, Booting, Running, Gone
  <2> QED BY <2>1, <2>4
<1> QED BY <1>1, <1>2 DEF Start

\* The already-running check cannot be passed while another daemon owns the
\* session: the owner is not busy, so it serves, and state.json names its pid.
LEMMA CheckExcludes ==
    ASSUME SerialInv, NEW d \in Daemon, PassCheck(d)
    PROVE  \A e \in Daemon : ~Owns(e)
<1> SUFFICES ASSUME NEW e \in Daemon, Owns(e) PROVE FALSE
  OBVIOUS
<1>1. pc[d] = "checking" /\ ~AnotherIsRunning
  BY DEF PassCheck, Goto
<1>2. d # e
  BY <1>1 DEF Owns, Booting, Running
<1>3. pc[e] = "serving"
  BY <1>1, <1>2 DEF SerialInv, OneBusy, Busy, Owns, Running
<1>4. stateFile = [inst |-> e, pid |-> pid[e]]
  BY <1>3 DEF SerialInv, StateNamesPublisher
<1>5. pid[e] \in Pid
  BY <1>3 DEF SerialInv, TypeOK
<1>6. stateFile # None /\ stateFile.pid = pid[e]
  BY <1>4, <1>5, NoneAssumption DEF StateFile
<1>7. ProcessAlive(stateFile.pid)
  BY <1>3, <1>6 DEF ProcessAlive, Live, Running
<1> QED BY <1>1, <1>6, <1>7 DEF AnotherIsRunning

LEMMA SerialInit == Init => SerialInv
<1> SUFFICES ASSUME Init PROVE SerialInv
  OBVIOUS
<1>1. TypeOK
  BY DEF Init, TypeOK, Status, DialSpec
<1> QED BY <1>1 DEF Init, SerialInv, SoleOwner, Owns, OneBusy, Busy,
                    StateNamesPublisher, NoStateWhileUnwinding, ArtifactsCurrent, Booting, Running

\* One careful step keeps the invariant.
LEMMA SerialStep ==
    ASSUME SerialInv, [SerialNext /\ DetachesAlone]_vars
    PROVE  SerialInv'
<1>1. TypeOK /\ TypeOK'
  BY SerialNextIsNext, TypeStep DEF SerialInv
<1> USE DEF Busy, Owns, Booting, Running, Goto
<1>2. ASSUME DetachesAlone, NEW d \in Daemon, Settled(d), Start(d) PROVE SerialInv'
  <2>1. /\ pc[d] = "idle"
        /\ pc' = [pc EXCEPT ![d] = "checking"]
        /\ \/ stateFile' = stateFile
           \/ stateFile' = None /\ \A e \in Daemon : ~Owns(e)
        /\ UNCHANGED <<seen, autoToken, dialSpec, clientToken, warned>>
    BY <1>1, <1>2, CarefulStart
  <2>2. \A e \in Daemon : e # d => pid'[e] = pid[e]
    BY <1>1, <1>2, CarefulStart DEF TypeOK
  <2>3. \A e \in Daemon : e # d => ~Busy(e)
    BY <1>2 DEF Settled, Gone
  <2> USE <1>1 DEF SerialInv, TypeOK
  <2>4. SoleOwner'
    BY <2>1 DEF SoleOwner
  <2>5. OneBusy'
    BY <2>1, <2>3 DEF OneBusy
  <2>6. StateNamesPublisher' /\ NoStateWhileUnwinding'
    BY <2>1, <2>2 DEF StateNamesPublisher, NoStateWhileUnwinding
  <2>7. ArtifactsCurrent'
    BY <2>1 DEF ArtifactsCurrent, LeavesAlone
  <2> QED BY <2>4, <2>5, <2>6, <2>7
<1>3. ASSUME NEW d \in Daemon, Settled(d), Quit(d) PROVE SerialInv'
  <2>1. \A e \in Daemon : e # d => ~Busy(e) /\ ~Owns(e)
    BY <1>3 DEF Settled, Gone, SerialInv, SoleOwner, Quit
  <2> USE <1>1, <1>3 DEF SerialInv, TypeOK, Quit
  <2>2. SoleOwner'
    BY DEF SoleOwner
  <2>3. OneBusy'
    BY <2>1 DEF OneBusy
  <2>4. StateNamesPublisher' /\ NoStateWhileUnwinding'
    BY <2>1 DEF StateNamesPublisher, NoStateWhileUnwinding, RemoveStateFile
  <2>5. ArtifactsCurrent'
    BY DEF ArtifactsCurrent
  <2> QED BY <2>2, <2>3, <2>4, <2>5
<1>4. ASSUME NEW d \in Daemon, Boot(d) PROVE SerialInv'
  <2>1. pc[d] \in {"checking"} \cup Booting /\ Busy(d)
    BY <1>4 DEF Boot, Refuse, PassCheck, StartCore, IssueAutoToken, PublishState,
                FailBoot, ReadDialSpec, WriteDialSpec, WriteClientToken, FailArtifacts
  <2>2. \A e \in Daemon : e # d => ~Busy(e)
    BY <2>1 DEF SerialInv, OneBusy
  <2>3. CASE PassCheck(d)
    <3>1. \A e \in Daemon : ~Owns(e)
      BY <2>3, CheckExcludes
    <3> USE <1>1, <2>3 DEF SerialInv, TypeOK, PassCheck
    <3>2. SoleOwner'
      BY <3>1 DEF SoleOwner
    <3>3. OneBusy'
      BY <2>2 DEF OneBusy
    <3>4. StateNamesPublisher' /\ NoStateWhileUnwinding' /\ ArtifactsCurrent'
      BY DEF StateNamesPublisher, NoStateWhileUnwinding, ArtifactsCurrent
    <3> QED BY <3>2, <3>3, <3>4
  <2>4. CASE Refuse(d) \/ StartCore(d) \/ FailBoot(d)
    <3> USE <1>1, <2>4 DEF SerialInv, TypeOK, Refuse, StartCore, FailBoot
    <3>1. SoleOwner'
      BY DEF SoleOwner
    <3>2. OneBusy'
      BY <2>2 DEF OneBusy
    <3>3. StateNamesPublisher' /\ NoStateWhileUnwinding' /\ ArtifactsCurrent'
      BY DEF StateNamesPublisher, NoStateWhileUnwinding, ArtifactsCurrent
    <3> QED BY <3>1, <3>2, <3>3
  <2>5. CASE IssueAutoToken(d) \/ PublishState(d)
    <3>1. \A e \in Daemon : e # d => ~Owns(e)
      BY <2>5 DEF SerialInv, SoleOwner, IssueAutoToken, PublishState
    <3> USE <1>1, <2>5 DEF SerialInv, TypeOK, IssueAutoToken, PublishState
    <3>2. SoleOwner'
      BY DEF SoleOwner
    <3>3. OneBusy'
      BY <2>2 DEF OneBusy
    <3>4. StateNamesPublisher' /\ NoStateWhileUnwinding'
      BY <3>1 DEF StateNamesPublisher, NoStateWhileUnwinding
    <3>5. ArtifactsCurrent'
      BY <3>1 DEF ArtifactsCurrent
    <3> QED BY <3>2, <3>3, <3>4, <3>5
  <2>6. CASE ReadDialSpec(d) \/ WriteDialSpec(d) \/ WriteClientToken(d) \/ FailArtifacts(d)
    <3>1. \A e \in Daemon : e # d => ~Owns(e)
      BY <2>6 DEF SerialInv, SoleOwner, ReadDialSpec, WriteDialSpec, WriteClientToken,
                  FailArtifacts
    <3> USE <1>1, <2>6 DEF SerialInv, TypeOK, ReadDialSpec, WriteDialSpec, WriteClientToken,
                           FailArtifacts
    <3>2. SoleOwner'
      BY DEF SoleOwner
    <3>3. OneBusy'
      BY <2>2 DEF OneBusy
    <3>4. StateNamesPublisher' /\ NoStateWhileUnwinding'
      BY DEF StateNamesPublisher, NoStateWhileUnwinding
    <3>5. ArtifactsCurrent'
      <4>1. CASE WriteDialSpec(d)
        <5>1. dialSpec' # None /\ dialSpec'.inst \in {d, None}
          <6>1. CASE LeavesAlone(d, seen[d])
            BY <4>1, <6>1 DEF ArtifactsCurrent
          <6>2. CASE ~LeavesAlone(d, seen[d])
            <7>1. \A t \in {"auto", "named"} : /\ [inst |-> d, tokenFile |-> t] \in DialSpec
                                               /\ [inst |-> d, tokenFile |-> t] # None
              BY NoneAssumption DEF DialSpec
            <7>2. \E t \in {"auto", "named"} : dialSpec' = [inst |-> d, tokenFile |-> t]
              BY <4>1, <6>2 DEF DialSpec
            <7> QED BY <7>1, <7>2
          <6> QED BY <6>1, <6>2
        <5> QED BY <3>1, <4>1, <5>1 DEF ArtifactsCurrent
      <4>2. CASE ReadDialSpec(d)
        BY <3>1, <4>2 DEF ArtifactsCurrent, LeavesAlone
      <4>3. CASE WriteClientToken(d) \/ FailArtifacts(d)
        BY <3>1, <4>3 DEF ArtifactsCurrent
      <4> QED BY <2>6, <4>1, <4>2, <4>3
    <3> QED BY <3>2, <3>3, <3>4, <3>5
  <2> QED BY <1>4, <2>3, <2>4, <2>5, <2>6 DEF Boot
<1>5. ASSUME NEW d \in Daemon, Unwind(d) \/ Crash(d) PROVE SerialInv'
  <2> USE <1>1 DEF SerialInv, TypeOK
  <2>1. CASE Cleanup(d) \/ Crash(d)
    BY <2>1 DEF Cleanup, Crash, SoleOwner, OneBusy,
                    StateNamesPublisher, NoStateWhileUnwinding, ArtifactsCurrent
  <2>2. CASE Exit(d)
    <3>1. \A e \in Daemon : e # d => ~Owns(e)
      BY <2>2 DEF SoleOwner, Exit
    <3> QED BY <2>2, <3>1 DEF Exit, RemoveStateFile, SoleOwner, OneBusy,
                    StateNamesPublisher, NoStateWhileUnwinding, ArtifactsCurrent
  <2> QED BY <1>5, <2>1, <2>2 DEF Unwind
<1>6. CASE \E d \in Daemon : Parent(d)
  BY <1>1, <1>6 DEF Parent, ParentSeesState, ParentSeesNoState, SerialInv, SoleOwner,
                    OneBusy,
                    StateNamesPublisher, NoStateWhileUnwinding, ArtifactsCurrent
<1>7. CASE World
  <2>1. CASE RepointTokenFile \/ InstallDialSpec
    <3>1. /\ dialSpec' # None
          /\ dialSpec'.inst = None \/ (dialSpec # None /\ dialSpec'.inst = dialSpec.inst)
      BY <1>1, <2>1, NoneAssumption DEF RepointTokenFile, InstallDialSpec, TypeOK, DialSpec
    <3>2. UNCHANGED <<pc, pid, foreign, stateFile, seen, autoToken, clientToken, warned>>
      BY <2>1 DEF RepointTokenFile, InstallDialSpec
    <3>3. ArtifactsCurrent'
      BY <3>1, <3>2 DEF SerialInv, ArtifactsCurrent, LeavesAlone
    <3> QED BY <1>1, <3>2, <3>3 DEF SerialInv, SoleOwner, OneBusy, StateNamesPublisher,
                                    NoStateWhileUnwinding
  <2>2. CASE \E p \in Pid : ForeignProcess(p)
    BY <1>1, <2>2 DEF ForeignProcess, SerialInv, SoleOwner,
                    OneBusy,
                    StateNamesPublisher, NoStateWhileUnwinding, ArtifactsCurrent
  <2> QED BY <1>7, <2>1, <2>2 DEF World
<1>8. CASE UNCHANGED vars
  BY <1>1, <1>8 DEF vars, SerialInv, SoleOwner, OneBusy,
                    StateNamesPublisher, NoStateWhileUnwinding, ArtifactsCurrent
<1> QED BY <1>2, <1>3, <1>4, <1>5, <1>6, <1>7, <1>8 DEF SerialNext

\* Starts and stops issued one at a time, detached only where nobody serves, with
\* crashes, failing boots and pid reuse at any point: the config dir has at most
\* one daemon past the check, the serving daemon is the one state.json names, and
\* a client that reads the session's files reaches it with the token it accepts.
THEOREM SerialSessions ==
    CarefulSpec => [](SoleOwner /\ ServingIsPublished /\ SessionUsable)
<1>1. SerialInv => SoleOwner /\ ServingIsPublished /\ SessionUsable
  BY DEF SerialInv, StateNamesPublisher, NoStateWhileUnwinding, ArtifactsCurrent, ServingIsPublished, SessionUsable
<1>2. SerialInv /\ [SerialNext /\ DetachesAlone]_vars => SerialInv'
  BY SerialStep
<1> QED BY <1>1, <1>2, SerialInit, PTL DEF CarefulSpec

\* The part of it a client sees: a daemon in its event loop that did not warn is
\* reached, with a token it accepts, through the client files of its session,
\* also after boots that failed half way and daemons that crashed.
THEOREM SessionsUsable == CarefulSpec => []SessionUsable
BY SerialSessions, PTL

-----------------------------------------------------------------------------
(* The refinement mapping.                                                 *)

LEMMA OwnerIs ==
    /\ SoleOwner => \A d \in Daemon : Owns(d) => owner = d
    /\ (\A d \in Daemon : ~Owns(d)) => owner = None
BY DEF SoleOwner, owner

LEMMA OwnerBecomes ==
    /\ SoleOwner' => \A d \in Daemon : Owns(d)' => owner' = d
    /\ (\A d \in Daemon : ~Owns(d)') => owner' = None
BY DEF SoleOwner, owner

LEMMA OwnerKept ==
    ASSUME SoleOwner, SoleOwner', \A d \in Daemon : Owns(d)' <=> Owns(d)
    PROVE  owner' = owner
<1>1. CASE \E d \in Daemon : Owns(d)
  BY <1>1, OwnerIs, OwnerBecomes
<1>2. CASE \A d \in Daemon : ~Owns(d)
  BY <1>2, OwnerIs, OwnerBecomes
<1> QED BY <1>1, <1>2

\* What the code does step by step is, seen through the directory, a sole owner
\* acquiring it, announcing itself, retracting and releasing it.
THEOREM SerialImplementsSessionOwner == CarefulSpec => ImplementsSessionOwner
<1>1. Init => SessionOwnerSpec!Init
  BY OwnerIs DEF Init, SessionOwnerSpec!Init, announced, Owns, Booting, Running
<1>2. ASSUME SerialInv, SerialInv', [SerialNext /\ DetachesAlone]_vars
      PROVE  [SessionOwnerSpec!Next]_(SessionOwnerSpec!ownerVars)
  <2> USE <1>2 DEF Owns, Booting, Running, Goto
  <2>1. SoleOwner /\ SoleOwner' /\ TypeOK
    BY DEF SerialInv
  <2> SUFFICES \/ \E d \in Daemon : \/ SessionOwnerSpec!Acquire(d)
                                    \/ SessionOwnerSpec!Announce(d)
                                    \/ SessionOwnerSpec!Retract(d)
                                    \/ SessionOwnerSpec!Release(d)
               \/ SessionOwnerSpec!Clear
               \/ owner' = owner /\ announced' = announced
    BY DEF SessionOwnerSpec!Next, SessionOwnerSpec!ownerVars
  <2>2. ASSUME DetachesAlone, NEW d \in Daemon, Settled(d), Start(d)
        PROVE  SessionOwnerSpec!Clear \/ (owner' = owner /\ announced' = announced)
    <3>1. owner' = owner
      <4>1. pc[d] = "idle" /\ pc' = [pc EXCEPT ![d] = "checking"]
        BY <2>1, <2>2, CarefulStart
      <4>2. \A e \in Daemon : Owns(e)' <=> Owns(e)
        BY <2>1, <4>1 DEF TypeOK
      <4> QED BY <2>1, <4>2, OwnerKept
    <3>2. CASE stateFile' = stateFile
      BY <3>1, <3>2 DEF announced
    <3>3. CASE stateFile' = None /\ \A e \in Daemon : ~Owns(e)
      <4>1. owner = None
        BY <3>3, OwnerIs
      <4> QED BY <3>1, <3>3, <4>1 DEF announced, SessionOwnerSpec!Clear
    <3> QED BY <2>1, <2>2, <3>2, <3>3, CarefulStart
  <2>3. ASSUME NEW d \in Daemon, Quit(d) PROVE SessionOwnerSpec!Retract(d)
    <3>1. owner = d /\ owner' = d
      BY <2>1, <2>3, OwnerIs, OwnerBecomes DEF Quit, TypeOK
    <3>2. stateFile = [inst |-> d, pid |-> pid[d]] /\ pid[d] \in Pid
      BY <2>1, <2>3 DEF Quit, SerialInv, StateNamesPublisher, TypeOK
    <3>3. announced = d /\ announced' = None
      BY <2>3, <3>2, NoneAssumption DEF Quit, RemoveStateFile, announced, StateFile
    <3> QED BY <3>1, <3>3 DEF SessionOwnerSpec!Retract
  <2>4. ASSUME NEW d \in Daemon, PassCheck(d) PROVE SessionOwnerSpec!Acquire(d)
    <3>1. owner = None
      BY <2>4, CheckExcludes, OwnerIs
    <3>2. owner' = d
      BY <2>1, <2>4, OwnerBecomes DEF PassCheck, TypeOK
    <3> QED BY <2>4, <3>1, <3>2 DEF SessionOwnerSpec!Acquire, PassCheck, announced
  <2>5. ASSUME NEW d \in Daemon, PublishState(d) PROVE SessionOwnerSpec!Announce(d)
    <3>1. owner = d /\ owner' = d
      BY <2>1, <2>5, OwnerIs, OwnerBecomes DEF PublishState, TypeOK
    <3>2. announced' = d
      BY <2>1, <2>5, NoneAssumption DEF PublishState, announced, StateFile, TypeOK
    <3> QED BY <3>1, <3>2 DEF SessionOwnerSpec!Announce
  <2>6. ASSUME NEW d \in Daemon,
               StartCore(d) \/ IssueAutoToken(d) \/ ReadDialSpec(d) \/ WriteDialSpec(d)
               \/ WriteClientToken(d) \/ FailArtifacts(d) \/ Cleanup(d) \/ Refuse(d)
        PROVE  owner' = owner /\ announced' = announced
    <3>1. (\A e \in Daemon : Owns(e)' <=> Owns(e)) /\ UNCHANGED stateFile
      BY <2>1, <2>6 DEF TypeOK, StartCore, IssueAutoToken, ReadDialSpec, WriteDialSpec,
                        WriteClientToken, FailArtifacts, Cleanup, Refuse
    <3> QED BY <2>1, <3>1, OwnerKept DEF announced
  <2>7. ASSUME NEW d \in Daemon, FailBoot(d) \/ Exit(d) \/ (Crash(d) /\ Owns(d))
        PROVE  SessionOwnerSpec!Release(d)
    <3>1. Owns(d) /\ ~Owns(d)' /\ \A e \in Daemon : e # d => (Owns(e)' <=> Owns(e))
      BY <2>1, <2>7 DEF TypeOK, FailBoot, Exit, Crash
    <3>2. owner = d
      BY <2>1, <3>1, OwnerIs
    <3>3. \A e \in Daemon : ~Owns(e)'
      BY <2>1, <3>1 DEF SoleOwner
    <3>4. announced' = announced
      BY <2>7 DEF FailBoot, Exit, Crash, RemoveStateFile, announced, SerialInv,
                  NoStateWhileUnwinding
    <3> QED BY <3>2, <3>3, <3>4, OwnerBecomes DEF SessionOwnerSpec!Release
  <2>8. ASSUME NEW d \in Daemon, Crash(d), ~Owns(d)
        PROVE  owner' = owner /\ announced' = announced
    <3>1. (\A e \in Daemon : Owns(e)' <=> Owns(e)) /\ UNCHANGED stateFile
      BY <2>1, <2>8 DEF TypeOK, Crash
    <3> QED BY <2>1, <3>1, OwnerKept DEF announced
  <2>9. ASSUME (\E d \in Daemon : Parent(d)) \/ World \/ UNCHANGED vars
        PROVE  owner' = owner /\ announced' = announced
    <3>1. UNCHANGED <<pc, stateFile>>
      BY <2>9 DEF Parent, ParentSeesState, ParentSeesNoState, World,
                  RepointTokenFile, InstallDialSpec, ForeignProcess, vars
    <3> QED BY <2>1, <3>1, OwnerKept DEF announced
  <2> QED BY <2>2, <2>3, <2>4, <2>5, <2>6, <2>7, <2>8, <2>9
          DEF SerialNext, Boot, Unwind
<1>3. SerialInv /\ [SerialNext /\ DetachesAlone]_vars => SerialInv'
  BY SerialStep
<1> QED BY <1>1, <1>2, <1>3, SerialInit, PTL
        DEF CarefulSpec, ImplementsSessionOwner, SessionOwnerSpec!Spec

-----------------------------------------------------------------------------
\* One serial step keeps the waiting parent's child alone.
LEMMA ParentAloneStep ==
    ASSUME TypeOK, ParentAlone, [SerialNext]_vars PROVE ParentAlone'
<1> USE DEF TypeOK, ParentAlone, Goto
<1>1. stateFile = None \/ (stateFile # None /\ stateFile.inst \in Daemon)
  BY DEF StateFile
<1>2. ASSUME NEW d \in Daemon, Settled(d), Start(d) PROVE ParentAlone'
  <2>1. \A e \in Daemon : parent[e] # "waiting"
    BY <1>2 DEF Settled
  <2>2. CASE \E p \in Pid : LaunchForeground(d, p)
    BY <2>1, <2>2 DEF LaunchForeground
  <2>3. CASE \E p \in Pid : LaunchDetached(d, p)
    <3>1. /\ parent' = [parent EXCEPT ![d] = "waiting"] /\ stateFile' = None
          /\ pc' = [pc EXCEPT ![d] = "checking"]
      BY <2>3 DEF LaunchDetached, Launch, RemoveStateFile
    <3>2. \A e \in Daemon \ {d} : pc[e] \in {"idle", "serving"} \cup Gone
      BY <1>2 DEF Settled
    <3> QED BY <2>1, <3>1, <3>2
  <2> QED BY <1>2, <2>2, <2>3 DEF Start
<1>3. ASSUME NEW d \in Daemon, Settled(d), Quit(d) PROVE ParentAlone'
  BY <1>3 DEF Settled, Quit
<1>4. ASSUME NEW d \in Daemon, Boot(d) PROVE ParentAlone'
  <2>1. /\ pc[d] \in {"checking"} \cup Booting
        /\ \A e \in Daemon \ {d} : pc'[e] = pc[e]
        /\ parent' = parent
    BY <1>4 DEF Boot, Refuse, PassCheck, StartCore, IssueAutoToken, PublishState, FailBoot,
                ReadDialSpec, WriteDialSpec, WriteClientToken, FailArtifacts, Booting
  <2>2. stateFile' = stateFile \/ stateFile' = [inst |-> d, pid |-> pid[d]]
    BY <1>4 DEF Boot, Refuse, PassCheck, StartCore, IssueAutoToken, PublishState, FailBoot,
                ReadDialSpec, WriteDialSpec, WriteClientToken, FailArtifacts
  <2>3. \A e \in Daemon : parent[e] = "waiting" => e = d
    BY <2>1 DEF Booting, Gone
  <2> QED BY <2>1, <2>2, <2>3
<1>5. ASSUME NEW d \in Daemon, Unwind(d) \/ Crash(d) PROVE ParentAlone'
  <2>1. /\ \A e \in Daemon : pc'[e] = pc[e] \/ pc'[e] \in Gone
                             \/ (e = d /\ pc[e] = "unlinked")
        /\ parent' = parent /\ (stateFile' = stateFile \/ stateFile' = None)
    BY <1>5 DEF Unwind, Cleanup, Exit, Crash, RemoveStateFile, Gone
  <2> QED BY <2>1 DEF Gone
<1>6. ASSUME NEW d \in Daemon, Parent(d) PROVE ParentAlone'
  BY <1>6 DEF Parent, ParentSeesState, ParentSeesNoState
<1>7. CASE World \/ UNCHANGED vars
  BY <1>7 DEF World, RepointTokenFile, InstallDialSpec, ForeignProcess, vars
<1> QED BY <1>2, <1>3, <1>4, <1>5, <1>6, <1>7 DEF SerialNext

\* With starts and stops that do not overlap, detached or not, and crashes and
\* failing boots at any point: a --detach parent that reports success saw the
\* state file of its own child, not one a dead daemon had left.
THEOREM DetachVerdictIsOfChild == SerialSpec => StartedIsOwnChild
<1> DEFINE Inv == TypeOK /\ ParentAlone
           Own == \A d \in Daemon : parent[d] = "waiting" /\ parent'[d] = "ready" =>
                                       stateFile.inst = d
<1>1. Init => Inv
  BY DEF Init, TypeOK, Status, DialSpec, ParentAlone
<1>2. Inv /\ [SerialNext]_vars => Inv'
  BY SerialNextIsNext, TypeStep, ParentAloneStep
<1>3. Inv /\ [SerialNext]_vars => Own
  <2> SUFFICES ASSUME TypeOK, ParentAlone, [SerialNext]_vars, NEW d \in Daemon,
                      parent[d] = "waiting", parent'[d] = "ready"
               PROVE  stateFile # None
    BY DEF ParentAlone
  <2>1. ASSUME NEW e \in Daemon, ParentSeesState(e) \/ ParentSeesNoState(e)
        PROVE  stateFile # None
    BY <2>1 DEF ParentSeesState, ParentSeesNoState, TypeOK
  <2>2. ASSUME NEW e \in Daemon, Start(e) PROVE parent'[d] # "ready"
    BY <2>2 DEF Start, LaunchForeground, LaunchDetached, TypeOK
  <2>3. ASSUME NEW e \in Daemon, Boot(e) PROVE parent' = parent
    BY <2>3 DEF Boot, Refuse, PassCheck, StartCore, IssueAutoToken, PublishState, FailBoot,
                ReadDialSpec, WriteDialSpec, WriteClientToken, FailArtifacts
  <2>4. ASSUME NEW e \in Daemon, Quit(e) \/ Unwind(e) \/ Crash(e) PROVE parent' = parent
    BY <2>4 DEF Quit, Unwind, Cleanup, Exit, Crash
  <2>5. CASE World \/ UNCHANGED vars
    BY <2>5 DEF World, RepointTokenFile, InstallDialSpec, ForeignProcess, vars
  <2> QED BY <2>1, <2>2, <2>3, <2>4, <2>5 DEF SerialNext, Parent
<1> QED BY <1>1, <1>2, <1>3, PTL DEF SerialSpec, StartedIsOwnChild
=============================================================================
