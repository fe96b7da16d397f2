---------------------------- MODULE DaemonSession ----------------------------
(***************************************************************************)
(* The daemons of one session directory (src/src/daemon/daemon.cpp,        *)
(* Daemon::start) and the files through which they and the clients find    *)
(* each other: daemon/state.json, the auto entry of daemon/tokens.json,    *)
(* client/config.yaml and client/auto.json.  Each element of Daemon is one *)
(* run of the daemon binary, hence one instance id.  Files are replaced    *)
(* with an atomic rename (atomicWriteText), so each write is one step;     *)
(* tokens.json is modelled write by write in TokenStore.                   *)
(*                                                                         *)
(* Also here: the parent process of `daemon start --detach` (main.cpp),    *)
(* which deletes state.json, forks, and waits for the file to reappear.    *)
(***************************************************************************)
EXTENDS Naturals, FiniteSets

CONSTANTS
    Daemon,     \* runs of the daemon binary; each boots at most once
    Pid,        \* the process ids the kernel hands out
    Modes,      \* how daemons are started: a subset of {"foreground", "detached"}
    None        \* "no file", "no instance id", "no pid"

StateFile == [inst : Daemon, pid : Pid]
DialSpec  == [inst : Daemon \cup {None}, tokenFile : {"auto", "named"}]

ASSUME ModesAssumption == Modes \subseteq {"foreground", "detached"}
ASSUME NoneAssumption  == /\ None \notin Daemon
                          /\ None \notin Pid
                          /\ None \notin StateFile
                          /\ None \notin DialSpec

VARIABLES
    pc,          \* where each daemon is in Daemon::start
    pid,         \* its process id once it exists
    foreign,     \* pids of processes that are not daemons of this session
    stateFile,   \* daemon/state.json
    seen,        \* the dial spec each daemon found, while it has yet to act on it
    autoToken,   \* whose auto token daemon/tokens.json accepts
    dialSpec,    \* client/config.yaml
    clientToken, \* whose token client/auto.json holds
    warned,      \* daemons that warned "failed to write local client artifacts"
    parent       \* the --detach parent of each daemon

vars == <<pc, pid, foreign, stateFile, seen, autoToken, dialSpec, clientToken,
          warned, parent>>

-----------------------------------------------------------------------------
(* Progress of Daemon::start.                                              *)

\* The process has not reached, or has not passed, the already-running check.
\* "starting" to "dialspec" is the rest of the boot, in program order:
\*   starting   passed the check: logos_core_init, transports
\*   bound      logos_core_start done, core_service registered and listening
\*   issued     the auto token of this boot is in tokens.json
\*   published  state.json is written
\*   decided    client/config.yaml has been looked at
\*   dialspec   it is written, or left alone
Booting  == {"starting", "bound", "issued", "published", "decided", "dialspec"}
\* Inside exec(), after its aboutToQuit hook, and after logos_core_cleanup.
Running  == {"serving", "unlinked", "cleaned"}
Gone     == {"refused", "failed", "exited", "crashed"}

Status == {"idle", "checking"} \cup Booting \cup Running \cup Gone

Live(d) == pc[d] \in {"checking"} \cup Booting \cup Running
\* d is past the already-running check, so it writes to the session.
Owns(d) == pc[d] \in Booting \cup Running

\* logosctl::processAlive, i.e. kill(p, 0): some process has this pid.  It
\* cannot tell whose process that is; the asking process counts as well.
ProcessAlive(p) == \/ p \in foreign
                   \/ \E d \in Daemon : Live(d) /\ pid[d] = p

-----------------------------------------------------------------------------
(* A clean directory, or one with an operator's own client/config.yaml: a  *)
(* remote dial spec with no instance id and its own token file.            *)
Init ==
    /\ pc = [d \in Daemon |-> "idle"]
    /\ pid = [d \in Daemon |-> None]
    /\ foreign = {}
    /\ stateFile = None
    /\ seen = [d \in Daemon |-> None]
    /\ autoToken = None
    /\ dialSpec \in {None, [inst |-> None, tokenFile |-> "named"]}
    /\ clientToken = None
    /\ warned = {}
    /\ parent = [d \in Daemon |-> "none"]

Goto(d, from, to) ==
    /\ pc[d] = from
    /\ pc' = [pc EXCEPT ![d] = to]

\* Slip: the file is not found under the name it was written with.
KeepStateFile(d) == UNCHANGED stateFile

\* DaemonRuntimeStateFile::remove, which does not look at what it removes.
RemoveStateFile(d) == stateFile' = None

Launch(d, p) ==
    /\ ~ProcessAlive(p)
    /\ Goto(d, "idle", "checking")
    /\ pid' = [pid EXCEPT ![d] = p]
    /\ UNCHANGED <<foreign, seen, autoToken, dialSpec, clientToken, warned>>

LaunchForeground(d, p) ==
    /\ "foreground" \in Modes
    /\ Launch(d, p)
    /\ UNCHANGED <<stateFile, parent>>

\* Slip: the child is left to deal with an old state.json.
LaunchDetachedBeside(d, p) ==
    /\ "detached" \in Modes
    /\ Launch(d, p)
    /\ UNCHANGED stateFile
    /\ parent' = [parent EXCEPT ![d] = "waiting"]

\* The parent removes state.json, whoever wrote it, before it forks.
LaunchDetached(d, p) ==
    /\ "detached" \in Modes
    /\ Launch(d, p)
    /\ RemoveStateFile(d)
    /\ parent' = [parent EXCEPT ![d] = "waiting"]

\* Slip: the check ignores the file and starts beside whoever it names.
NobodyIsRunning == FALSE

\* The already-running check: read state.json, kill(pid, 0).
AnotherIsRunning == stateFile # None /\ ProcessAlive(stateFile.pid)

Refuse(d) ==
    /\ AnotherIsRunning
    /\ Goto(d, "checking", "refused")
    /\ UNCHANGED <<pid, foreign, stateFile, seen, autoToken, dialSpec, clientToken,
                   warned, parent>>

\* Slip: a live owner is reported and the start goes on.
PassCheckAnyway(d) ==
    /\ Goto(d, "checking", "starting")
    /\ UNCHANGED <<pid, foreign, stateFile, seen, autoToken, dialSpec, clientToken,
                   warned, parent>>

PassCheck(d) ==
    /\ ~AnotherIsRunning
    /\ Goto(d, "checking", "starting")
    /\ UNCHANGED <<pid, foreign, stateFile, seen, autoToken, dialSpec, clientToken,
                   warned, parent>>

\* Transports are built, the core is started, core_service is registered.
StartCore(d) ==
    /\ Goto(d, "starting", "bound")
    /\ UNCHANGED <<pid, foreign, stateFile, seen, autoToken, dialSpec, clientToken,
                   warned, parent>>

\* issueToken("auto", replace): tokens.json keeps the hash, and the raw token
\* stays accepted in this process through TokenManager::saveInboundToken.
IssueAutoToken(d) ==
    /\ Goto(d, "bound", "issued")
    /\ autoToken' = d
    /\ UNCHANGED <<pid, foreign, stateFile, seen, dialSpec, clientToken, warned, parent>>

\* Slip: the pid field is not filled in.
PublishWithoutPid(d) ==
    /\ Goto(d, "issued", "published")
    /\ stateFile' = [inst |-> d, pid |-> None]
    /\ UNCHANGED <<pid, foreign, seen, autoToken, dialSpec, clientToken, warned, parent>>

PublishState(d) ==
    /\ Goto(d, "issued", "published")
    /\ stateFile' = [inst |-> d, pid |-> pid[d]]
    /\ UNCHANGED <<pid, foreign, seen, autoToken, dialSpec, clientToken, warned, parent>>

\* No port for a listener, no auto token, no state.json: return 1, after
\* logos_core_cleanup when the core was up.  A file already there stays.
FailBoot(d) ==
    /\ \E at \in {"starting", "bound", "issued"} : Goto(d, at, "failed")
    /\ UNCHANGED <<pid, foreign, stateFile, seen, autoToken, dialSpec, clientToken,
                   warned, parent>>

\* writeLocalClientArtifacts, first half: an absent dial spec is written, our
\* own artifact of another instance is refreshed and keeps the token file it
\* names, an operator's (no instance id) is left alone.  What is in the file is
\* decided here and acted on later; nothing locks it in between.
ReadDialSpec(d) ==
    /\ Goto(d, "published", "decided")
    /\ seen' = [seen EXCEPT ![d] = dialSpec]
    /\ UNCHANGED <<pid, foreign, stateFile, autoToken, dialSpec, clientToken,
                   warned, parent>>

\* Slip: an existing dial spec is never refreshed, whoever wrote it.
LeavesWhatExists(d, found) == found # None

\* Slip: only a dial spec that names this very instance is left alone.
LeavesOwnOnly(d, found) == found # None /\ found.inst = d

LeavesAlone(d, found) == found # None /\ found.inst \in {None, d}

WriteDialSpec(d) ==
    /\ Goto(d, "decided", "dialspec")
    /\ dialSpec' = IF LeavesAlone(d, seen[d]) THEN dialSpec
                   ELSE [inst |-> d,
                         tokenFile |-> IF seen[d] = None THEN "auto" ELSE seen[d].tokenFile]
    /\ seen' = [seen EXCEPT ![d] = None]
    /\ UNCHANGED <<pid, foreign, stateFile, autoToken, clientToken, warned, parent>>

\* Second half: client/auto.json is always rewritten.  Then the signal
\* handlers and the aboutToQuit hook are installed and exec() starts.
WriteClientToken(d) ==
    /\ Goto(d, "dialspec", "serving")
    /\ clientToken' = d
    /\ UNCHANGED <<pid, foreign, stateFile, seen, autoToken, dialSpec, warned, parent>>

\* Either half fails: a warning, and the daemon serves all the same.
FailArtifacts(d) ==
    /\ \E at \in {"published", "decided", "dialspec"} : Goto(d, at, "serving")
    /\ warned' = warned \cup {d}
    /\ seen' = [seen EXCEPT ![d] = None]
    /\ UNCHANGED <<pid, foreign, stateFile, autoToken, dialSpec, clientToken, parent>>

\* SIGINT, SIGTERM or the shutdown RPC: quit() fires the aboutToQuit hook,
\* which removes state.json.
Quit(d) ==
    /\ Goto(d, "serving", "unlinked")
    /\ RemoveStateFile(d)
    /\ UNCHANGED <<pid, foreign, seen, autoToken, dialSpec, clientToken, warned, parent>>

\* logos_core_cleanup, one subprocess per loaded module, then LogSink::stop.
Cleanup(d) ==
    /\ Goto(d, "unlinked", "cleaned")
    /\ UNCHANGED <<pid, foreign, stateFile, seen, autoToken, dialSpec, clientToken,
                   warned, parent>>

\* The second, explicit remove, then the process ends.
Exit(d) ==
    /\ Goto(d, "cleaned", "exited")
    /\ RemoveStateFile(d)
    /\ UNCHANGED <<pid, foreign, seen, autoToken, dialSpec, clientToken, warned, parent>>

\* SIGKILL or an abort at any point, or a signal before the handlers are
\* installed, whose default action ends the process.  Nothing unwinds.
Crash(d) ==
    /\ Live(d)
    /\ pc' = [pc EXCEPT ![d] = "crashed"]
    /\ seen' = [seen EXCEPT ![d] = None]
    /\ UNCHANGED <<pid, foreign, stateFile, autoToken, dialSpec, clientToken,
                   warned, parent>>

\* The parent's poll: the file first, then the child, up to 60 s.
ParentSeesState(d) ==
    /\ parent[d] = "waiting"
    /\ stateFile # None
    /\ parent' = [parent EXCEPT ![d] = "ready"]
    /\ UNCHANGED <<pc, pid, foreign, stateFile, seen, autoToken, dialSpec, clientToken, warned>>

ParentSeesNoState(d) ==
    /\ parent[d] = "waiting"
    /\ stateFile = None
    /\ parent' = [parent EXCEPT ![d] = IF Live(d) THEN "gaveup" ELSE "failed"]
    /\ UNCHANGED <<pc, pid, foreign, stateFile, seen, autoToken, dialSpec, clientToken, warned>>

\* An operator edits the dial spec in place, to use a token file of its own.
RepointTokenFile ==
    /\ dialSpec # None
    /\ dialSpec' = [inst |-> dialSpec.inst, tokenFile |-> "named"]
    /\ UNCHANGED <<pc, pid, foreign, stateFile, seen, autoToken, clientToken, warned, parent>>

\* `client config set`, or an operator's editor: a dial spec of its own.
InstallDialSpec ==
    /\ dialSpec' = [inst |-> None, tokenFile |-> "named"]
    /\ UNCHANGED <<pc, pid, foreign, stateFile, seen, autoToken, clientToken, warned, parent>>

\* Unrelated processes come and go and take pids that are free.
ForeignProcess(p) ==
    /\ p \in foreign \/ ~ProcessAlive(p)
    /\ foreign' = IF p \in foreign THEN foreign \ {p} ELSE foreign \cup {p}
    /\ UNCHANGED <<pc, pid, stateFile, seen, autoToken, dialSpec, clientToken, warned, parent>>

-----------------------------------------------------------------------------
Boot(d) ==
    \/ Refuse(d) \/ PassCheck(d) \/ StartCore(d) \/ IssueAutoToken(d)
    \/ PublishState(d) \/ FailBoot(d)
    \/ ReadDialSpec(d) \/ WriteDialSpec(d) \/ WriteClientToken(d) \/ FailArtifacts(d)

Unwind(d) == Cleanup(d) \/ Exit(d)

Parent(d) == ParentSeesState(d) \/ ParentSeesNoState(d)

Start(d) == \E p \in Pid : LaunchForeground(d, p) \/ LaunchDetached(d, p)

World == RepointTokenFile \/ InstallDialSpec \/ \E p \in Pid : ForeignProcess(p)

Next == \/ \E d \in Daemon : \/ Start(d) \/ Boot(d) \/ Quit(d) \/ Unwind(d)
                             \/ Crash(d) \/ Parent(d)
        \/ World

Spec == Init /\ [][Next]_vars

\* An operator who issues one start or stop at a time: each waits until every
\* other daemon is serving or gone and every --detach parent has returned.
\* Crashes, failures and other processes stay free.
Settled(d) == /\ \A e \in Daemon \ {d} : pc[e] \in {"idle", "serving"} \cup Gone
              /\ \A e \in Daemon : parent[e] # "waiting"

SerialNext ==
    \/ \E d \in Daemon : \/ Settled(d) /\ Start(d)
                         \/ Settled(d) /\ Quit(d)
                         \/ Boot(d) \/ Unwind(d) \/ Crash(d) \/ Parent(d)
    \/ World

SerialSpec == Init /\ [][SerialNext]_vars

\* A detached start takes the state file from whoever serves (main.cpp:587-593);
\* this operator starts detached only where nobody does.
DetachesAlone ==
    (\E d \in Daemon : parent[d] # "waiting" /\ parent'[d] = "waiting") =>
        \A e \in Daemon : pc[e] # "serving"

CarefulSpec == Init /\ [][SerialNext /\ DetachesAlone]_vars

-----------------------------------------------------------------------------
TypeOK ==
    /\ pc \in [Daemon -> Status]
    /\ pid \in [Daemon -> Pid \cup {None}]
    /\ \A d \in Daemon : pc[d] # "idle" => pid[d] \in Pid
    /\ foreign \subseteq Pid
    /\ stateFile \in StateFile \cup {None}
    /\ seen \in [Daemon -> DialSpec \cup {None}]
    /\ autoToken \in Daemon \cup {None}
    /\ dialSpec \in DialSpec \cup {None}
    /\ clientToken \in Daemon \cup {None}
    /\ warned \subseteq Daemon
    /\ parent \in [Daemon -> {"none", "waiting", "ready", "failed", "gaveup"}]

\* However starts, stops and crashes interleave, state.json never outlives a
\* daemon that stopped cleanly or names one that never published: whoever it
\* names is up, or was killed.  (aboutToQuit and the second remove.)
StateNamesLiveOrCrashed ==
    stateFile # None =>
        pc[stateFile.inst] \in {"published", "decided", "dialspec", "serving", "crashed"}

\* Two daemons never share a config dir (docs/project.md, the already-running
\* check of Daemon::start).
SoleOwner == \A d, e \in Daemon : Owns(d) /\ Owns(e) => d = e

\* A daemon in its event loop is the one state.json names, so that a second
\* start is refused and `stop` finds its pid.
ServingIsPublished ==
    \A d \in Daemon : pc[d] = "serving" =>
        stateFile = [inst |-> d, pid |-> pid[d]]

\* A daemon in its event loop that did not warn can be used through the files
\* it left: the dial spec names it (or is an operator's), and the token file
\* holds the auto token that tokens.json accepts.
SessionUsable ==
    \A d \in Daemon : pc[d] = "serving" /\ d \notin warned =>
        /\ dialSpec # None /\ dialSpec.inst \in {d, None}
        /\ clientToken = d
        /\ autoToken = d

\* A step that takes an operator's work out of client/config.yaml: a dial spec
\* without instance id is replaced, or a token file the operator named is
\* pointed back at auto.json.
LosesOperatorsWork ==
    /\ dialSpec # None
    /\ \/ dialSpec' = None
       \/ dialSpec.inst = None /\ dialSpec' # dialSpec
       \/ dialSpec.tokenFile = "named" /\ dialSpec'.tokenFile # "named"

\* d writes the dial spec without having seen what is in the file by now.
WritesBlindly(d) == pc[d] = "decided" /\ pc'[d] = "dialspec" /\ seen[d] # dialSpec

\* However daemons boot, fail and crash, an operator's dial spec is only lost to
\* a daemon that had looked at the file before it got there: what a daemon finds
\* it respects, also in a session several daemons write to.
OperatorConfigKept ==
    [][LosesOperatorsWork => \E d \in Daemon : WritesBlindly(d)]_vars

\* "so a hand-written remote config is never clobbered" (daemon_state.cpp:762).
\* Not so: see the run that checks it.
NeverClobbered == [][~LosesOperatorsWork]_vars

\* When `daemon start --detach` reports a started daemon, the state file it saw
\* is the one its own child wrote, not a dead daemon's leftover: the parent
\* deletes what is there before it forks (main.cpp:587-593).
StartedIsOwnChild ==
    [][\A d \in Daemon : parent[d] = "waiting" /\ parent'[d] = "ready" =>
                           stateFile.inst = d]_vars

-----------------------------------------------------------------------------
(* The inductive invariant of CarefulSpec: SoleOwner is kept by the check  *)
(* only because an owner is either still busy booting or unwinding, or     *)
(* serving and then named by state.json with a live pid.                   *)

Busy(d) == pc[d] \in {"checking"} \cup Booting \cup {"unlinked", "cleaned"}

OneBusy == \A d, e \in Daemon : Busy(d) /\ Busy(e) => d = e

StateNamesPublisher ==
    \A d \in Daemon : pc[d] \in {"published", "decided", "dialspec", "serving"} =>
        stateFile = [inst |-> d, pid |-> pid[d]]

\* Once the hook has removed the file, nobody writes it before the owner is gone.
NoStateWhileUnwinding ==
    \A d \in Daemon : pc[d] \in {"unlinked", "cleaned"} => stateFile = None

ArtifactsCurrent ==
    \A d \in Daemon :
        /\ pc[d] \in {"issued", "published", "decided", "dialspec", "serving"} => autoToken = d
        /\ pc[d] = "decided" /\ LeavesAlone(d, seen[d]) =>
              dialSpec # None /\ dialSpec.inst \in {d, None}
        /\ pc[d] = "dialspec" \/ (pc[d] = "serving" /\ d \notin warned) =>
              dialSpec # None /\ dialSpec.inst \in {d, None}
        /\ pc[d] = "serving" /\ d \notin warned => clientToken = d

\* Everything the already-running check keeps true for a careful operator, in
\* inductive form.
SerialInv ==
    /\ TypeOK /\ SoleOwner /\ OneBusy
    /\ StateNamesPublisher /\ NoStateWhileUnwinding /\ ArtifactsCurrent

\* While a --detach parent waits nothing but its child moves, and the state file
\* it deleted can only come back from that child.
ParentAlone ==
    \A d \in Daemon : parent[d] = "waiting" =>
        /\ \A e \in Daemon \ {d} : pc[e] \in {"idle", "serving"} \cup Gone
        /\ stateFile = None \/ stateFile.inst = d

-----------------------------------------------------------------------------
\* CarefulSpec implements SessionOwner: the owner is the daemon past the check,
\* the announcement is what state.json names.
owner     == IF \E d \in Daemon : Owns(d)
             THEN CHOOSE d \in Daemon : Owns(d) ELSE None
announced == IF stateFile = None THEN None ELSE stateFile.inst

SessionOwnerSpec == INSTANCE SessionOwner
ImplementsSessionOwner == SessionOwnerSpec!Spec
=============================================================================
