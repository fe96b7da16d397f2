----------------------------- MODULE ShutdownRpc -----------------------------
(***************************************************************************)
(* `logosctl daemon stop` and `logosctl status` against a daemon that may  *)
(* be serving, blocked in a long call, stopping, crashed or restarted.     *)
(*                                                                         *)
(* The client side is Command::ensureConnected, StatusCommand, StopCommand *)
(* and RpcClient::connect / shutdown / getStatus; the daemon side is       *)
(* CoreServiceImpl::shutdown, the Qt event loop it answers from, and the   *)
(* end of Daemon::start.  A reply first sits in the daemon's own write     *)
(* buffer, and it is lost if the event loop is left before the socket is   *)
(* serviced.                                                               *)
(*                                                                         *)
(* A local client shares the daemon's session directory and dials a socket *)
(* named after an instance id; a remote client dials a TCP port, which any *)
(* later daemon may listen on, from a session directory that may hold what *)
(* a crashed daemon of its own left behind.  Boots of the modelled session *)
(* do not overlap; DaemonSession is about those that do.                   *)
(***************************************************************************)
EXTENDS Naturals, FiniteSets

CONSTANTS
    Client,     \* command line invocations; each runs one command
    Other,      \* clients of which only the stop request is modelled
    Pid,        \* the process ids the kernel hands out
    Boots,      \* how many daemons are started, one after the other
    None        \* no file, no instance id, no pid, no client

Instance  == 1..Boots
StateFile == [inst : Instance \cup {0}, pid : Pid]
\* Instance 0 is the daemon of the remote clients' own session.

ASSUME BootsAssumption   == Boots \in Nat \ {0}
ASSUME ClientsAssumption == Client \cap Other = {}
ASSUME NoneAssumption    ==
    None \notin Nat \cup Pid \cup Client \cup Other \cup StateFile

Message == [from : Client \cup Other, call : {"shutdown", "getStatus"}]

VARIABLES
    boot,       \* the instance that runs now, or ran last
    pid,        \* its process id
    loop,       \* where its main thread is
    busy,       \* a handler is blocking the main thread
    armed,      \* clients whose shutdown armed its quit timer
    first,      \* the first of them
    cause,      \* why it left the event loop (history)
    inbox,      \* requests it has yet to handle
    outbuf,     \* replies in its write buffer
    wire,       \* replies that reached the clients' side
    foreign,    \* pids of unrelated processes
    stateFile,  \* daemon/state.json of the daemon's session
    leftover,   \* daemon/state.json of the remote clients' session
    verb,       \* the command of each client
    local,      \* the clients in the daemon's session directory
    at,         \* the step, or the outcome, of each command
    seen,       \* the state file detectStaleSession read
    dial,       \* the instance a command is talking to
    watch,      \* the pid whose exit a stop takes as evidence
    late,       \* commands whose 15 s of confirmation are over
    sawDown     \* commands during which nobody served (history)

daemonVars == <<boot, pid, loop, busy, armed, first, cause, stateFile>>
netVars    == <<inbox, outbuf, wire>>
clientVars == <<at, seen, dial, watch, late>>
setup      == <<leftover, verb, local>>
vars == <<daemonVars, netVars, clientVars, setup, foreign, sawDown>>

Outcome == {"not_configured", "refused", "reply", "process-exit",
            "endpoint-unreachable", "failed"}
Step    == {"idle", "check", "pid", "compare", "dial", "snapshot", "ask",
            "waiting", "watching", "probe", "probing"}

Remote(c)       == c \notin local
DaemonAlive     == loop # "gone"
Serving         == loop = "serving"
ProcessAlive(p) == p \in foreign \/ (DaemonAlive /\ p = pid)

\* client/config.yaml of the daemon's session carries the last boot's id; a
\* remote dial spec carries none.
ConfigInstance(c) == IF Remote(c) THEN None ELSE boot
StateFileOf(c)    == IF Remote(c) THEN leftover ELSE stateFile

\* Instance i has left, is on its way out, or has its quit timer armed.
Leaving(i) == (i # None /\ boot > i) \/ ~Serving \/ armed # {}

-----------------------------------------------------------------------------
Init ==
    /\ boot = 1
    /\ pid \in Pid
    /\ loop = "serving"
    /\ busy = FALSE
    /\ armed = {} /\ first = None /\ cause = None
    /\ inbox = {} /\ outbuf = {} /\ wire = {}
    /\ foreign = {}
    /\ stateFile = [inst |-> 1, pid |-> pid]
    /\ leftover \in {None} \cup [inst : {0}, pid : Pid]
    /\ verb \in [Client -> {"stop", "status"}]
    /\ local \in SUBSET Client
    /\ at = [c \in Client |-> "idle"]
    /\ seen = [c \in Client |-> None]
    /\ dial = [c \in Client |-> None]
    /\ watch = [c \in Client |-> None]
    /\ late = {}
    /\ sawDown = {}

\* The loop is able to run a handler.
Responsive == loop \in {"serving", "draining"} /\ ~busy

Working(c) == at[c] \in Step \ {"idle"}

\* Every step that ends the service is seen by the commands under way.
NoteDown == sawDown' = sawDown \cup {c \in Client : Working(c)}

Goto(c, from, to) ==
    /\ at[c] = from
    /\ at' = [at EXCEPT ![c] = to]

-----------------------------------------------------------------------------
(* The daemon.                                                             *)

\* Slip: the shutdown is noted and answered, but no timer is armed.
HandleOnly(m) ==
    /\ Responsive /\ m \in inbox
    /\ inbox' = inbox \ {m}
    /\ outbuf' = outbuf \cup {m}
    /\ first' = IF m.call = "shutdown" /\ first = None THEN m.from ELSE first
    /\ UNCHANGED <<boot, pid, loop, busy, armed, cause, wire, foreign, stateFile, setup,
                   clientVars, sawDown>>

\* CoreServiceImpl::shutdown arms a timer and returns; getStatus only reads.
\* Either way the reply is serialised after the handler returns.
Handle(m) ==
    /\ Responsive /\ m \in inbox
    /\ inbox' = inbox \ {m}
    /\ outbuf' = outbuf \cup {m}
    /\ IF m.call = "shutdown"
       THEN /\ armed' = armed \cup {m.from}
            /\ first' = IF first = None THEN m.from ELSE first
       ELSE UNCHANGED <<armed, first>>
    /\ UNCHANGED <<boot, pid, loop, busy, cause, wire, foreign, stateFile, setup,
                   clientVars, sawDown>>

\* The socket's write notifier fires in a pass of the event loop.
Flush(m) ==
    /\ Responsive /\ m \in outbuf
    /\ outbuf' = outbuf \ {m}
    /\ wire' = wire \cup {m}
    /\ UNCHANGED <<daemonVars, inbox, foreign, setup, clientVars, sawDown>>

\* Slip: quit() from the timer, without the drain.
DrainNothing ==
    /\ Serving /\ ~busy /\ armed # {}
    /\ loop' = "draining"
    /\ NoteDown
    /\ UNCHANGED <<boot, pid, busy, armed, first, cause, stateFile, netVars, foreign,
                   setup, clientVars>>

\* The quit timer fires: processEvents makes at least one pass, which
\* services every socket with something to write.
Drain ==
    /\ Serving /\ ~busy /\ armed # {}
    /\ loop' = "draining"
    /\ wire' = wire \cup outbuf
    /\ outbuf' = {}
    /\ NoteDown
    /\ UNCHANGED <<boot, pid, busy, armed, first, cause, stateFile, inbox, foreign,
                   setup, clientVars>>

\* exec() returns without another pass and aboutToQuit unlinks state.json.
LeaveLoop(why) ==
    /\ loop' = "unwinding"
    /\ cause' = why
    /\ stateFile' = None
    /\ NoteDown
    /\ UNCHANGED <<boot, pid, busy, armed, first, netVars, foreign, setup, clientVars>>

\* The queue is empty, or the 2 s of the drain are over.
QuitAfterDrain == loop = "draining" /\ ~busy /\ LeaveLoop("timer")

\* SIGINT or SIGTERM, through the self-pipe's notifier.
QuitOnSignal == Responsive /\ LeaveLoop("signal")

\* A handler that blocks the main thread, such as applyPackageOperation.
BusyStarts ==
    /\ Serving /\ ~busy
    /\ busy' = TRUE
    /\ UNCHANGED <<boot, pid, loop, armed, first, cause, stateFile, netVars, foreign,
                   setup, clientVars, sawDown>>

BusyEnds ==
    /\ busy
    /\ busy' = FALSE
    /\ UNCHANGED <<boot, pid, loop, armed, first, cause, stateFile, netVars, foreign,
                   setup, clientVars, sawDown>>

\* The process is gone with its buffers and its listening sockets.
Vanish ==
    /\ loop' = "gone"
    /\ busy' = FALSE
    /\ inbox' = {} /\ outbuf' = {}
    /\ NoteDown
    /\ UNCHANGED <<boot, pid, armed, first, wire, foreign, setup, clientVars>>

\* logos_core_cleanup, LogSink::stop, state.json once more, the servers.
Exit == loop = "unwinding" /\ Vanish /\ stateFile' = None /\ UNCHANGED cause

Crash == DaemonAlive /\ Vanish /\ cause' = "crash" /\ UNCHANGED stateFile

\* Another daemon of the session, once the check of Daemon::start lets it by.
Restart(p) ==
    /\ ~DaemonAlive /\ boot < Boots /\ ~ProcessAlive(p)
    /\ stateFile # None => ~ProcessAlive(stateFile.pid)
    /\ boot' = boot + 1
    /\ pid' = p
    /\ loop' = "serving"
    /\ armed' = {} /\ first' = None /\ cause' = None
    /\ stateFile' = [inst |-> boot + 1, pid |-> p]
    /\ UNCHANGED <<busy, netVars, foreign, setup, clientVars, sawDown>>

ForeignProcess(p) ==
    /\ \/ p \in foreign /\ foreign' = foreign \ {p}
       \/ ~ProcessAlive(p) /\ foreign' = foreign \cup {p}
    /\ UNCHANGED <<daemonVars, netVars, setup, clientVars, sawDown>>

-----------------------------------------------------------------------------
(* The commands.                                                           *)

\* `status` looks for a dial spec first and reports not_configured.
Begin(c) ==
    /\ \/ Goto(c, "idle", "check")
       \/ verb[c] = "status" /\ Goto(c, "idle", "not_configured")
    /\ sawDown' = IF Serving THEN sawDown ELSE sawDown \cup {c}
    /\ UNCHANGED <<daemonVars, netVars, foreign, setup, seen, dial, watch, late>>

\* detectStaleSession reads the state file before anything else.
ReadState(c) ==
    /\ Goto(c, "check", IF StateFileOf(c) = None THEN "dial" ELSE "pid")
    /\ seen' = [seen EXCEPT ![c] = StateFileOf(c)]
    /\ UNCHANGED <<daemonVars, netVars, foreign, setup, dial, watch, late, sawDown>>

CheckPid(c) ==
    /\ Goto(c, "pid", IF ProcessAlive(seen[c].pid) THEN "dial" ELSE "compare")
    /\ UNCHANGED <<daemonVars, netVars, foreign, setup, seen, dial, watch, late, sawDown>>

\* Slip: a dead pid alone makes the session stale.
CompareNothing(c) ==
    /\ Goto(c, "compare", "refused")
    /\ UNCHANGED <<daemonVars, netVars, foreign, setup, seen, dial, watch, late, sawDown>>

\* The dead daemon has to be the one this client would dial.
CompareInstance(c) ==
    /\ Goto(c, "compare", IF ConfigInstance(c) = seen[c].inst THEN "refused" ELSE "dial")
    /\ UNCHANGED <<daemonVars, netVars, foreign, setup, seen, dial, watch, late, sawDown>>

\* RpcClient::connect: there may be no dial spec, no token or no core_service
\* entry; a local socket may be missing or refuse the connection.
Dial(c) ==
    /\ \/ Goto(c, "dial", "not_configured")
       \/ Goto(c, "dial", IF ~Remote(c) /\ ~DaemonAlive THEN "refused"
                          ELSE IF verb[c] = "stop" THEN "snapshot" ELSE "ask")
    /\ dial' = [dial EXCEPT ![c] = ConfigInstance(c)]
    /\ seen' = [seen EXCEPT ![c] = None]
    /\ UNCHANGED <<daemonVars, netVars, foreign, setup, watch, late, sawDown>>

\* Slip: any live pid in the state file will do.
WatchAnyPid(c) ==
    LET file == StateFileOf(c) IN
    /\ Goto(c, "snapshot", "ask")
    /\ watch' = [watch EXCEPT ![c] =
                    IF file # None /\ ProcessAlive(file.pid) THEN file.pid ELSE None]
    /\ UNCHANGED <<daemonVars, netVars, foreign, setup, seen, dial, late, sawDown>>

\* A pid is worth watching when it is alive and of the instance dialled.
Snapshot(c) ==
    LET file == StateFileOf(c) IN
    /\ Goto(c, "snapshot", "ask")
    /\ watch' = [watch EXCEPT ![c] =
                    IF file # None /\ file.inst = dial[c] /\ ProcessAlive(file.pid)
                    THEN file.pid ELSE None]
    /\ UNCHANGED <<daemonVars, netVars, foreign, setup, seen, dial, late, sawDown>>

\* A socket of an earlier instance, or one nobody listens on, takes nothing.
Reachable(c) == DaemonAlive /\ dial[c] \in {None, boot}

Send(c, what) == inbox' = IF Reachable(c)
                          THEN inbox \cup {[from |-> c, call |-> what]} ELSE inbox

\* A remote command learns, by dialling, which daemon it talks to.
Ask(c) ==
    /\ Goto(c, "ask", "waiting")
    /\ Send(c, IF verb[c] = "stop" THEN "shutdown" ELSE "getStatus")
    /\ dial' = [dial EXCEPT ![c] = IF @ = None /\ DaemonAlive THEN boot ELSE @]
    /\ UNCHANGED <<daemonVars, outbuf, wire, foreign, setup, seen, watch, late, sawDown>>

\* The stop of a client that is not followed any further.
OtherStop(o) ==
    /\ DaemonAlive /\ o \notin armed
    /\ inbox' = inbox \cup {[from |-> o, call |-> "shutdown"]}
    /\ UNCHANGED <<daemonVars, outbuf, wire, foreign, setup, clientVars, sawDown>>

Asked(c) == [from |-> c, call |-> IF verb[c] = "stop" THEN "shutdown" ELSE "getStatus"]

Answered(c) ==
    /\ Asked(c) \in wire
    /\ Goto(c, "waiting", "reply")
    /\ wire' = wire \ {Asked(c)}
    /\ UNCHANGED <<daemonVars, inbox, outbuf, foreign, setup, seen, dial, watch, late, sawDown>>

\* The deadline of the call: 20 s for getStatus, 5 s for shutdown, whose
\* silence confirmDaemonStopped then looks into.
NoAnswer(c) ==
    /\ Asked(c) \notin wire
    /\ Goto(c, "waiting", IF verb[c] = "status" THEN "failed"
                          ELSE IF watch[c] # None THEN "watching" ELSE "probe")
    /\ UNCHANGED <<daemonVars, netVars, foreign, setup, seen, dial, watch, late, sawDown>>

\* waitForProcessExit polls until the pid is gone or the 15 s are over.
SeeExit(c) ==
    /\ ~ProcessAlive(watch[c])
    /\ Goto(c, "watching", "process-exit")
    /\ UNCHANGED <<daemonVars, netVars, foreign, setup, seen, dial, watch, late, sawDown>>

WatchExpires(c) ==
    /\ c \in late /\ ProcessAlive(watch[c])
    /\ Goto(c, "watching", "failed")
    /\ UNCHANGED <<daemonVars, netVars, foreign, setup, seen, dial, watch, late, sawDown>>

DeadlinePasses(c) ==
    /\ at[c] \in {"watching", "probe", "probing"} /\ c \notin late
    /\ late' = late \cup {c}
    /\ UNCHANGED <<daemonVars, netVars, foreign, setup, at, seen, dial, watch, sawDown>>

Probe(c) ==
    /\ Goto(c, "probe", "probing")
    /\ Send(c, "getStatus")
    /\ UNCHANGED <<daemonVars, outbuf, wire, foreign, setup, seen, dial, watch, late, sawDown>>

\* Slip: as long as the daemon answers, it is asked again.
AskAgain(c) ==
    LET reply == [from |-> c, call |-> "getStatus"] IN
    /\ reply \in wire
    /\ wire' = wire \ {reply}
    /\ Goto(c, "probing", "probe")
    /\ UNCHANGED <<daemonVars, inbox, outbuf, foreign, setup, seen, dial, watch, late, sawDown>>

\* A daemon that answers is asked again until the 15 s are over.
ProbeAnswered(c) ==
    LET reply == [from |-> c, call |-> "getStatus"] IN
    /\ reply \in wire
    /\ wire' = wire \ {reply}
    /\ Goto(c, "probing", IF c \in late THEN "failed" ELSE "probe")
    /\ UNCHANGED <<daemonVars, inbox, outbuf, foreign, setup, seen, dial, watch, late, sawDown>>

\* One probe that finds no answer in 1.5 s settles it.
ProbeUnanswered(c) ==
    /\ [from |-> c, call |-> "getStatus"] \notin wire
    /\ Goto(c, "probing", "endpoint-unreachable")
    /\ UNCHANGED <<daemonVars, netVars, foreign, setup, seen, dial, watch, late, sawDown>>

-----------------------------------------------------------------------------
EventLoop == \/ \E m \in inbox : Handle(m)
             \/ \E m \in outbuf : Flush(m)
             \/ Drain \/ QuitAfterDrain \/ BusyEnds \/ Exit

Command(c) ==
    \/ ReadState(c) \/ CheckPid(c) \/ CompareInstance(c) \/ Dial(c)
    \/ Snapshot(c) \/ Ask(c) \/ Answered(c) \/ NoAnswer(c)
    \/ SeeExit(c) \/ WatchExpires(c)
    \/ Probe(c) \/ ProbeAnswered(c) \/ ProbeUnanswered(c)

Next == \/ EventLoop
        \/ QuitOnSignal \/ BusyStarts \/ Crash
        \/ \E o \in Other : OtherStop(o)
        \/ \E p \in Pid : Restart(p) \/ ForeignProcess(p)
        \/ \E c \in Client : Begin(c) \/ Command(c) \/ DeadlinePasses(c)

Spec == Init /\ [][Next]_vars

\* A blocking handler returns (each of its calls has a deadline); the event
\* loop gets to a timer that is due between two handlers; the drain and the
\* unwinding end; a command neither stops nor outlives its deadlines.
Fairness == /\ SF_vars(Drain) /\ WF_vars(QuitAfterDrain)
            /\ WF_vars(BusyEnds) /\ WF_vars(Exit)
            /\ \A c \in Client : WF_vars(Command(c)) /\ WF_vars(DeadlinePasses(c))

FairSpec == Spec /\ Fairness

-----------------------------------------------------------------------------
(* Properties.                                                             *)

\* A stop that exits 0 because of a reply, or because the watched process is
\* gone, spoke of a daemon that is leaving or has left; and for a command in
\* the daemon's own session that holds for an endpoint that went silent, too,
\* however busy a daemon is (StopCommand::execute, RpcClient::shutdown).
StopVerdictTrue ==
    \A c \in Client :
        /\ verb[c] = "stop"
        /\ \/ at[c] \in {"reply", "process-exit"}
           \/ c \in local /\ at[c] = "endpoint-unreachable"
        => Leaving(dial[c])

\* A command with a dial spec and a token is refused with NO_DAEMON only if
\* at some moment since it began nobody served: no pid reuse, no leftover of
\* another daemon and no restart in between makes it turn a daemon away
\* (detectStaleSession, RpcClient::connect).
RefusedOnlyWhenDown ==
    \A c \in Client : at[c] = "refused" => c \in sawDown

\* When a daemon leaves because it was asked to, the reply to the stop that
\* made it leave is no longer in its buffers (CoreServiceImpl::shutdown).
FirstStopAnswered ==
    loop = "unwinding" /\ cause = "timer"
        => [from |-> first, call |-> "shutdown"] \notin outbuf

\* A daemon that answered a stop does stop, also when it is busy at the time
\* (the quit timer of CoreServiceImpl::shutdown).
AnsweredStopStops ==
    \A c \in Client, i \in Instance :
        (at[c] = "reply" /\ verb[c] = "stop" /\ dial[c] = i)
            ~> (boot > i \/ loop = "gone")

\* Every command comes to an end, whether the daemon answers, hangs or dies.
CommandsEnd == \A c \in Client : Working(c) ~> at[c] \in Outcome
=============================================================================
