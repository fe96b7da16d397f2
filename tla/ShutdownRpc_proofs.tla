------------------------- MODULE ShutdownRpc_proofs -------------------------
(***************************************************************************)
(* Theorems about ShutdownRpc for any clients, process ids and number of   *)
(* restarts: what a command says of the daemon is true of the daemon it    *)
(* meant.                                                                  *)
(***************************************************************************)
EXTENDS ShutdownRpc, TLAPS

\* Every variable keeps its type.
TypeOK ==
    /\ boot \in Instance /\ pid \in Pid
    /\ loop \in {"serving", "draining", "unwinding", "gone"} /\ busy \in BOOLEAN
    /\ armed \subseteq Client \cup Other /\ first \in armed \cup {None}
    /\ cause \in {None, "timer", "signal", "crash"}
    /\ inbox \subseteq Message /\ outbuf \subseteq Message /\ wire \subseteq Message
    /\ foreign \subseteq Pid
    /\ stateFile \in StateFile \cup {None} /\ leftover \in StateFile \cup {None}
    /\ verb \in [Client -> {"stop", "status"}] /\ local \subseteq Client
    /\ at \in [Client -> Step \cup Outcome]
    /\ seen \in [Client -> StateFile \cup {None}]
    /\ dial \in [Client -> Instance \cup {None}]
    /\ watch \in [Client -> Pid \cup {None}]
    /\ late \subseteq Client /\ sawDown \subseteq Client

LEMMA TypeInit == Init => TypeOK
<1> SUFFICES ASSUME Init PROVE TypeOK
  OBVIOUS
<1>1. 1 \in Instance /\ boot = 1
  BY BootsAssumption DEF Init, Instance
<1>2. stateFile \in StateFile \cup {None} /\ leftover \in StateFile \cup {None}
  BY <1>1 DEF Init, StateFile
<1> QED
  BY <1>1, <1>2 DEF Init, TypeOK, Step

LEMMA TypeStep == TypeOK /\ [Next]_vars => TypeOK'
<1> SUFFICES ASSUME TypeOK, [Next]_vars PROVE TypeOK'
  OBVIOUS
<1> USE DEF TypeOK, daemonVars, netVars, clientVars, setup, NoteDown, Goto
<1>1. ASSUME NEW m \in inbox, Handle(m) PROVE TypeOK'
  BY <1>1 DEF Handle, Message
<1>2. ASSUME NEW m \in outbuf, Flush(m) PROVE TypeOK'
  BY <1>2 DEF Flush
<1>3. CASE Drain
  BY <1>3 DEF Drain
<1>4. CASE QuitAfterDrain \/ QuitOnSignal
  BY <1>4 DEF QuitAfterDrain, QuitOnSignal, LeaveLoop
<1>5. CASE BusyStarts \/ BusyEnds
  BY <1>5 DEF BusyStarts, BusyEnds
<1>6. CASE Exit \/ Crash
  BY <1>6 DEF Exit, Crash, Vanish
<1>7. ASSUME NEW p \in Pid, Restart(p) PROVE TypeOK'
  <2>1. boot + 1 \in Instance
    BY <1>7, BootsAssumption DEF Restart, Instance
  <2> QED
    BY <1>7, <2>1 DEF Restart, StateFile
<1>8. ASSUME NEW p \in Pid, ForeignProcess(p) PROVE TypeOK'
  BY <1>8 DEF ForeignProcess
<1>9. ASSUME NEW o \in Other, OtherStop(o) PROVE TypeOK'
  BY <1>9 DEF OtherStop, Message
<1>10. ASSUME NEW c \in Client, Begin(c) \/ ReadState(c) \/ CheckPid(c) \/ CompareInstance(c)
       PROVE  TypeOK'
  BY <1>10 DEF Begin, ReadState, CheckPid, CompareInstance, StateFileOf, Step, Outcome
<1>11. ASSUME NEW c \in Client, Dial(c) PROVE TypeOK'
  BY <1>11 DEF Dial, ConfigInstance, Step, Outcome
<1>12. ASSUME NEW c \in Client, Snapshot(c) PROVE TypeOK'
  BY <1>12 DEF Snapshot, StateFileOf, StateFile, Step
<1>13. ASSUME NEW c \in Client, Ask(c) PROVE TypeOK'
  BY <1>13 DEF Ask, Send, Message, Step
<1>14. ASSUME NEW c \in Client,
              Answered(c) \/ NoAnswer(c) \/ SeeExit(c) \/ WatchExpires(c) \/ DeadlinePasses(c)
       PROVE  TypeOK'
  BY <1>14 DEF Answered, NoAnswer, SeeExit, WatchExpires, DeadlinePasses, Step, Outcome
<1>15. ASSUME NEW c \in Client, Probe(c) \/ ProbeAnswered(c) \/ ProbeUnanswered(c)
       PROVE  TypeOK'
  BY <1>15 DEF Probe, ProbeAnswered, ProbeUnanswered, Send, Message, Step, Outcome
<1>16. CASE UNCHANGED vars
  BY <1>16 DEF vars
<1> QED
  BY <1>1, <1>2, <1>3, <1>4, <1>5, <1>6, <1>7, <1>8, <1>9, <1>10, <1>11, <1>12, <1>13,
     <1>14, <1>15, <1>16 DEF Next, EventLoop, Command

-----------------------------------------------------------------------------
\* The daemon and its state file.

DaemonInv ==
    /\ ~DaemonAlive => inbox = {} /\ outbuf = {}
    /\ loop \in {"serving", "draining"} =>
          stateFile # None /\ stateFile = [inst |-> boot, pid |-> pid]
    /\ stateFile # None =>
          stateFile.inst \in 1..boot /\ (stateFile.inst = boot => stateFile.pid = pid)
    /\ leftover # None => leftover.inst = 0

\* What the steps of the commands leave alone.
LEMMA CommandFrame ==
    ASSUME TypeOK, NEW c \in Client, Begin(c) \/ Command(c) \/ DeadlinePasses(c)
    PROVE  /\ UNCHANGED <<daemonVars, outbuf, foreign, setup>>
           /\ \A d \in Client \ {c} :
                 /\ at'[d] = at[d] /\ seen'[d] = seen[d] /\ dial'[d] = dial[d]
                 /\ watch'[d] = watch[d]
           /\ wire' \subseteq wire
           /\ \A m \in inbox' \ inbox : m.from = c /\ DaemonAlive
           /\ sawDown \subseteq sawDown'
BY DEF TypeOK, Begin, Command, DeadlinePasses, ReadState, CheckPid, CompareInstance, Dial,
       Snapshot, Ask, Answered, NoAnswer, SeeExit, WatchExpires, Probe, ProbeAnswered,
       ProbeUnanswered, Send, Reachable, Goto, netVars, clientVars

LEMMA DaemonStep == TypeOK /\ DaemonInv /\ [Next]_vars => DaemonInv'
<1> SUFFICES ASSUME TypeOK, DaemonInv, [Next]_vars PROVE DaemonInv'
  OBVIOUS
<1> USE DEF DaemonInv, DaemonAlive, daemonVars, netVars, setup
<1>1. ASSUME NEW c \in Client, Begin(c) \/ Command(c) \/ DeadlinePasses(c) PROVE DaemonInv'
  BY <1>1, CommandFrame
<1>2. ASSUME NEW m \in inbox, Handle(m) PROVE DaemonInv'
  BY <1>2 DEF Handle
<1>3. ASSUME NEW m \in outbuf, Flush(m) PROVE DaemonInv'
  BY <1>3 DEF Flush
<1>4. CASE Drain \/ BusyStarts \/ BusyEnds
  BY <1>4 DEF Drain, BusyStarts, BusyEnds, Serving
<1>5. CASE QuitAfterDrain \/ QuitOnSignal
  BY <1>5 DEF QuitAfterDrain, QuitOnSignal, LeaveLoop, Responsive
<1>6. CASE Exit \/ Crash
  BY <1>6 DEF Exit, Crash, Vanish
<1>7. ASSUME NEW p \in Pid, Restart(p) PROVE DaemonInv'
  <2>1. stateFile' = [inst |-> boot', pid |-> pid'] /\ boot' = boot + 1 /\ boot' \in 1..boot'
    BY <1>7 DEF Restart, TypeOK, Instance
  <2>2. stateFile' # None
    <3>1. stateFile' \in StateFile
      BY <1>7, <2>1, BootsAssumption DEF Restart, TypeOK, Instance, StateFile
    <3> QED
      BY <3>1, NoneAssumption
  <2> QED
    BY <1>7, <2>1, <2>2 DEF Restart
<1>8. (\E p \in Pid : ForeignProcess(p)) \/ UNCHANGED vars => DaemonInv'
  BY DEF ForeignProcess, vars
<1>9. ASSUME NEW o \in Other, OtherStop(o) PROVE DaemonInv'
  BY <1>9 DEF OtherStop
<1> QED
  BY <1>1, <1>2, <1>3, <1>4, <1>5, <1>6, <1>7, <1>8, <1>9 DEF Next, EventLoop

\* Once an instance is leaving or has left, it stays that way.
LEMMA LeavingStays ==
    ASSUME TypeOK, NEW i \in 1..boot, Leaving(i), [Next]_vars
    PROVE  Leaving(i)' /\ i \in 1..boot'
<1> USE DEF Leaving, Serving, DaemonAlive, daemonVars, netVars, setup
<1>0. i # None /\ boot \in Nat
  BY NoneAssumption DEF TypeOK, Instance
<1>1. ASSUME NEW c \in Client, Begin(c) \/ Command(c) \/ DeadlinePasses(c)
      PROVE  Leaving(i)' /\ i \in 1..boot'
  BY <1>1, CommandFrame
<1>2. ASSUME NEW p \in Pid, Restart(p) PROVE Leaving(i)' /\ i \in 1..boot'
  BY <1>0, <1>2 DEF Restart
<1>3. ASSUME boot' = boot, armed \subseteq armed', loop' = loop \/ loop' # "serving"
      PROVE  Leaving(i)' /\ i \in 1..boot'
  BY <1>3
<1>4. ASSUME EventLoop \/ QuitOnSignal \/ BusyStarts \/ Crash
      PROVE  Leaving(i)' /\ i \in 1..boot'
  BY <1>3, <1>4 DEF EventLoop, Handle, Flush, Drain, QuitAfterDrain, BusyEnds, Exit,
                    QuitOnSignal, BusyStarts, Crash, LeaveLoop, Vanish
<1>5. ASSUME (\E o \in Other : OtherStop(o)) \/ (\E p \in Pid : ForeignProcess(p)) \/ UNCHANGED vars
      PROVE  Leaving(i)' /\ i \in 1..boot'
  BY <1>3, <1>5 DEF OtherStop, ForeignProcess, vars
<1> QED
  BY <1>1, <1>2, <1>4, <1>5 DEF Next

-----------------------------------------------------------------------------
\* Which daemon a command means, and what it watches.

Early == {"idle", "check", "pid", "compare", "dial", "snapshot"}
Past  == {"waiting", "watching", "probe", "probing"} \cup Outcome

DialInv ==
    \A c \in Client :
        /\ dial[c] # None => dial[c] \in 1..boot
        /\ c \notin local /\ at[c] \in Early \cup {"ask"} => dial[c] = None
        /\ c \in local /\ at[c] \in {"snapshot", "ask", "waiting", "watching", "probe", "probing",
                                    "endpoint-unreachable"} => dial[c] # None

\* A pid that is watched is that of the instance dialled, as long as that one
\* runs; in the daemon's own session there is one to watch unless that daemon
\* is leaving.
Watches(c) ==
    /\ at[c] \in Early => watch[c] = None
    /\ watch[c] # None => /\ dial[c] # None
                          /\ dial[c] = boot /\ DaemonAlive => watch[c] = pid
    /\ at[c] = "watching" => watch[c] # None
    /\ at[c] \in {"probe", "probing", "endpoint-unreachable"} =>
          watch[c] = None /\ verb[c] = "stop"
    /\ /\ c \in local /\ verb[c] = "stop" /\ watch[c] = None
       /\ at[c] \in {"ask", "waiting", "probe", "probing", "endpoint-unreachable"}
       => Leaving(dial[c])
    /\ at[c] = "process-exit" => dial[c] # None /\ Leaving(dial[c])

WatchInv == \A c \in Client : Watches(c)

LEMMA DialStep ==
    TypeOK /\ DaemonInv /\ DialInv /\ [Next]_vars => DialInv'
<1> SUFFICES ASSUME TypeOK, DialInv, [Next]_vars PROVE DialInv'
  OBVIOUS
<1> USE DEF DialInv, daemonVars, netVars, clientVars, setup
<1>0. boot \in Nat \ {0} /\ \A n \in Nat : n # None
  BY NoneAssumption DEF TypeOK, Instance
<1>1. ASSUME boot' \in {boot, boot + 1}, UNCHANGED <<dial, local, at>> PROVE DialInv'
  BY <1>0, <1>1
<1>2. CASE EventLoop \/ QuitOnSignal \/ BusyStarts \/ Crash
  BY <1>1, <1>2 DEF EventLoop, Handle, Flush, Drain, QuitAfterDrain, BusyEnds, Exit,
                    QuitOnSignal, BusyStarts, Crash, LeaveLoop, Vanish
<1>3. CASE (\E o \in Other : OtherStop(o)) \/ UNCHANGED vars
           \/ \E p \in Pid : Restart(p) \/ ForeignProcess(p)
  BY <1>1, <1>3 DEF OtherStop, Restart, ForeignProcess, vars
<1>4. ASSUME NEW c \in Client, Begin(c) \/ ReadState(c) \/ CheckPid(c) \/ CompareInstance(c)
      PROVE  DialInv'
  BY <1>4 DEF Begin, ReadState, CheckPid, CompareInstance, Goto, Early, TypeOK
<1>5. ASSUME NEW c \in Client, Dial(c) PROVE DialInv'
  BY <1>0, <1>5 DEF Dial, Goto, ConfigInstance, Remote, Early, TypeOK
<1>6. ASSUME NEW c \in Client, Snapshot(c) PROVE DialInv'
  BY <1>6 DEF Snapshot, Goto, Early, TypeOK
<1>7. ASSUME NEW c \in Client, Ask(c) PROVE DialInv'
  BY <1>0, <1>7 DEF Ask, Goto, Early, TypeOK
<1>8. ASSUME NEW c \in Client,
             Answered(c) \/ NoAnswer(c) \/ SeeExit(c) \/ WatchExpires(c) \/ DeadlinePasses(c)
      PROVE  DialInv'
  BY <1>8 DEF Answered, NoAnswer, SeeExit, WatchExpires, DeadlinePasses, Goto, Early, TypeOK
<1>9. ASSUME NEW c \in Client, Probe(c) \/ ProbeAnswered(c) \/ ProbeUnanswered(c)
      PROVE  DialInv'
  BY <1>9 DEF Probe, ProbeAnswered, ProbeUnanswered, Goto, Early, TypeOK
<1> QED
  BY <1>2, <1>3, <1>4, <1>5, <1>6, <1>7, <1>8, <1>9 DEF Next, Command

\* A step of the daemon's, of other processes' or of another client's keeps
\* what holds of a command.
LEMMA OthersStep ==
    ASSUME TypeOK, [Next]_vars, NEW c \in Client,
           ~(Begin(c) \/ Command(c) \/ DeadlinePasses(c))
    PROVE  /\ at'[c] = at[c] /\ seen'[c] = seen[c] /\ dial'[c] = dial[c] /\ watch'[c] = watch[c]
           /\ UNCHANGED setup
           /\ \/ boot' = boot + 1 /\ loop = "gone"
              \/ boot' = boot /\ pid' = pid /\ (DaemonAlive' => DaemonAlive)
<1> USE DEF daemonVars, clientVars, setup, DaemonAlive
<1>1. CASE \E d \in Client \ {c} : Begin(d) \/ Command(d) \/ DeadlinePasses(d)
  BY <1>1, CommandFrame
<1>2. CASE EventLoop
  BY <1>2 DEF EventLoop, Handle, Flush, Drain, QuitAfterDrain, BusyEnds, Exit, Serving,
              LeaveLoop, Vanish
<1>3. CASE QuitOnSignal \/ BusyStarts \/ Crash
  BY <1>3 DEF QuitOnSignal, BusyStarts, Crash, Responsive, Serving, LeaveLoop, Vanish
<1>4. CASE (\E o \in Other : OtherStop(o)) \/ UNCHANGED vars
           \/ \E p \in Pid : Restart(p) \/ ForeignProcess(p)
  BY <1>4 DEF OtherStop, Restart, ForeignProcess, vars
<1> QED
  BY <1>1, <1>2, <1>3, <1>4 DEF Next

LEMMA WatchStep ==
    TypeOK /\ DaemonInv /\ DialInv /\ WatchInv /\ [Next]_vars => WatchInv'
<1> SUFFICES ASSUME TypeOK, DaemonInv, DialInv, WatchInv, [Next]_vars, NEW c \in Client
             PROVE  Watches(c)'
  BY DEF WatchInv
<1> USE DEF daemonVars, netVars, clientVars, setup
<1>0. /\ Watches(c)
      /\ boot \in Nat \ {0} /\ \A n \in Nat : n # None
      /\ dial[c] # None => dial[c] \in 1..boot
  BY NoneAssumption DEF TypeOK, Instance, WatchInv, DialInv
<1>1. \A i \in 1..boot : Leaving(i) => boot' > i \/ loop' # "serving" \/ armed' # {}
  BY LeavingStays DEF Leaving, Serving
<1>2. CASE ~(Begin(c) \/ Command(c) \/ DeadlinePasses(c))
  <2>1. DaemonAlive' => boot' = boot + 1 \/ (DaemonAlive /\ boot' = boot /\ pid' = pid)
    BY <1>2, OthersStep
  <2>2. dial[c] # None /\ Leaving(dial[c]) => Leaving(dial[c])'
    BY <1>0, <1>1, <1>2, OthersStep DEF Leaving, Serving
  <2>3. /\ at'[c] = at[c] /\ dial'[c] = dial[c] /\ watch'[c] = watch[c]
        /\ local' = local /\ verb' = verb
    BY <1>2, OthersStep
  <2> QED
    BY <1>0, <2>1, <2>2, <2>3 DEF Watches, DialInv
<1>3. CASE Begin(c) \/ ReadState(c) \/ CheckPid(c) \/ CompareInstance(c)
  BY <1>0, <1>3 DEF Begin, ReadState, CheckPid, CompareInstance, Goto, Watches, Early,
                    TypeOK, DaemonAlive
<1>4. CASE Dial(c)
  <2>1. /\ at'[c] \in {"not_configured", "refused", "snapshot", "ask"}
        /\ at'[c] = "ask" => verb[c] # "stop"
    BY <1>4 DEF Dial, Goto, TypeOK
  <2>2. at[c] = "dial" /\ watch'[c] = watch[c] /\ verb' = verb
    BY <1>4 DEF Dial, Goto
  <2> QED
    BY <1>0, <2>1, <2>2 DEF Watches, Early
<1>5. CASE Snapshot(c)
  <2>1. /\ at[c] = "snapshot" /\ at'[c] = "ask" /\ dial' = dial /\ UNCHANGED <<setup, daemonVars>>
        /\ watch'[c] = LET file == StateFileOf(c) IN
              IF file # None /\ file.inst = dial[c] /\ ProcessAlive(file.pid)
              THEN file.pid ELSE None
    BY <1>5 DEF Snapshot, Goto, TypeOK
  <2>2. watch'[c] # None => /\ dial[c] # None
                            /\ dial[c] = boot /\ DaemonAlive => watch'[c] = pid
    <3>1. CASE c \in local
      BY <1>0, <2>1, <3>1 DEF StateFileOf, Remote, DaemonInv
    <3>2. CASE c \notin local
      BY <1>0, <2>1, <3>2 DEF StateFileOf, Remote, DaemonInv, DialInv, Early
    <3> QED
      BY <3>1, <3>2
  <2>3. c \in local /\ watch'[c] = None => Leaving(dial[c])
    <3>1. ASSUME c \in local, Serving, dial[c] = boot PROVE watch'[c] # None
      <4>1. /\ stateFile = [inst |-> boot, pid |-> pid] /\ ProcessAlive(pid)
            /\ StateFileOf(c) = stateFile
        BY <3>1 DEF Serving, DaemonInv, ProcessAlive, DaemonAlive, StateFileOf, Remote
      <4>2. stateFile # None
        BY <3>1 DEF DaemonInv, Serving
      <4> QED
        BY <2>1, <3>1, <4>1, <4>2, NoneAssumption DEF TypeOK
    <3>2. c \in local => dial[c] \in 1..boot
      BY <1>0, <2>1 DEF DialInv
    <3> QED
      BY <1>0, <3>1, <3>2 DEF Leaving
  <2>4. Leaving(dial[c])' <=> Leaving(dial[c])
    BY <2>1 DEF Leaving, Serving
  <2> QED
    BY <2>1, <2>2, <2>3, <2>4 DEF Watches, Early, DaemonAlive
<1>6. CASE Ask(c)
  BY <1>0, <1>6 DEF Ask, Goto, Watches, Early, TypeOK, DialInv, DaemonAlive, Leaving, Serving
<1>7. CASE Answered(c) \/ NoAnswer(c) \/ WatchExpires(c) \/ DeadlinePasses(c)
  BY <1>0, <1>7 DEF Answered, NoAnswer, WatchExpires, DeadlinePasses, Goto, Watches, Early,
                    TypeOK, DaemonAlive, Leaving, Serving
<1>8. CASE SeeExit(c)
  BY <1>0, <1>8 DEF SeeExit, Goto, Watches, Early, TypeOK, ProcessAlive, DaemonAlive, Leaving,
                    Serving
<1>9. CASE Probe(c) \/ ProbeAnswered(c) \/ ProbeUnanswered(c)
  BY <1>0, <1>9 DEF Probe, ProbeAnswered, ProbeUnanswered, Goto, Watches, Early, TypeOK,
                    DaemonAlive, Leaving, Serving
<1> QED
  BY <1>2, <1>3, <1>4, <1>5, <1>6, <1>7, <1>8, <1>9 DEF Command

-----------------------------------------------------------------------------
\* Requests and replies.

Stop(c) == [from |-> c, call |-> "shutdown"]

\* A client's stop is on its way only once it was sent, to the instance that
\* it means, and a reply to it comes from an instance that is leaving.
Asks(c) ==
    /\ Stop(c) \in inbox \cup outbuf \cup wire \/ c \in armed =>
          at[c] \in Past /\ dial[c] # None
    /\ Stop(c) \in inbox \cup outbuf => dial[c] = boot
    /\ Stop(c) \in outbuf => armed # {}
    /\ Stop(c) \in wire => Leaving(dial[c])
    /\ at[c] = "reply" /\ verb[c] = "stop" => dial[c] # None /\ Leaving(dial[c])

AskInv == \A c \in Client : Asks(c)

LEMMA AskStep ==
    TypeOK /\ DaemonInv /\ DialInv /\ AskInv /\ [Next]_vars => AskInv'
<1> SUFFICES ASSUME TypeOK, DaemonInv, DialInv, AskInv, [Next]_vars, NEW c \in Client
             PROVE  Asks(c)'
  BY DEF AskInv
<1> USE DEF daemonVars, netVars, clientVars, setup
<1>0. /\ Asks(c)
      /\ boot \in Nat \ {0} /\ \A n \in Nat : n # None
      /\ dial[c] # None => dial[c] \in 1..boot
  BY NoneAssumption DEF TypeOK, Instance, AskInv, DialInv
<1>1. \A i \in 1..boot : Leaving(i) => boot' > i \/ loop' # "serving" \/ armed' # {}
  BY LeavingStays DEF Leaving, Serving
<1>2. dial[c] # None /\ Leaving(dial[c]) /\ dial'[c] = dial[c] => Leaving(dial[c])'
  BY <1>0, <1>1 DEF Leaving, Serving
<1>3. ASSUME at'[c] = at[c], dial'[c] = dial[c], UNCHANGED setup,
             inbox' \subseteq inbox \cup {m \in Message : m.from # c},
             Stop(c) \in outbuf' => Stop(c) \in outbuf \/ (Stop(c) \in inbox /\ armed' # {}),
             Stop(c) \in wire' => Stop(c) \in wire \/ Stop(c) \in outbuf,
             armed \subseteq armed', c \in armed' => c \in armed \/ Stop(c) \in inbox,
             boot' = boot
      PROVE  Asks(c)'
  <2>1. Stop(c) \in inbox' => Stop(c) \in inbox
    BY <1>3 DEF Stop
  <2>2. Stop(c) \in wire' => Leaving(dial[c])'
    BY <1>0, <1>2, <1>3 DEF Asks, Leaving
  <2>3. Stop(c)' = Stop(c)
    BY DEF Stop
  <2> QED
    BY <1>0, <1>2, <1>3, <2>1, <2>2, <2>3 DEF Asks
<1>4. ASSUME NEW m \in inbox, Handle(m) PROVE Asks(c)'
  <2>1. m.call = "shutdown" /\ m.from = c => m = Stop(c)
    BY DEF TypeOK, Message, Stop
  <2>2. m = Stop(c) => m.call = "shutdown" /\ m.from = c
    BY DEF Stop
  <2> QED
    BY <1>3, <1>4, <2>1, <2>2 DEF Handle
<1>5. ASSUME NEW m \in outbuf, Flush(m) PROVE Asks(c)'
  BY <1>3, <1>5 DEF Flush
<1>6. CASE Drain \/ QuitAfterDrain \/ BusyEnds \/ BusyStarts \/ QuitOnSignal
  BY <1>3, <1>6 DEF Drain, QuitAfterDrain, BusyEnds, BusyStarts, QuitOnSignal, LeaveLoop
<1>7. CASE Exit \/ Crash
  BY <1>3, <1>7 DEF Exit, Crash, Vanish
<1>8. ASSUME NEW o \in Other, OtherStop(o) PROVE Asks(c)'
  <2>1. o # c
    BY ClientsAssumption
  <2> QED
    BY <1>3, <1>8, <2>1 DEF OtherStop, Message
<1>9. ASSUME NEW p \in Pid, Restart(p) PROVE Asks(c)'
  <2>1. inbox = {} /\ outbuf = {} /\ Stop(c)' = Stop(c)
    BY <1>9 DEF Restart, DaemonInv, Stop
  <2> QED
    BY <1>0, <1>2, <1>9, <2>1 DEF Restart, Asks
<1>10. CASE (\E p \in Pid : ForeignProcess(p)) \/ UNCHANGED vars
  BY <1>3, <1>10 DEF ForeignProcess, vars
<1>11. ASSUME NEW d \in Client \ {c}, Begin(d) \/ Command(d) \/ DeadlinePasses(d) PROVE Asks(c)'
  <2>1. TypeOK'
    BY TypeStep
  <2> QED
    BY <1>3, <1>11, <2>1, CommandFrame DEF TypeOK
<1>12. CASE Begin(c) \/ ReadState(c) \/ CheckPid(c) \/ CompareInstance(c) \/ Dial(c) \/ Snapshot(c)
  <2>1. /\ at[c] \in Early /\ at'[c] # "reply"
        /\ UNCHANGED <<inbox, outbuf, wire, armed>>
    BY <1>12 DEF Begin, ReadState, CheckPid, CompareInstance, Dial, Snapshot, Goto, Early, TypeOK
  <2>2. at[c] \notin Past /\ Stop(c)' = Stop(c)
    BY <2>1 DEF Early, Past, Outcome, Stop
  <2> QED
    BY <1>0, <2>1, <2>2 DEF Asks
<1>13. CASE Ask(c)
  <2>1. at[c] = "ask" /\ at'[c] = "waiting" /\ UNCHANGED <<outbuf, wire, armed, boot>>
    BY <1>13 DEF Ask, Goto, TypeOK
  <2>2. at[c] \notin Past /\ at'[c] \in Past /\ at'[c] # "reply" /\ Stop(c)' = Stop(c)
    BY <2>1 DEF Past, Outcome, Stop
  <2>3. Stop(c) \in inbox' => dial'[c] = boot /\ boot # None
    BY <1>0, <1>13, <2>2 DEF Ask, Send, Reachable, TypeOK, Asks
  <2> QED
    BY <1>0, <2>1, <2>2, <2>3 DEF Asks
<1>14. CASE Answered(c)
  <2>1. /\ Asked(c) \in wire /\ wire' \subseteq wire /\ at'[c] = "reply" /\ dial' = dial
        /\ UNCHANGED <<inbox, outbuf, daemonVars, setup>>
    BY <1>14 DEF Answered, Goto, TypeOK
  <2>2. verb[c] = "stop" => Stop(c) \in wire
    BY <2>1 DEF Asked, Stop
  <2>3. Leaving(dial[c])' <=> Leaving(dial[c])
    BY <2>1 DEF Leaving, Serving
  <2> QED
    BY <1>0, <2>1, <2>2, <2>3 DEF Asks, Past, Outcome, Stop
<1>15. CASE NoAnswer(c) \/ SeeExit(c) \/ WatchExpires(c) \/ Probe(c) \/ ProbeAnswered(c)
            \/ ProbeUnanswered(c)
  <2>1. /\ at'[c] \in Past \ {"reply"} /\ dial' = dial /\ wire' \subseteq wire
        /\ \A m \in inbox' \ inbox : m.call = "getStatus"
        /\ UNCHANGED <<outbuf, daemonVars, setup>>
    BY <1>15 DEF NoAnswer, SeeExit, WatchExpires, Probe, ProbeAnswered, ProbeUnanswered, Goto,
                 Send, Past, Outcome, TypeOK
  <2>2. Stop(c)' = Stop(c) /\ (Stop(c) \in inbox' => Stop(c) \in inbox)
    BY <2>1 DEF Stop
  <2>3. Leaving(dial[c])' <=> Leaving(dial[c])
    BY <2>1 DEF Leaving, Serving
  <2> QED
    BY <1>0, <2>1, <2>2, <2>3 DEF Asks
<1>16. CASE DeadlinePasses(c)
  BY <1>3, <1>16 DEF DeadlinePasses
<1> QED
  BY <1>4, <1>5, <1>6, <1>7, <1>8, <1>9, <1>10, <1>11, <1>12, <1>13, <1>14, <1>15, <1>16
     DEF Next, EventLoop, Command

-----------------------------------------------------------------------------
\* The stop that armed the timer.

FirstInv ==
    /\ \A m \in inbox : m.call = "shutdown" => m.from \notin armed
    /\ IF armed = {} THEN first = None ELSE first \in armed
    /\ loop = "draining" => armed # {}
    /\ loop = "draining" \/ (loop = "unwinding" /\ cause = "timer") => Stop(first) \notin outbuf

LEMMA FirstStep ==
    TypeOK /\ DaemonInv /\ AskInv /\ FirstInv /\ [Next]_vars => FirstInv'
<1> SUFFICES ASSUME TypeOK, DaemonInv, AskInv, FirstInv, [Next]_vars PROVE FirstInv'
  OBVIOUS
<1> USE DEF FirstInv, daemonVars, netVars, clientVars, setup
<1>1. ASSUME UNCHANGED <<armed, first, loop, cause>>, outbuf' \subseteq outbuf,
             \A m \in inbox' \ inbox : m.call = "shutdown" => m.from \notin armed
      PROVE  FirstInv'
  BY <1>1 DEF Stop
<1>2. ASSUME NEW m \in inbox, Handle(m) PROVE FirstInv'
  <2>1. m.from # None /\ m = [from |-> m.from, call |-> m.call]
    BY NoneAssumption DEF TypeOK, Message
  <2>2. armed # {} => m # Stop(first)
    BY <2>1 DEF Stop
  <2>3. CASE m.call = "shutdown"
    <3>1. /\ armed' = armed \cup {m.from} /\ first' \in armed'
          /\ armed # {} => first' = first
          /\ inbox' = inbox \ {m} /\ outbuf' = outbuf \cup {m} /\ UNCHANGED <<loop, cause>>
      BY <1>2, <2>1, <2>3, NoneAssumption DEF Handle, TypeOK
    <3>2. \A n \in inbox' : n.call = "shutdown" => n.from \notin armed'
      BY <2>3, <3>1 DEF TypeOK, Message
    <3> QED
      BY <1>2, <2>2, <3>1, <3>2 DEF Handle, Responsive, Stop
  <2>4. CASE m.call # "shutdown"
    BY <1>2, <2>4 DEF Handle, Stop
  <2> QED
    BY <2>3, <2>4
<1>3. ASSUME NEW m \in outbuf, Flush(m) PROVE FirstInv'
  BY <1>1, <1>3 DEF Flush
<1>4. CASE Drain
  BY <1>4 DEF Drain, Stop
<1>5. CASE QuitAfterDrain \/ QuitOnSignal
  BY <1>5 DEF QuitAfterDrain, QuitOnSignal, LeaveLoop, Responsive, Stop
<1>6. CASE BusyStarts \/ BusyEnds
  BY <1>1, <1>6 DEF BusyStarts, BusyEnds
<1>7. CASE Exit \/ Crash
  BY <1>7 DEF Exit, Crash, Vanish
<1>8. ASSUME NEW p \in Pid, Restart(p) PROVE FirstInv'
  BY <1>8 DEF Restart, DaemonInv
<1>9. ASSUME NEW o \in Other, OtherStop(o) PROVE FirstInv'
  BY <1>1, <1>9 DEF OtherStop
<1>10. CASE (\E p \in Pid : ForeignProcess(p)) \/ UNCHANGED vars
  BY <1>1, <1>10 DEF ForeignProcess, vars
<1>11. ASSUME NEW c \in Client, Begin(c) \/ Command(c) \/ DeadlinePasses(c) PROVE FirstInv'
  <2>1. CASE Ask(c)
    <3>1. c \notin armed
      BY <2>1 DEF Ask, Goto, AskInv, Asks, Past, Outcome
    <3>2. \A m \in inbox' \ inbox : m.from = c
      BY <1>11, CommandFrame
    <3> QED
      BY <1>1, <2>1, <3>1, <3>2 DEF Ask
  <2>2. CASE ~Ask(c)
    <3>1. \A m \in inbox' \ inbox : m.call # "shutdown"
      BY <1>11, <2>2 DEF Begin, Command, DeadlinePasses, ReadState, CheckPid, CompareInstance,
         Dial, Snapshot, Answered, NoAnswer, SeeExit, WatchExpires, Probe, ProbeAnswered,
         ProbeUnanswered, Send
    <3> QED
      BY <1>1, <1>11, <3>1, CommandFrame
  <2> QED
    BY <2>1, <2>2
<1> QED
  BY <1>2, <1>3, <1>4, <1>5, <1>6, <1>7, <1>8, <1>9, <1>10, <1>11 DEF Next, EventLoop

-----------------------------------------------------------------------------
\* Why a client is turned away.

\* A command that runs while nobody serves is known to have seen it; what it
\* read is a state file of its own session, and it compares the instances of
\* the running daemon only if that one was down.
Refusal(c) ==
    /\ Working(c) /\ ~Serving => c \in sawDown
    /\ at[c] \in {"pid", "compare"} =>
          /\ seen[c] # None
          /\ c \in local => /\ seen[c].inst \in 1..boot
                            /\ seen[c].inst = boot => seen[c].pid = pid
          /\ c \notin local => seen[c].inst = 0
    /\ at[c] = "compare" /\ c \in local /\ seen[c].inst = boot => c \in sawDown
    /\ at[c] = "refused" => c \in sawDown

RefusalInv == \A c \in Client : Refusal(c)

\* Whoever ends the service is seen by every command under way.
LEMMA ServiceEnds ==
    ASSUME TypeOK, [Next]_vars, NEW c \in Client,
           ~(Begin(c) \/ Command(c) \/ DeadlinePasses(c))
    PROVE  /\ sawDown \subseteq sawDown'
           /\ Working(c) /\ Serving /\ ~Serving' => c \in sawDown'
           /\ ~Serving /\ Serving' => boot' = boot + 1
<1> USE DEF daemonVars, clientVars, Serving, NoteDown
<1>1. CASE \E d \in Client \ {c} : Begin(d) \/ Command(d) \/ DeadlinePasses(d)
  BY <1>1, CommandFrame
<1>2. CASE EventLoop
  BY <1>2 DEF EventLoop, Handle, Flush, Drain, QuitAfterDrain, BusyEnds, Exit, LeaveLoop, Vanish
<1>3. CASE QuitOnSignal \/ BusyStarts \/ Crash
  BY <1>3 DEF QuitOnSignal, BusyStarts, Crash, Responsive, LeaveLoop, Vanish
<1>4. CASE (\E o \in Other : OtherStop(o)) \/ UNCHANGED vars
           \/ \E p \in Pid : Restart(p) \/ ForeignProcess(p)
  BY <1>4 DEF OtherStop, Restart, ForeignProcess, vars
<1> QED
  BY <1>1, <1>2, <1>3, <1>4 DEF Next

LEMMA RefusalStep ==
    TypeOK /\ DaemonInv /\ RefusalInv /\ [Next]_vars => RefusalInv'
<1> SUFFICES ASSUME TypeOK, DaemonInv, RefusalInv, [Next]_vars, NEW c \in Client
             PROVE  Refusal(c)'
  BY DEF RefusalInv
<1> USE DEF daemonVars, netVars, clientVars, setup
<1>0. /\ Refusal(c)
      /\ boot \in Nat \ {0} /\ \A n \in Nat : n # None
  BY NoneAssumption DEF TypeOK, Instance, RefusalInv
<1>1. CASE ~(Begin(c) \/ Command(c) \/ DeadlinePasses(c))
  <2>1. /\ at'[c] = at[c] /\ seen'[c] = seen[c] /\ local' = local
        /\ boot' = boot + 1 \/ (boot' = boot /\ pid' = pid)
    BY <1>1, OthersStep
  <2>2. /\ sawDown \subseteq sawDown'
        /\ Working(c) /\ Serving /\ ~Serving' => c \in sawDown'
    BY <1>1, ServiceEnds
  <2>3. Working(c)' <=> Working(c)
    BY <2>1 DEF Working
  <2> QED
    BY <1>0, <2>1, <2>2, <2>3 DEF Refusal
<1>2. CASE Begin(c)
  <2>1. /\ at'[c] \in {"check", "not_configured"} /\ UNCHANGED loop
        /\ c \in sawDown' \/ Serving
    BY <1>2 DEF Begin, Goto, TypeOK
  <2> QED
    BY <2>1 DEF Refusal, Serving
<1>3. CASE ReadState(c)
  <2>1. /\ at[c] = "check" /\ at'[c] = IF StateFileOf(c) = None THEN "dial" ELSE "pid"
        /\ seen'[c] = StateFileOf(c) /\ UNCHANGED <<daemonVars, setup, sawDown>>
    BY <1>3 DEF ReadState, Goto, TypeOK
  <2>2. Working(c)
    BY <2>1 DEF Working, Step
  <2>3. CASE c \in local
    BY <1>0, <2>1, <2>2, <2>3 DEF StateFileOf, Remote, DaemonInv, Refusal, Serving
  <2>4. CASE c \notin local
    BY <1>0, <2>1, <2>2, <2>4 DEF StateFileOf, Remote, DaemonInv, Refusal, Serving
  <2> QED
    BY <2>3, <2>4
<1>4. CASE CheckPid(c)
  <2>1. /\ at[c] = "pid" /\ at'[c] = IF ProcessAlive(seen[c].pid) THEN "dial" ELSE "compare"
        /\ UNCHANGED <<daemonVars, setup, seen, sawDown>>
    BY <1>4 DEF CheckPid, Goto, TypeOK
  <2>2. Working(c)
    BY <2>1 DEF Working, Step
  <2>3. at'[c] = "compare" /\ c \in local /\ seen[c].inst = boot => ~Serving
    BY <1>0, <2>1 DEF Refusal, ProcessAlive, DaemonAlive, Serving
  <2> QED
    BY <1>0, <2>1, <2>2, <2>3 DEF Refusal, Serving
<1>5. CASE CompareInstance(c)
  <2>1. /\ at[c] = "compare" /\ UNCHANGED <<daemonVars, setup, seen, sawDown>>
        /\ at'[c] = IF ConfigInstance(c) = seen[c].inst THEN "refused" ELSE "dial"
    BY <1>5 DEF CompareInstance, Goto, TypeOK
  <2>2. Working(c)
    BY <2>1 DEF Working, Step
  <2>3. c \notin local => ConfigInstance(c) # seen[c].inst
    BY <1>0, <2>1 DEF Refusal, ConfigInstance, Remote
  <2>4. c \in local => ConfigInstance(c) = boot
    BY DEF ConfigInstance, Remote
  <2> QED
    BY <1>0, <2>1, <2>2, <2>3, <2>4 DEF Refusal, Serving
<1>6. CASE Dial(c)
  <2>1. /\ at[c] = "dial" /\ UNCHANGED <<daemonVars, sawDown>>
        /\ at'[c] \in {"not_configured", "refused", "snapshot", "ask"}
        /\ at'[c] = "refused" => ~Serving
    BY <1>6 DEF Dial, Goto, TypeOK, DaemonAlive, Serving
  <2>2. Working(c)
    BY <2>1 DEF Working, Step
  <2> QED
    BY <1>0, <2>1, <2>2 DEF Refusal, Serving
<1>7. CASE Snapshot(c) \/ Ask(c) \/ Answered(c) \/ NoAnswer(c) \/ SeeExit(c) \/ WatchExpires(c)
           \/ Probe(c) \/ ProbeAnswered(c) \/ ProbeUnanswered(c)
  <2>1. /\ at[c] \in {"snapshot", "ask", "waiting", "watching", "probe", "probing"}
        /\ at'[c] \notin {"pid", "compare", "refused"}
        /\ UNCHANGED <<daemonVars, sawDown>>
    BY <1>7 DEF Snapshot, Ask, Answered, NoAnswer, SeeExit, WatchExpires, Probe, ProbeAnswered,
                ProbeUnanswered, Goto, TypeOK
  <2>2. Working(c)
    BY <2>1 DEF Working, Step
  <2> QED
    BY <1>0, <2>1, <2>2 DEF Refusal, Serving
<1>8. CASE DeadlinePasses(c)
  BY <1>0, <1>8 DEF DeadlinePasses, Refusal, Working, Serving
<1> QED
  BY <1>1, <1>2, <1>3, <1>4, <1>5, <1>6, <1>7, <1>8 DEF Command

-----------------------------------------------------------------------------
\* The invariant of the composition, and what it says.

StopInv == TypeOK /\ DaemonInv /\ DialInv /\ WatchInv /\ AskInv /\ FirstInv /\ RefusalInv

LEMMA StopInit == Init => StopInv
<1> SUFFICES ASSUME Init PROVE StopInv
  OBVIOUS
<1>1. TypeOK
  BY TypeInit
<1>2. DaemonInv
  <2>1. stateFile # None
    BY <1>1, BootsAssumption, NoneAssumption DEF Init, StateFile, Instance
  <2> QED
    BY <2>1 DEF Init, DaemonInv, DaemonAlive
<1>3. DialInv /\ WatchInv
  BY DEF Init, DialInv, WatchInv, Watches, Early
<1>4. AskInv /\ FirstInv
  BY DEF Init, AskInv, Asks, FirstInv
<1>5. RefusalInv
  BY DEF Init, RefusalInv, Refusal, Working, Serving
<1> QED
  BY <1>1, <1>2, <1>3, <1>4, <1>5 DEF StopInv

LEMMA StopInvariant == Spec => []StopInv
<1>1. StopInv /\ [Next]_vars => StopInv'
  BY TypeStep, DaemonStep, DialStep, WatchStep, AskStep, FirstStep, RefusalStep DEF StopInv
<1> QED
  BY <1>1, StopInit, PTL DEF Spec

\* A stop that reports success on a reply or on the exit of the process it
\* watched spoke of a daemon that is leaving, and one from the daemon's own
\* session also when it reports a silent endpoint, for any clients, restarts
\* and reuse of pids (StopCommand::execute, RpcClient::shutdown).
THEOREM StopVerdicts == Spec => []StopVerdictTrue
<1>1. StopInv => StopVerdictTrue
  BY DEF StopInv, WatchInv, AskInv, Watches, Asks, StopVerdictTrue
<1> QED
  BY <1>1, StopInvariant, PTL

\* A daemon that leaves because it was asked to has sent the reply to the stop
\* that made it leave (the drain in CoreServiceImpl::shutdown).
THEOREM FirstStopIsAnswered == Spec => []FirstStopAnswered
<1>1. StopInv => FirstStopAnswered
  BY DEF StopInv, FirstInv, FirstStopAnswered, Stop
<1> QED
  BY <1>1, StopInvariant, PTL

\* No command is turned away with NO_DAEMON unless nobody served at some
\* moment while it ran (detectStaleSession, RpcClient::connect).
THEOREM RefusalsJustified == Spec => []RefusedOnlyWhenDown
<1>1. StopInv => RefusedOnlyWhenDown
  BY DEF StopInv, RefusalInv, Refusal, RefusedOnlyWhenDown
<1> QED
  BY <1>1, StopInvariant, PTL
=============================================================================
