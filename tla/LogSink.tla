------------------------------- MODULE LogSink -------------------------------
(***************************************************************************)
(* How a daemon captures its own output and its modules'                   *)
(* (src/src/daemon/log_sink.cpp).  start() points stdout and stderr at a   *)
(* pipe; module processes inherit them; a reader thread mirrors what it    *)
(* reads to the original stdout and writes it to the log line by line;     *)
(* stop() points stdout and stderr back and joins the reader, which ends   *)
(* when the pipe has no writer left.                                       *)
(*                                                                         *)
(* Daemon::start opens the log before it looks for a running daemon, so a  *)
(* start that is refused has pruned, linked and logged as well.            *)
(***************************************************************************)
EXTENDS LogFiles, FiniteSets

CONSTANTS
    Daemon,     \* runs of the daemon binary in one session directory
    Module,     \* processes that inherit a daemon's stdout
    PipeCap,    \* capacity of the pipe
    ReadMax,    \* the most one read() returns
    PendingMax, \* the longest tail without a newline that is held back
    MaxWrites   \* bound: writes to the pipe of each daemon

ASSUME CapacityAssumption == {PipeCap, ReadMax} \subseteq Nat \ {0}
ASSUME PendingAssumption == PendingMax \in Nat
ASSUME WritesAssumption == MaxWrites \in [Daemon -> Nat]
ASSUME NameAssumption == "daemon" \notin Module /\ None \notin File \cup Daemon

VARIABLES
    pc,         \* where each daemon is
    stamp,      \* the stamp of its log file
    writers,    \* who holds a write end of its pipe
    pipe,       \* what is in its pipe
    chunk,      \* what its reader took out and has yet to mirror
    pending,    \* the tail its reader holds back
    file,       \* what its reader logged
    cuts,       \* the places in it where the sink ended a line that went on
    written,    \* everything written to its pipe (history)
    stalled,    \* daemons whose original stdout nobody reads at the moment
    latest,     \* the daemon whose start() linked last (history)
    since       \* for each stamp, how many other logs were opened anew or
                \* written since its log was (history, up to MaxFiles)

vars == <<fileVars, pc, stamp, writers, pipe, chunk, pending, file, cuts, written, stalled,
          latest, since>>

Capturing == {"checking", "serving", "stopping", "restored"}
Phase     == {"idle", "uncaptured", "gone"} \cup Capturing

Token == {"x", "nl"}

Goto(d, from, to) ==
    /\ pc[d] = from
    /\ pc' = [pc EXCEPT ![d] = to]

Init ==
    /\ dir = <<>> /\ link = None /\ clock = 1
    /\ pc = [d \in Daemon |-> "idle"]
    /\ stamp = [d \in Daemon |-> 1]
    /\ writers = [d \in Daemon |-> {}]
    /\ pipe = [d \in Daemon |-> <<>>]
    /\ chunk = [d \in Daemon |-> <<>>]
    /\ pending = [d \in Daemon |-> <<>>]
    /\ file = [d \in Daemon |-> <<>>]
    /\ cuts = [d \in Daemon |-> {}]
    /\ written = [d \in Daemon |-> <<>>]
    /\ stalled = {}
    /\ latest = None
    /\ since = [s \in 1..MaxClock |-> MaxFiles]

pipeVars == <<writers, pipe, chunk, pending, file, cuts, written, stalled>>

\* The log of stamp s is now the latest one, if it is in the directory at all.
NoteWritten(s) ==
    since' = [t \in 1..MaxClock |->
        IF t = s THEN (IF Contains(dir', Live(s)) THEN 0 ELSE since[s])
        ELSE IF since[t] < MaxFiles THEN since[t] + 1 ELSE since[t]]

-----------------------------------------------------------------------------
(* LogSink::start.                                                         *)

\* Slip: the pipe's own write end is not closed after the dup2s.
HoldBothEnds(d) == writers' = [writers EXCEPT ![d] = {"daemon", "spare"}]

\* dup2 onto stdout and stderr, and close of the pipe's own write end.
HoldPipe(d) == writers' = [writers EXCEPT ![d] = {"daemon"}]

\* Room is made, the file of this second is opened and linked.
OpenLog(d) ==
    /\ clock' \in NextSecond
    /\ stamp' = [stamp EXCEPT ![d] = clock']
    /\ dir' = Opened(Pruned(MaxFiles - 1), clock')
    /\ Link(clock')
    /\ latest' = d
    /\ IF Contains(Pruned(MaxFiles - 1), Live(clock'))
       THEN UNCHANGED since
       ELSE NoteWritten(clock')

\* The pipe takes over stdout and stderr, the reader thread starts.
Start(d) ==
    /\ Goto(d, "idle", "checking")
    /\ OpenLog(d)
    /\ HoldPipe(d)
    /\ UNCHANGED <<pipe, chunk, pending, file, cuts, written, stalled>>

\* start returns false and the daemon, which may well serve, goes on with the
\* stdout it had: the directory cannot be made, or the file not opened, or no
\* pipe be had, when the old logs are gone and the link is made.
StartFails(d) ==
    /\ Goto(d, "idle", "uncaptured")
    /\ \/ UNCHANGED <<fileVars, latest, since, stamp>>
       \/ /\ dir' = Pruned(MaxFiles - 1)
          /\ UNCHANGED <<link, clock, latest, since, stamp>>
       \/ OpenLog(d)
    /\ UNCHANGED pipeVars

-----------------------------------------------------------------------------
(* The daemon and its modules.                                             *)

\* The already-running check, which comes after LogSink::start.  It finds a
\* serving daemon, captured or not; one that stops has unlinked its state.
Check(d) ==
    /\ \/ /\ \A e \in Daemon : pc[e] # "serving"
          /\ Goto(d, "checking", "serving")
       \/ /\ \E e \in Daemon : pc[e] \in {"uncaptured", "serving"}
          /\ Goto(d, "checking", "stopping")
    /\ UNCHANGED <<fileVars, stamp, pipeVars, latest, since>>

\* A line-buffered line, or a piece of one; the writer waits while there is
\* no room.
Write(d, w, t) ==
    /\ w \in writers[d] /\ w \in Module \cup {"daemon"}
    /\ Len(pipe[d]) < PipeCap /\ Len(written[d]) < MaxWrites[d]
    /\ pipe' = [pipe EXCEPT ![d] = Append(@, t)]
    /\ written' = [written EXCEPT ![d] = Append(@, t)]
    /\ UNCHANGED <<fileVars, pc, stamp, writers, chunk, pending, file, cuts, stalled, latest, since>>

ModuleStarts(d, m) ==
    /\ pc[d] = "serving" /\ \A e \in Daemon : m \notin writers[e]
    /\ writers' = [writers EXCEPT ![d] = @ \cup {m}]
    /\ UNCHANGED <<fileVars, pc, stamp, pipe, chunk, pending, file, cuts, written, stalled, latest, since>>

ModuleExits(d, m) ==
    /\ m \in writers[d]
    /\ writers' = [writers EXCEPT ![d] = @ \ {m}]
    /\ UNCHANGED <<fileVars, pc, stamp, pipe, chunk, pending, file, cuts, written, stalled, latest, since>>

ConsoleStalls(d) ==
    /\ pc[d] = "serving" /\ d \notin stalled
    /\ stalled' = stalled \cup {d}
    /\ UNCHANGED <<fileVars, pc, stamp, writers, pipe, chunk, pending, file, cuts, written, latest, since>>

ConsoleResumes(d) ==
    /\ d \in stalled
    /\ stalled' = stalled \ {d}
    /\ UNCHANGED <<fileVars, pc, stamp, writers, pipe, chunk, pending, file, cuts, written, latest, since>>

-----------------------------------------------------------------------------
(* The reader thread.                                                      *)

Read(d) ==
    /\ pc[d] \in Capturing /\ chunk[d] = <<>> /\ pipe[d] # <<>>
    /\ \E n \in 1..ReadMax :
        /\ n <= Len(pipe[d])
        /\ chunk' = [chunk EXCEPT ![d] = SubSeq(pipe[d], 1, n)]
        /\ pipe' = [pipe EXCEPT ![d] = SubSeq(@, n + 1, Len(@))]
    /\ UNCHANGED <<fileVars, pc, stamp, writers, pending, file, cuts, written, stalled, latest, since>>

LastNewline(s) == SelectLastInSeq(s, LAMBDA t : t = "nl")

\* The lines a chunk completes, and the tail that is held back.
Lines(s) == SubSeq(s, 1, LastNewline(s))
Held(s)  == SubSeq(s, LastNewline(s) + 1, Len(s))

\* Mirror, which waits for the original stdout; then log every complete line,
\* and the tail once it is too long to be held back.
LogChunk(d) ==
    LET text  == pending[d] \o chunk[d]
        long  == Len(Held(text)) > PendingMax
        lines == IF long THEN text ELSE Lines(text)
    IN
    /\ chunk[d] # <<>> /\ d \notin stalled
    /\ UNCHANGED stamp
    /\ chunk' = [chunk EXCEPT ![d] = <<>>]
    /\ file' = [file EXCEPT ![d] = @ \o lines]
    /\ cuts' = IF long THEN [cuts EXCEPT ![d] = @ \cup {Len(file'[d])}] ELSE cuts
    /\ pending' = [pending EXCEPT ![d] = IF long THEN <<>> ELSE Held(text)]
    /\ IF lines = <<>>
       THEN UNCHANGED <<dir, since>>
       ELSE /\ LogLine(stamp[d])
            /\ NoteWritten(stamp[d])
    /\ UNCHANGED <<link, clock, pc, writers, pipe, written, stalled, latest>>

\* stop: stdout and stderr are the original ones again.
Restore(d) ==
    /\ Goto(d, "stopping", "restored")
    /\ writers' = [writers EXCEPT ![d] = @ \ {"daemon"}]
    /\ UNCHANGED <<fileVars, stamp, pipe, chunk, pending, file, cuts, written, stalled, latest, since>>

\* Slip: what has no newline at the end of the pipe is not logged.
EndWithoutTail(d) ==
    /\ writers[d] = {} /\ pipe[d] = <<>> /\ chunk[d] = <<>>
    /\ Goto(d, "restored", "gone")
    /\ pending' = [pending EXCEPT ![d] = <<>>]
    /\ UNCHANGED <<fileVars, stamp, writers, pipe, chunk, file, cuts, written, stalled, latest, since>>

\* The reader sees the end of the pipe, logs what it held back and returns;
\* stop joins it and closes the descriptors.
End(d) ==
    /\ writers[d] = {} /\ pipe[d] = <<>> /\ chunk[d] = <<>>
    /\ Goto(d, "restored", "gone")
    /\ UNCHANGED stamp
    /\ pending' = [pending EXCEPT ![d] = <<>>]
    /\ IF pending[d] = <<>>
       THEN UNCHANGED <<dir, file, cuts, since>>
       ELSE /\ file' = [file EXCEPT ![d] = @ \o pending[d]]
            /\ cuts' = [cuts EXCEPT ![d] = @ \cup {Len(file'[d])}]
            /\ LogLine(stamp[d])
            /\ NoteWritten(stamp[d])
    /\ UNCHANGED <<link, clock, writers, pipe, chunk, written, stalled, latest>>

\* A serving daemon has left its event loop and cleaned up.
Quit(d) ==
    /\ Goto(d, "serving", "stopping")
    /\ UNCHANGED <<fileVars, stamp, pipeVars, latest, since>>

-----------------------------------------------------------------------------
Reader(d) == Read(d) \/ LogChunk(d)

Next ==
    \/ \E d \in Daemon :
        \/ Start(d) \/ StartFails(d) \/ Check(d) \/ Reader(d) \/ Quit(d) \/ Restore(d) \/ End(d)
        \/ \E w \in Module \cup {"daemon"}, t \in Token : Write(d, w, t)
        \/ \E m \in Module : ModuleStarts(d, m) \/ ModuleExits(d, m)
        \/ ConsoleStalls(d) \/ ConsoleResumes(d)

Spec == Init /\ [][Next]_vars

\* The threads run; every module process ends once its daemon is stopping,
\* and somebody reads the original stdout again.
Fairness == \A d \in Daemon :
    /\ WF_vars(Reader(d)) /\ WF_vars(Restore(d)) /\ WF_vars(End(d))
    /\ WF_vars(ConsoleResumes(d))
    /\ \A m \in Module : WF_vars(pc[d] = "restored" /\ ModuleExits(d, m))

FairSpec == Spec /\ Fairness

-----------------------------------------------------------------------------
(* Properties.                                                             *)

\* The log and what is still on its way are, in order and without gaps, what
\* the daemon and its modules wrote, however writes are cut into reads; and a
\* line is broken off only behind more than PendingMax characters of it, or at
\* the end of the output (readerLoop).
LogFollowsStream ==
    \A d \in Daemon :
        /\ file[d] \o pending[d] \o chunk[d] \o pipe[d] = written[d]
        /\ \A c \in cuts[d] :
             \/ pc[d] = "gone" /\ c = Len(file[d])
             \/ c > PendingMax /\ \A i \in (c - PendingMax)..c : file[d][i] # "nl"

\* A daemon that captures its output has its log in the directory, and the
\* stable name leads to a log that is there, unless max_files - 1 other logs
\* were opened anew or written since: starts that were refused prune as well,
\* and only the oldest logs go (pruneOldLogs, LogSink::start).
LogsKept ==
    \A d \in Daemon :
        /\ pc[d] \in Capturing \/ d = latest
        /\ since[stamp[d]] < MaxFiles - 1
        => Present(Live(stamp[d])) /\ (d = latest => link = Live(stamp[d]))

\* A stop returns, whatever is still in the pipe and whoever still writes to
\* it, once the module processes end and the original stdout is read
\* (LogSink::stop and its join).
StopReturns == \A d \in Daemon : pc[d] = "stopping" ~> pc[d] = "gone"
=============================================================================
