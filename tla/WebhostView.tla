----------------------------- MODULE WebhostView -----------------------------
(***************************************************************************)
(* One web module's page: the view the daemon holds                        *)
(* (src/src/web/webhost_view.cpp) and the process that runs the page       *)
(* (src/src/webhost/main.cpp), joined by a loopback socket.                *)
(*                                                                         *)
(* On the daemon's side the container's thread spawns the page, installs   *)
(* callbacks and destroys the view; senders write to the channel; a pump   *)
(* thread reads from it, runs the receiver and reports the page's death.   *)
(* `mu` guards the descriptor, the receiver's lock is held while a         *)
(* receiver runs, and the pump's lock while somebody joins the pump.       *)
(*                                                                         *)
(* The container and the peer that installs a receiver are external: a     *)
(* receiver may close the channel or detach itself, and a death callback   *)
(* may destroy the view, all on the pump's thread.                         *)
(***************************************************************************)
EXTENDS Naturals, SequencesExt

CONSTANTS
    Sender,     \* threads that send one message each to the page
    Capacity,   \* pieces of messages the socket holds on its way to the page
    MaxLines,   \* bound: messages the page sends to the daemon
    None        \* nobody

ASSUME CapacityAssumption == Capacity \in Nat \ {0}
ASSUME LinesAssumption == MaxLines \in Nat
ASSUME NoneAssumption == None \notin Sender \cup {"container", "pump", "loss", "teardown"}

VARIABLES
    host,       \* where the container's use of the view is
    stopper,    \* the thread that destroys the view
    announced, alive,   \* m_announced, m_alive
    onDied,     \* a death callback is installed
    noticed,    \* how the callback came to run (history)
    page,       \* the page's process
    dialled,    \* it has connected back
    ended,      \* the stream had ended before the view was stopped (history)
    closed,     \* the channel is closed and the socket shut down
    fd,         \* the descriptor is open
    mu,         \* the sender that is inside write()
    rest,       \* what it has yet to write
    done,       \* senders whose send() has returned
    down,       \* the socket, towards the page
    sent,       \* messages in the order write() took them (history)
    pump,       \* where the pump thread is
    joinable,   \* m_pump can be joined
    selfClosed, \* a receiver closed the channel, which detached the pump
    receiver,   \* a receiver is installed
    running,    \* the pump runs one
    detached,   \* setReceiver(nullptr) has returned since the last receiver
                \* was installed
    up,         \* lines in the socket towards the daemon
    lines,      \* lines the pump has read and not delivered
    said,       \* lines the page has sent
    inbox,      \* pieces the page's process has read
    stage,      \* how far the page has joined the conversation
    backlog,    \* messages the bridge holds until the page is ready
    pending,    \* messages the shim holds until there is a receiver
    posted,     \* messages the shim has posted to the page's event loop
    got         \* messages handed to the page's receiver

viewVars == <<host, stopper, announced, alive, onDied, noticed>>
procVars == <<page, dialled, ended>>
sockVars == <<closed, fd>>
sendVars == <<mu, rest, done, sent>>
pumpVars == <<pump, joinable, selfClosed, running, lines>>
recvVars == <<receiver, detached>>
pageVars == <<inbox, stage, backlog, pending, posted, got>>
vars == <<viewVars, procVars, sockVars, sendVars, pumpVars, recvVars, pageVars,
          down, up, said>>

Owned    == {"new", "up"}           \* the container holds the view
Stopping == {"stopping", "closing", "joining", "destroyed"}

Running   == page \in {"loading", "up"}
Connected == page = "up" /\ ~closed

\* A message is two pieces, the second with the newline.
Frame(m) == <<<<m, 1>>, <<m, 2>>>>

Init ==
    /\ host = "idle" /\ stopper = None
    /\ announced = FALSE /\ alive = TRUE /\ onDied = FALSE /\ noticed = None
    /\ page = "unborn" /\ dialled = FALSE /\ ended = FALSE
    /\ closed = FALSE /\ fd = FALSE
    /\ mu = None /\ rest = <<>> /\ done = {} /\ down = <<>> /\ sent = <<>>
    /\ pump = "unborn" /\ joinable = FALSE /\ selfClosed = FALSE
    /\ receiver = FALSE /\ running = FALSE /\ detached = FALSE
    /\ up = 0 /\ lines = 0 /\ said = 0
    /\ inbox = <<>> /\ stage = "loading"
    /\ backlog = <<>> /\ pending = <<>> /\ posted = <<>> /\ got = <<>>

Goto(from, to) == host = from /\ host' = to

-----------------------------------------------------------------------------
(* spawnView, on the container's thread.                                   *)

\* listenOnLoopback and posix_spawn; either may fail and leaves nothing.
Spawn ==
    /\ \/ Goto("idle", "listening") /\ page' = "loading"
       \/ Goto("idle", "failed") /\ UNCHANGED page
    /\ UNCHANGED <<stopper, announced, alive, onDied, noticed, dialled, ended, sockVars,
                   sendVars, pumpVars, recvVars, pageVars, down, up, said>>

\* poll's 20 s pass, or accept fails: the page is killed and waited for.
GiveUp ==
    /\ Goto("listening", "failed")
    /\ page' = "reaped"
    /\ UNCHANGED <<stopper, announced, alive, onDied, noticed, dialled, ended, sockVars,
                   sendVars, pumpVars, recvVars, pageVars, down, up, said>>

\* accept, also of a page that has died since it connected; the pump starts.
Accept ==
    /\ dialled
    /\ Goto("listening", "new")
    /\ fd' = TRUE
    /\ pump' = "check" /\ joinable' = TRUE
    /\ UNCHANGED <<stopper, announced, alive, onDied, noticed, procVars, closed, sendVars,
                   selfClosed, running, lines, recvVars, pageVars, down, up, said>>

-----------------------------------------------------------------------------
(* The container and the peer.                                             *)

SetOnDied ==
    /\ Goto("new", "up")
    /\ onDied' = TRUE
    /\ UNCHANGED <<stopper, announced, alive, noticed, procVars, sockVars, sendVars,
                   pumpVars, recvVars, pageVars, down, up, said>>

\* Slip: the receiver's lock is not taken.
SetReceiverUnlocked(on) ==
    /\ host \in Owned /\ receiver # on
    /\ receiver' = on
    /\ detached' = ~on
    /\ UNCHANGED <<viewVars, procVars, sockVars, sendVars, pumpVars, pageVars, down, up, said>>

\* setReceiver waits while a receiver runs.
SetReceiver(on) ==
    /\ host \in Owned /\ receiver # on
    /\ ~running
    /\ receiver' = on
    /\ detached' = ~on
    /\ UNCHANGED <<viewVars, procVars, sockVars, sendVars, pumpVars, pageVars, down, up, said>>

\* write() of a closed channel returns false; else it keeps `mu` to the end.
SendBegins(s) ==
    /\ host \in Owned \cup Stopping /\ s \notin done /\ mu = None
    /\ IF closed \/ ~fd
       THEN done' = done \cup {s} /\ UNCHANGED <<mu, rest, sent>>
       ELSE mu' = s /\ rest' = Frame(s) /\ sent' = Append(sent, s) /\ UNCHANGED done
    /\ UNCHANGED <<viewVars, procVars, sockVars, pumpVars, recvVars, pageVars, down, up, said>>

SendReturns(s) == mu' = None /\ rest' = <<>> /\ done' = done \cup {s}

\* send() takes what there is room for, and waits while there is none.
SendPiece(s) ==
    /\ mu = s /\ Running /\ Len(down) < Capacity
    /\ down' = Append(down, Head(rest))
    /\ IF Len(rest) = 1
       THEN SendReturns(s)
       ELSE rest' = Tail(rest) /\ UNCHANGED <<mu, done>>
    /\ UNCHANGED <<viewVars, procVars, sockVars, pumpVars, recvVars, pageVars, up, said, sent>>

\* send() fails once the other end is gone.
SendFails(s) ==
    /\ mu = s /\ ~Running
    /\ SendReturns(s)
    /\ UNCHANGED <<viewVars, procVars, sockVars, sent, pumpVars, recvVars, pageVars, down,
                   up, said>>

-----------------------------------------------------------------------------
(* ~WebhostView, on the container's thread or inside the death callback.   *)

\* The death is not to be reported any more; SIGTERM.
BeginStop(by) ==
    /\ by = "pump" => pump = "callback"
    /\ Goto("up", "stopping")
    /\ stopper' = by
    /\ announced' = TRUE /\ alive' = FALSE
    /\ UNCHANGED <<onDied, noticed, procVars, sockVars, sendVars, pumpVars, recvVars,
                   pageVars, down, up, said>>

\* Slip: the channel is closed first, and the page killed afterwards.
CloseBeforeKill ==
    /\ mu = None
    /\ Goto("stopping", "closing")
    /\ page' = "reaped"
    /\ UNCHANGED <<stopper, announced, alive, onDied, noticed, dialled, ended, sockVars,
                   sendVars, pumpVars, recvVars, pageVars, down, up, said>>

\* waitpid finds that the page has ended, or SIGKILL ends it.
Reap ==
    /\ Goto("stopping", "closing")
    /\ page' = "reaped"
    /\ UNCHANGED <<stopper, announced, alive, onDied, noticed, dialled, ended, sockVars,
                   sendVars, pumpVars, recvVars, pageVars, down, up, said>>

\* SocketState::shutdownFd.
Shut ==
    /\ mu = None
    /\ Goto("closing", "joining")
    /\ closed' = TRUE
    /\ UNCHANGED <<stopper, announced, alive, onDied, noticed, procVars, fd, sendVars,
                   pumpVars, recvVars, pageVars, down, up, said>>

\* Slip: the pump is never waited for.
DetachAlways ==
    /\ Goto("joining", "destroyed")
    /\ joinable' = FALSE
    /\ UNCHANGED <<stopper, announced, alive, onDied, noticed, procVars, sockVars, sendVars,
                   pump, selfClosed, running, lines, recvVars, pageVars, down, up, said>>

\* The pump detaches itself; anyone else joins it, holding the pump's lock.
Join ==
    /\ ~joinable \/ stopper = "pump" \/ pump = "done"
    /\ Goto("joining", "destroyed")
    /\ joinable' = FALSE
    /\ UNCHANGED <<stopper, announced, alive, onDied, noticed, procVars, sockVars, sendVars,
                   pump, selfClosed, running, lines, recvVars, pageVars, down, up, said>>

PumpLocked == host = "joining" /\ joinable /\ stopper = "container"

-----------------------------------------------------------------------------
(* SocketState::pump.                                                      *)

Pump(from, to) == pump = from /\ pump' = to

\* The loop's condition, under `mu`.
PumpChecks ==
    /\ mu = None
    /\ Pump("check", IF closed THEN "end" ELSE "recv")
    /\ UNCHANGED <<viewVars, procVars, sockVars, sendVars, joinable, selfClosed, running,
                   lines, recvVars, pageVars, down, up, said>>

\* recv returns some lines, or finds the stream ended or in error.
PumpReads ==
    /\ \/ /\ up > 0 /\ Pump("recv", "deliver")
          /\ \E n \in 1..up : lines' = n /\ up' = up - n
       \/ /\ up = 0 /\ (closed \/ ~Running) /\ Pump("recv", "end")
          /\ UNCHANGED <<lines, up>>
    /\ UNCHANGED <<viewVars, procVars, sockVars, sendVars, joinable, selfClosed, running,
                   recvVars, pageVars, down, said>>

\* A copy of the receiver is called, under the receiver's lock; without one
\* the line is dropped.
Deliver ==
    /\ pump = "deliver" /\ ~running /\ lines > 0
    /\ running' = receiver
    /\ lines' = lines - 1
    /\ UNCHANGED <<viewVars, procVars, sockVars, sendVars, pump, joinable, selfClosed,
                   recvVars, pageVars, down, up, said>>

\* The receiver returns; it may have detached itself.
Delivered ==
    /\ pump = "deliver" /\ running
    /\ running' = FALSE
    /\ receiver' \in {receiver, FALSE}
    /\ UNCHANGED <<viewVars, procVars, sockVars, sendVars, pump, joinable, selfClosed, lines,
                   detached, pageVars, down, up, said>>

AllDelivered ==
    /\ ~running /\ lines = 0
    /\ Pump("deliver", "check")
    /\ UNCHANGED <<viewVars, procVars, sockVars, sendVars, joinable, selfClosed, running,
                   lines, recvVars, pageVars, down, up, said>>

\* The receiver closes the channel it runs for: shutdownFd ...
SelfClose ==
    /\ running /\ mu = None
    /\ Pump("deliver", "selfclosing")
    /\ closed' = TRUE
    /\ UNCHANGED <<viewVars, procVars, fd, sendVars, joinable, selfClosed, running, lines,
                   recvVars, pageVars, down, up, said>>

\* ... and the pump, which cannot join itself, is detached.
SelfDetach ==
    /\ ~PumpLocked
    /\ Pump("selfclosing", "deliver")
    /\ selfClosed' = (selfClosed \/ joinable)
    /\ joinable' = FALSE
    /\ UNCHANGED <<viewVars, procVars, sockVars, sendVars, running, lines, recvVars, pageVars,
                   down, up, said>>

\* Past the loop the descriptor is closed, under `mu`.
PumpEnds ==
    /\ mu = None
    /\ Pump("end", "announce")
    /\ closed' = TRUE /\ fd' = FALSE
    /\ ended' = (ended \/ host \in Owned)
    /\ UNCHANGED <<viewVars, page, dialled, sendVars, joinable, selfClosed, running, lines,
                   recvVars, pageVars, down, up, said>>

\* Slip: a deliberate teardown does not silence the announcement.
AnnounceAnyway ==
    /\ IF onDied THEN Pump("announce", "callback") ELSE Pump("announce", "done")
    /\ noticed' = IF onDied THEN (IF ended THEN "loss" ELSE "teardown") ELSE noticed
    /\ announced' = TRUE /\ alive' = FALSE
    /\ UNCHANGED <<host, stopper, onDied, procVars, sockVars, sendVars, joinable, selfClosed,
                   running, lines, recvVars, pageVars, down, up, said>>

\* announceDeath, on the view the pump was started for.
Announce ==
    /\ IF announced \/ ~onDied THEN Pump("announce", "done") ELSE Pump("announce", "callback")
    /\ noticed' = IF announced \/ ~onDied THEN noticed
                  ELSE IF ended THEN "loss" ELSE "teardown"
    /\ announced' = TRUE /\ alive' = FALSE
    /\ UNCHANGED <<host, stopper, onDied, procVars, sockVars, sendVars, joinable, selfClosed,
                   running, lines, recvVars, pageVars, down, up, said>>

\* The callback returns, after destroying the view if it began to.
CallbackReturns ==
    /\ stopper = "pump" => host = "destroyed"
    /\ Pump("callback", "done")
    /\ UNCHANGED <<viewVars, procVars, sockVars, sendVars, joinable, selfClosed, running,
                   lines, recvVars, pageVars, down, up, said>>

-----------------------------------------------------------------------------
(* The page's process.                                                     *)

Dial ==
    /\ page = "loading" /\ host = "listening"
    /\ page' = "up" /\ dialled' = TRUE
    /\ UNCHANGED <<viewVars, ended, sockVars, sendVars, pumpVars, recvVars, pageVars, down,
                   up, said>>

\* It cannot connect, crashes, is told to end, loses its renderer or has its
\* channel closed by the page; what it had sent may be lost with it.
Dies ==
    /\ Running
    /\ page' = "zombie"
    /\ up' \in {up, 0}
    /\ UNCHANGED <<viewVars, dialled, ended, sockVars, sendVars, pumpVars, recvVars, pageVars,
                   down, said>>

\* readyRead: pieces are put together, and deliverToPage takes the lines.
PageReads ==
    /\ Connected /\ down # <<>>
    /\ down' = Tail(down)
    /\ LET text  == Append(inbox, Head(down))
           whole == Head(down)[2] = 2
           line  == IF whole THEN <<text>> ELSE <<>>
       IN
       /\ inbox' = IF whole THEN <<>> ELSE text
       /\ backlog' = IF stage = "loading" THEN backlog \o line ELSE backlog
       /\ pending' = IF stage = "ready" THEN pending \o line ELSE pending
       /\ posted' = IF stage = "joined" THEN posted \o line ELSE posted
    /\ UNCHANGED <<viewVars, procVars, sockVars, sendVars, pumpVars, recvVars, stage, got, up,
                   said>>

\* Slip: what was held back before the page was ready is forgotten.
ReadyDropsBacklog ==
    /\ Connected /\ stage = "loading"
    /\ stage' = "ready"
    /\ backlog' = <<>>
    /\ UNCHANGED <<viewVars, procVars, sockVars, sendVars, pumpVars, recvVars, inbox, pending,
                   posted, got, down, up, said>>

\* Bridge::ready, once, when the shim can hear the bridge.
Ready ==
    /\ Connected /\ stage = "loading"
    /\ stage' = "ready"
    /\ pending' = pending \o backlog
    /\ backlog' = <<>>
    /\ UNCHANGED <<viewVars, procVars, sockVars, sendVars, pumpVars, recvVars, inbox, posted,
                   got, down, up, said>>

\* The shim's setReceiver, with a function or with none.  What it held is not
\* delivered here but posted, like any later message.
Receive(on) ==
    /\ Connected
    /\ stage = (IF on THEN "ready" ELSE "joined")
    /\ stage' = (IF on THEN "joined" ELSE "ready")
    /\ posted' = IF on THEN posted \o pending ELSE posted
    /\ pending' = IF on THEN <<>> ELSE pending
    /\ UNCHANGED <<viewVars, procVars, sockVars, sendVars, pumpVars, recvVars, inbox, backlog,
                   got, down, up, said>>

\* The page's event loop runs what was posted first, for the receiver of then,
\* also when that has been taken off since, and when the socket has closed.
HandOver ==
    /\ page = "up" /\ posted # <<>>
    /\ got' = Append(got, Head(posted))
    /\ posted' = Tail(posted)
    /\ UNCHANGED <<viewVars, procVars, sockVars, sendVars, pumpVars, recvVars, inbox, stage,
                   backlog, pending, down, up, said>>

\* Bridge::toHost.
PageSays ==
    /\ Connected /\ stage # "loading" /\ said < MaxLines
    /\ said' = said + 1 /\ up' = up + 1
    /\ UNCHANGED <<viewVars, procVars, sockVars, sendVars, pumpVars, recvVars, pageVars, down>>

-----------------------------------------------------------------------------
SpawnView == Spawn \/ GiveUp \/ Accept
Teardown  == Reap \/ Shut \/ Join
PumpRuns  == \/ PumpChecks \/ PumpReads \/ Deliver \/ Delivered \/ AllDelivered
             \/ SelfDetach \/ PumpEnds \/ Announce \/ CallbackReturns
Page      == \/ Dial \/ Dies \/ PageReads \/ Ready \/ HandOver \/ PageSays
             \/ \E on \in BOOLEAN : Receive(on)

Next ==
    \/ SpawnView \/ SetOnDied \/ Teardown \/ PumpRuns \/ SelfClose \/ Page
    \/ \E on \in BOOLEAN : SetReceiver(on)
    \/ \E by \in {"container", "pump"} : BeginStop(by)
    \/ \E s \in Sender : SendBegins(s) \/ SendPiece(s) \/ SendFails(s)

Spec == Init /\ [][Next]_vars

\* The daemon's threads run and receivers return.  Nothing is assumed of the
\* page: it may stop reading for good.
Fairness ==
    /\ WF_vars(Reap) /\ SF_vars(Shut) /\ WF_vars(Join)
    /\ SF_vars(PumpRuns)
    /\ \A s \in Sender : WF_vars(SendPiece(s)) /\ WF_vars(SendFails(s))

FairSpec == Spec /\ Fairness

-----------------------------------------------------------------------------
(* Properties.                                                             *)

\* While the socket holds, what the page's receiver got, what the page's event
\* loop, the shim, the bridge, the process and the socket still hold, and what is
\* left to write
\* are the messages sent, whole and in order: whatever the page's progress
\* when they arrive (SocketState::write, Bridge, the shim's deliver).
MessagesKept ==
    Connected =>
        FlattenSeq(got \o posted \o pending \o backlog) \o inbox \o down \o rest
            = FlattenSeq([i \in DOMAIN sent |-> Frame(sent[i])])

\* After setReceiver(nullptr) returned on another thread no receiver runs, so
\* its owner may go away (SocketChannel::setReceiver, SocketState::pump).
DetachIsFinal == detached => ~running

\* The death callback runs for a stream that ended while the container held
\* the view, and never because the container tore the view down
\* (WebhostView::announceDeath and stop).
DeathIsLoss == noticed # "teardown"

\* The view outlives the pump that reports to it, but for a channel that a
\* receiver had closed: its pump was detached, and nobody waits for it
\* (spawnView's raw pointer, SocketChannel::shutdown).
ViewOutlivesPump ==
    host = "destroyed" /\ ~selfClosed
        => pump = "done" \/ (stopper = "pump" /\ pump = "callback")

\* Destroying a view ends, also when a sender is blocked on a page that does
\* not read, unless a receiver closes the channel while the pump is joined
\* (WebhostView::stop).
TeardownEnds ==
    host = "stopping" ~> (host = "destroyed" \/ (host = "joining" /\ pump = "selfclosing"))
=============================================================================
