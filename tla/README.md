# A TLA+ verification of logoscore-cli

TLA+ models of the daemon and its clients: who owns a session directory and how
a daemon is asked to leave it, how a boot is configured, the token store, the
package operations, the module lifecycle, the log and the web modules' pages;
with TLC runs and TLAPS proofs. Source paths are relative to `src/src/`:
`daemon.cpp:724` is line 724 of `src/src/daemon/daemon.cpp`.

## 1. The system

`logosctl` (and its older form `logoscore`) is one binary with two faces. As a
*daemon* it hosts modules, each in a process of its own, and serves RPCs of the
`core_service` object from a Qt event loop. As a *client* it is a short-lived
process that finds the daemon through files of a *session directory* and makes
one or a few RPCs. What the two share is on disk.

| part | state | operations | talks to | module |
|---|---|---|---|---|
| daemon session (`daemon.cpp`, `daemon_state.cpp`, `main.cpp`) | `daemon/state.json`, `client/config.yaml`, `client/auto.json`, the process | check, boot, publish, serve, stop; detach and wait | token store, logos_core, clients through files | `DaemonSession` |
| daemon stop and client session (`client.cpp`, `command.cpp`, `core_service_impl.cpp:691-730`) | dial spec and state file as read, connection, quit timer | detect a stale session, connect, stop, confirm | daemon, its files, its pid | `ShutdownRpc` |
| configuration of a boot (`main.cpp`, `main_legacy.cpp`, `daemon_state.cpp`, `package_bootstrap.cpp`, `port_allocator.cpp`, `config_command.cpp`) | `daemon/config.*`, client file, bound listeners, package_manager's settings | read, layer, guard, bind, bootstrap, publish, persist | files, kernel, package_manager | `SessionConfig`, `DaemonBoot` |
| token store (`token_store.cpp`) | `daemon/tokens.json`, `daemon/tokens/<name>.json` | issue, replace, revoke, look up, list | daemon's validator, operators | `TokenStore` |
| package operations (`package_ops.cpp`) | none between calls | plan, apply (install, upgrade, remove), download | package_manager, package_downloader, logos_core | `PackageOps` |
| core_service (`core_service_impl.cpp`) | event subscriptions | load, unload, reload, call, watch | logos_core, modules | `ModuleLifecycle` |
| call envelope (`call_envelope.cpp`) | none | classify what a module call answered | core_service, client | `CallEnvelope` |
| log sink (`log_sink.cpp`) | stdout and stderr, pipe, reader thread, log files | start, read, rotate, stop, prune | everything that prints | `LogFiles`, `LogSink` |
| web module views (`webhost_view.cpp`, `webhost/main.cpp`) | socket, pump thread, child process, page | spawn, pump, write, die, stop | logos_core's web container | `WebhostView` |
| YAML, schema, paths, access policy, output | none | parse, validate, format | | |

What is hard in it:

- **Ownership without a lock.** One daemon per directory is enforced by reading
  a file at the start of a boot and writing it near its end; pids are reused and
  processes get killed in between. A stop removes the file first, takes seconds, and removes it again.
- **A request that ends its own server.** The reply to a stop races the end of the
  loop that sends it; the client then has to tell a dead daemon from a busy one by a pid or by silence.
- **Several writers per file.** Token commands and booting daemons rewrite
  `tokens.json` without a lock and through one temporary name; boots and client commands rewrite the client's dial spec.
- **Multi-step operations without undo**, in a dozen calls to modules that may
  refuse, die, or act and not be heard.
- **One configuration from many sources**: two front ends, files, an `ssl` block, flags, defaults; a guard that one path avoids is a hole.
- **Threads and descriptors** in the log sink and the web views: callbacks that close, detach or
  destroy what calls them, joins that wait for a peer, ends of pipes that other processes hold.

What makes each part correct: one owner and one truthful announcement per
directory; a verdict about the daemon that was meant; listeners no guard would
refuse and a persisted configuration that boots again as itself; a store that is a map every
successful call changes atomically; packages changed as announced and never under a running module;
replies that say what happened; every line logged; nobody using a view after it is gone, and every
stop, teardown, command and operation coming to an end.

## 2. Modules

| module | what it is |
|---|---|
| `SessionOwner` | abstract: a directory with at most one owner and an announcement |
| `DaemonSession` | daemons, detach parents, crashes and other processes around one directory; implements `SessionOwner` |
| `ShutdownRpc` | stop and status commands against a daemon's event loop, its end and its restart |
| `SessionConfig` | what documents and flags mean: pure operators |
| `DaemonBoot` | one session's configuration through boots, bootstrap, persisting and client commands; over `SessionConfig` |
| `TokenMap` | abstract: a map from names to tokens changed by one step per call |
| `TokenStore` | issue and revoke, file operation by file operation; implements `TokenMap` |
| `PackageOps` | plan and apply with their three partners |
| `CallEnvelope` | what is made of the answer to a call: pure operators |
| `ModuleLifecycle` | core_service's handlers over logos_core; over `CallEnvelope` |
| `LogFiles` | the log directory: names, order of modification, the stable link |
| `LogSink` | descriptors, pipe, reader and stop; over `LogFiles` |
| `WebhostView` | view, channel, pump, page |
| `..._proofs` | the theorems of section 4 |
| `MC...` | model values, symmetry and the inputs of the runs |

Each modelling module contains a few definitions introduced by a comment
`Slip:`. They are not part of any specification: each is a definition of the
model with a plausible mistake in it (a dropped guard, a lock not taken, a file
opened in the wrong place), and every property of every passing run is violated
when one of them takes its original's place. They show what the property would catch.

### DaemonSession

A `Daemon` is one run of the binary, so it is also an instance id. `pc` follows
`Daemon::start`:

| `pc` | place in `daemon.cpp` | leaves by |
|---|---|---|
| `checking` | before 406 | `Refuse`, `PassCheck` |
| `starting` | 424-641: core, transports, registration | `StartCore`, `FailBoot` |
| `bound` | 643-677 | `IssueAutoToken`, `FailBoot` |
| `issued` | 679-732 | `PublishState`, `FailBoot` |
| `published` | 747-767, `daemon_state.cpp:747-788` | `ReadDialSpec`, `FailArtifacts` |
| `decided` | `daemon_state.cpp:790-822` | `WriteDialSpec`, `FailArtifacts` |
| `dialspec` | `daemon_state.cpp:824-842` | `WriteClientToken`, `FailArtifacts` |
| `serving` | 784-789, the event loop | `Quit` |
| `unlinked` | 791-796 | `Cleanup` |
| `cleaned` | 797-805 | `Exit` |

`stateFile`, `dialSpec` and `clientToken` are files; each is replaced by an atomic
rename (`atomicWriteText`), so one step. What a daemon found in the dial spec is `seen`, and it writes
in a later step: an operator (`RepointTokenFile`, `InstallDialSpec`) or another daemon may be there in between. `autoToken` is the entry the booting daemon
puts into `tokens.json`. `parent` is the process of `daemon start --detach`
(`main.cpp:559-777`): `LaunchDetached` removes `state.json` and forks,
`ParentSeesState` and `ParentSeesNoState` are its poll and its 60 s limit.
`ProcessAlive` is `kill(pid, 0)`: it is true of any process with that pid, hence
`foreign`. `Crash` is possible anywhere.

`Spec` puts no limit on operators; `SerialSpec` starts or stops a daemon only when
all others are serving or gone and every parent has returned; `CarefulSpec` adds that a detached start is made only where nobody serves (it would take the state
file from who does, `session_detached_start`). Crashes, failing boots, pid reuse and operators' edits are free in all of them.
How a daemon comes to quit is `ShutdownRpc`; what it boots with is `DaemonBoot`.

### ShutdownRpc

A `Client` is one command, `stop` or `status`; `at` is its step or its outcome. `ReadState`,
`CheckPid` and `CompareInstance` are `detectStaleSession` (`command.cpp`), three reads with
anything in between; `Dial` is `RpcClient::connect`; `Snapshot` notes a pid worth watching
(`client.cpp:346-380`); `Ask`, `Answered` and `NoAnswer` are the request; `SeeExit`, `WatchExpires`, `Probe`,
`ProbeAnswered` and `ProbeUnanswered` the confirmation of a stop whose reply was lost
(`client.cpp:400-442`). A client is either in the daemon's own session, sharing its files and dialling a
socket named after an instance, or remote, dialling a port that any later daemon may have, from a
directory with a leftover of some daemon of its own (`leftover`, instance 0).

The daemon is its main thread's `loop` (`serving`, `draining` inside the quit timer,
`unwinding` after `exec`, `gone`) and whether a handler blocks it (`busy`). A request sits in `inbox`, its
reply in `outbuf` until a pass of the loop flushes it, and on the `wire` from then on, also when the daemon has died.
`Handle` of a shutdown arms a timer and answers; `Drain` is the timer's `processEvents`, whose first pass
services every socket; `QuitAfterDrain` leaves the loop; `QuitOnSignal` leaves it without a drain.
Clients in `Other` ask for a stop only: they are who came first.

Left out: deadlines as numbers (a reply may always be late), tokens (an unusable one ends in
`not_configured`), TLS. Daemons of one session do not overlap here; `DaemonSession` is about those that do.

### SessionConfig and DaemonBoot

`SessionConfig` has no state. A listener keeps its protocol, the kind of its host, its port and which
of certificate and key it names; a document is readable or not, has known keys or not, and says a
`Config`. `Loaded` is the reader, `Written` the writer, `Layered` and `FlagsAccepted` the flags of
`logoscore`, `WithSsl` `applySslDefaults`, `Prepared` the defaults and the move of `local` to the front,
`MayBoot` the guards of the two front ends. Plain operators, no recursion: they are what the proofs are about.

In `DaemonBoot` `pc` follows a boot: `Launch` resolves and guards, `BuildTransports` allocates the ports of
`core_service` and then `capability_module`, `LoadBundled`, `Configure` and `EndBootstrap` are
`package_bootstrap.cpp`, `Publish` is `state.json`, `Persist` `--persist-config`, `ReadArtifacts` and
`WriteArtifacts` the client file, looked at in one step and written in a later one. The unload of a package_manager that did not get its
policy may be refused, and nobody looks: `manager.kept`.
Around it an operator edits or installs documents (`Edit`, `ConfigSet`), other processes take ports, and a
`logoscore` client command with `--persist-config` reads, truncates and writes the client file in steps of its own.

Left out: `resetPendingAction` (no setting), the pairs of directories
`setEmbedded*` and `setUser*` are one setting each, package_downloader's settings, `access_policy` and
`container` (passed on as they are). Whether the load of the bundled modules succeeds is free.

### TokenStore

An element of `Op` is a call of `issueToken` or `revokeToken` and the token it would
generate. Files are inodes: `tokens` and `tmp` say which inode has which name, `fd`
which one a call writes to, `data` what is in it. That is what makes the shared
temporary visible: `OpenTmp` truncates the inode another call holds open, `WriteTmp` writes
wherever the descriptor points, `PublishTokens` renames whatever has the name. `Faults`
chooses what may fail: any file operation ("io"), the flush of a raw file at its close, which
nobody notices ("flush"; `short` is the set of tokens whose raw text was lost that way), both attempts to promote the raw
file ("promote"), the process ("crash"). A file the parser rejects and a missing
one read as an empty list; another schema version stops the call first.
`Spec` lets calls overlap at every file operation, `AloneSpec` runs them one after another.

`TokenMap` is the contract of a call: it is asked (`Ask`), takes effect once, as it was asked to (`Apply`), and only then reports ok
(`ReportOk`), or it reports why not and never takes effect (`Refuse`), or dies. `asked` and `outcome` are tied to
`job` and `pc`, so a call that reports Ok without effect is not a stutter there.

Left out: expiry and `local_only`, which only narrow what is accepted; hashing,
which is injective here; permissions; `listTokens`, which changes nothing.

### PackageOps

`disk` and `loaded` are the world; `gate` is package_manager's pending action; the
other variables are `apply`'s locals: `planned` (the changes of its plan),
`toRestore` (`affected_loaded`), `left` (names yet to be confirmed), `got` (files to
install). `refused` is a history: who was to stop and did not. `pc` follows `apply`
(`package_ops.cpp:383-545`): request, ack, unload, confirm, and for catalog packages
download, install, restart; a local file is installed behind its own gate; a
removal ends with its confirmation.

Every call may be refused, or be carried out and its answer lost (`call` returns null on a
deadline); both end the operation as `fail` does, with nothing undone. A module may refuse to stop, and what it
needs then stays up with it (`Stoppable`); `apply` does not look and goes on. A
call whose effect arrives after the operation has returned is not modelled. `apply`
blocks the event loop, so operations and module commands do not interleave;
module processes die at any moment and package_manager's 3 s timer fires at any moment.

External and modelled from their use: package_manager (one pending action,
acknowledged before confirmed; `confirmUpgrade` and `confirmMultiUninstall` remove files;
dependents are resolved over what is installed), package_downloader (a closure without what it is told is
installed), logos_core (unload takes running dependents along, load brings dependencies up or fails).
`plan` does not refuse a request that changes nothing; the client does
(`package_command.cpp`), from a plan of its own.

### ModuleLifecycle and CallEnvelope

One handler runs at a time, on the main thread: `req` is its request, `step` its place, `before` the
snapshot of the loaded set it took first, `reply` what it said last. Between any two steps a module process may
die (`died`). `started` and `stopped` are histories of what logos_core did for the request, `gone` of what went on its own
or was unloaded alone. `Requires` and `Prefers` are the dependencies logos_core knows. `ReportLoad` and
`ReportUnload` are the differences of two snapshots (`core_service_impl.cpp:116-200`), reload is the unload, the load
and the second attempt (`293-320`). `Reach`, the dependency closure, is the least set that is closed under the edges. A call returns an `answer`, and `Envelope` judges it
(`call_envelope.cpp`); `answer.ran` is what really happened, chosen apart from what the module publishes: `Takes` says which kinds of argument a
provider's method runs with, `Fits` what the table of `call_envelope.cpp` lets pass, and `TakesAssumption` relates the two (the table refuses nothing
a provider takes, which is what its comment promises). A provider may refuse a value all the same, and the transport may fail before or after the method ran.
A `Watcher` is a `watch` command: `Watch` is its call, after which core_service is subscribed once more (`subscribed` counts, and nothing ever takes one
away), `Listen` the client's own subscription to core_service, `WatcherEnds` its end at either point. `Prints` is what one client lets through.

External: logos_core. The handlers that only read (`listModules`, `moduleInfo`, `stats`, `methods`) are left out.

### LogFiles and LogSink

`LogFiles` is a directory listing in order of modification, with rotation (`age`), pruning at start and the
link. `LogSink` has, per daemon, the bytes in the `pipe`, in the reader's `chunk`, in its `pending` tail and in the `file`,
and who holds a write end (`writers`). A byte is `x` or a newline; writes, reads and lines are cut anywhere. `cuts` notes the places in
the file where the reader ended a line that went on, because it was too long or the output was over. `OpenLog` is the file's part of `Start`, which runs
before the already-running check, so a start that is refused goes through pruning, linking and stopping as well.
`since` counts, for each stamp, the other logs opened or written after its own; a start in the same second appends to the log that is there and makes it no newer.
`End` is the reader's end of file and `stop`'s join in one: both wait for `writers` to be empty.

Left out: failing reads and writes of the log, the console format, `enabled: false` (a daemon without a sink is `uncaptured`).

### WebhostView

On the daemon's side three kinds of threads: the container (`host`), senders (`mu` is held across a `send`
that blocks while `down` is full), and the pump (`pump`), which reads `lines` and runs the receiver. `setReceiver`, `close` and the
destructor may run on the pump, from a receiver or from the death callback (`stopper = "pump"`).
`announced`, `joinable`, `selfClosed` are `m_announced`, the joinability of `m_pump`, and the branch of `shutdown`
that detaches the pump. The page's process reads pieces into `inbox` and hands them to the bridge's
`backlog`, the shim's `pending`, its event loop (`posted`, the `setTimeout` of `webhost/main.cpp:136-145`, emptied by
`HandOver`) and the page's receiver (`got`), as `stage` allows.

External: the container and RpcPeer, by what they may call. Left out: finding the helper, rendering, encodings.

## 3. Runs

Passing. Each finishes with every action of its next-state relation taken.

| run | instance | what it shows |
|---|---|---|
| `session_overlap` | 2 daemons, 2 pids, both modes, `Spec` | however starts, stops and crashes interleave, `state.json` never names a daemon that stopped cleanly, and an operator's dial spec or token file is lost only to a daemon that had looked at the file before |
| `session_serial` | 3 daemons, 2 pids, both modes, `CarefulSpec` | one owner, a serving daemon's files are its own and usable, a `--detach` parent that reports a started daemon has seen its own child's state file, and the detailed daemon implements `SessionOwner` |
| `shutdown` | 1 client, 1 other client, 2 pids, 2 boots, `FairSpec` | a stop that reports success spoke of a daemon that is leaving or gone, nobody is turned away by a leftover or a reused pid while the daemon served throughout, the first stop's reply gets out, an answered stop stops, every command ends |
| `boot` | 3 modules, 5 documents, 5 flag sets, 2 ports, 2 boots, both front ends | no unguarded listener is bound, a persisted configuration boots again as itself, no port 0 is published, package_manager enforces what the session advertises unless the core refused to unload it |
| `tokens_overlap` | 3 calls, 2 names, I/O errors, failing promotions and crashes, `Spec` | one token per name and a foreign file kept, whatever interleaves, fails or dies |
| `tokens_alone` | 3 calls, 2 names, I/O errors, lost flushes and crashes, `AloneSpec` | never torn, what was dropped stays out, nothing stranded but what a lost flush strands, the refinement of `TokenMap`: Ok means done as asked |
| `packages` | 3 packages, two needing the third; all initial disks and running sets; one name or two at a time, never `--no-deps`; any unload refused | success means all of it, files move only under modules that were stopped or refused to stop, and only as announced or named, no step leaves a module without its dependency, every operation returns |
| `modules` | 3 modules (b requires a and prefers c), 1 watcher, 2 events, 7 interfaces, 3 kinds of argument | what replies about loads, unloads and reloads claim was done is so although processes die inside the handler, side effects are named, no module is orphaned, a call's verdict fits what ran in the module |
| `logs` | 2 daemons, 1 module, pipe and reads of 2 bytes, lines of 1, 2 files, 3 writes | the log is the stream that was written, a capturing daemon's log is kept and linked, a stop returns |
| `webview` | 2 senders, a socket of 1 piece, 2 lines from the page | messages arrive whole and in order at every stage of the page, no receiver after a detach, a death is a loss, the pump never outlives the view, a teardown ends |

Violations, each a disagreement between the code and what the repository says of it (quoted under `findings` in `PROJECT.json`):

| run | what happens |
|---|---|
| `session_detached_start` | `daemon start --detach` beside a serving daemon: the parent deletes `state.json`, the child sees nobody, two daemons own the directory |
| `boot_dial` | a client command persists its dial spec together with the instance id it read; the next boot takes the file for its own stale artifact and overwrites it |

Seven further configurations are kept for the findings the model reproduces. They are no runs of the project; each of them finds its counterexample in seconds
(`tlc -config X.cfg M`), and most have a counterpart among the passing runs that says what holds in spite of it.

| configuration | module, property | what happens | what holds |
|---|---|---|---|
| `session_race.cfg` | `MCDaemonSession`, `SoleOwner` | two foreground starts at the same moment both pass the check and own the directory | `SoleOwner` of starts that do not overlap |
| `session_edit.cfg` | `MCDaemonSession`, `NeverClobbered` | a daemon reads its predecessor's dial spec, an operator installs one, the daemon overwrites it | `OperatorConfigKept` |
| `boot_policy.cfg` | `MCDaemonBoot`, `FailsClosed` | the policy is lost, the core refuses to unload package_manager, and it serves on its default policy under a session that advertises another | `PolicyAsAdvertised` |
| `packages_refused.cfg` | `MCPackageOps`, `NeverMovedUnderRunning` | a module refuses to stop and the operation removes or replaces its files | `StoppedBeforeMoved` |
| `tokens_flush.cfg` | `MCTokenStore`, `FailedWriteStrandsNone` | the flush of a raw file is lost at its close: the call reports Ok, the token is accepted and its text is nowhere | `NothingStranded` |
| `modules_refused.cfg` | `MCModuleLifecycle`, `NotLoadedMeansNotLoaded` | an unload is refused and the caller is told that the module is not loaded | `RepliesTrue` |
| `modules_watch.cfg` | `MCModuleLifecycle`, `OnlyEventsAskedFor` | of two watchers of one module, the one that asked for `e1` prints `e2` | |

Met while modelling and recorded under `findings` without a configuration:

- *Session.* The second removal of `state.json` deletes a successor's file (`daemon.cpp:797`); `--detach` returns before the client's
  artifacts are written (`main.cpp:732`).
- *Tokens.* All writers share `tokens.json.tmp` (`token_store.cpp:134`); a revoke that overlaps an issue can be undone (409); a comment says tokens take effect at the
  next restart while the validator reads them on every call (`daemon.cpp:654`).
- *Packages.* An upgrade stops dependents and restarts only the package (`package_ops.cpp:487`); `--no-deps` filters the plan and not the download (500);
  upgrading several names removes the files of one that is current while it runs (489); `download --root-hash` sends a key nobody reads (`package_command.cpp:640`).
- *Log.* A refused start prunes and relinks (`daemon.cpp:340`); the directory may hold `2 * max_files - 1` logs (`log_sink.cpp:127`).
- *Web views.* A close on the pump during a teardown deadlocks with the join (`webhost_view.cpp:199`); a self-closed channel leaves a pump that nobody waits
  for (397); a page that dies before `setOnDied` is reported to nobody (391). `TeardownEnds` and `ViewOutlivesPump` are stated without the first two.
- *Modules.* Only the first overload of a name is judged (`call_envelope.cpp:151`).
- *Configuration.* `config set` skips the listener guards (`config_command.cpp:141`) and rejects `container` (97); listeners of other modules are accepted and never
  bound (`daemon.cpp:720`); a second `local` entry stays (`main.cpp:855`); a reloaded package_manager runs on its defaults (`package_bootstrap.cpp:105`).

### Bounds

- *Session.* Two daemons race each other; three are a predecessor, a successor and a bystander. A pid is free for reuse as soon as its process is gone, so two pids are enough to reuse one.
- *Stop.* Every verdict of a command depends on its own steps, on who else stopped the daemon and on the boot it dialled: one command, one rival,
  one restart. Two boots give a client one that is gone and one that has its pid or its port.
- *Boot.* The second boot is the one that reads what the first left. Documents and flags are chosen to be absent, unreadable, guarded, unguarded, automatic and
  TLS with and without key material; two ports can both be taken.
- *Tokens.* Three calls are a writer, a second one, and the call that finds what they left; two names separate "this name" from "another".
- *Packages and modules.* Three in a fork give dependents, a dependency, and two that share one; `modules` adds a preferred dependency, whose loss is tolerated. Two watchers
  on one module (`modules_watch`) are enough for one to profit from the other's filter. The seven interfaces have the called method once, twice or not at all, with and
  without a parameter, of types the table knows and does not know.
- *Log.* One byte of cap and two of pipe make every cut happen: inside a line, at its end, after a capped piece. One daemon writes; the other rotates, prunes and is refused.
- *Web view.* A socket of one piece blocks on the second half of every message; two senders contend for `mu`.

Operations have no bound inside: daemons boot once per instance, calls run once, packages have three versions
(none, old, latest). Only `MaxBoots`, `Boots`, `MaxWrites`, `MaxClock`, `MaxLines` and `MaxSubscriptions` cut behaviours off; each
is a guard of the action that would go on. Symmetry is over daemons, pids and calls, in runs without liveness only.
`CHECK_DEADLOCK FALSE` stands where the system really stops: every daemon has come and gone, every call has ended, every
view was destroyed. `packages`, `modules` and `boot` check for deadlock.

### Fairness

| specification | assumed | because |
|---|---|---|
| `ShutdownRpc` `FairSpec` | SF `Drain`; WF `QuitAfterDrain`, `BusyEnds`, `Exit`, and of a command's steps and deadlines | a due timer fires between two handlers, and handlers may alternate with it for ever, hence SF; a blocking handler's calls have deadlines (`rpc_deadlines.h`), and so has every step of a command |
| `LogSink` `FairSpec` | WF of the reader, `Restore`, `End`; module processes end once descriptors are restored; the original stdout is read again | threads run; logos_core has been cleaned up before the sink stops; without somebody who reads the console, `stop` really waits |
| `WebhostView` `FairSpec` | WF `Reap`, `Join`, `SendPiece`, `SendFails`; SF `Shut`, `PumpRuns` | a helper that ignores SIGTERM is killed and reaped; a mutex that is free again and again is got; **nothing** is assumed of the page, which may stop reading for good |
| `PackageOps` `Spec` | WF `Step` | `apply` is straight-line code and every call has a deadline, after which it fails |

Nothing is assumed of operators, crashes, other processes, or the network. `DaemonSession` assumes no fairness: an unwinding waits for
`logos_core_cleanup` and for `LogSink::stop`, and whether the latter returns is what `LogSink` is about.

## 4. Proofs

TLC shows the properties on the instances above, the theorems for every value of the constants under the
`ASSUME`s of the modules (values that stand for "nothing" differ from everything else, sets of modes and faults are subsets of
their names, bounds are naturals, the dependency relation of `PackageOps` is transitively closed). All proofs follow one scheme: a strengthening that is inductive, one step per action.

**`DaemonSession_proofs`**, any daemons and pids.

- `TypeCorrect`; `StateFileTruthful`: `Spec => []StateNamesLiveOrCrashed`.
- `OperatorsConfigStays`: `Spec => OperatorConfigKept`: of a daemon that writes what it decided on a file that is still as it found it, nothing of an operator's is lost.
  (What a daemon decided on a file that changed since is `session_edit`.)
- `SerialSessions`: `CarefulSpec => [](SoleOwner /\ ServingIsPublished /\ SessionUsable)`, in every mode. `SessionsUsable` restates the part a client sees.
- `SerialImplementsSessionOwner`: `CarefulSpec` implements `SessionOwner`.
- `DetachVerdictIsOfChild`: `SerialSpec => StartedIsOwnChild`, also where daemons serve, from `ParentAlone`: while a parent waits, all but its child serve or are gone, and the state file it deleted
  can only come back from that child.

`SoleOwner` alone is not inductive: the check reads a file and a pid, not the other daemons. What carries it is `SerialInv`: a daemon past the check either is the
one that boots or unwinds (`OneBusy`), or serves and is named by `state.json` with its own live pid (`StateNamesPublisher`), so a check that passes means nobody is
there (`CheckExcludes`); and once a stop has removed the file nobody writes it before the owner is gone (`NoStateWhileUnwinding`), so the second removal hits nothing.
A start that takes the state file away finds nobody it could belong to (`CarefulStart`): that is `DetachesAlone`, and `session_detached_start` is the counterexample without it.

**`TokenStore_proofs`**, any calls, names and faults, any interleaving.

- `TypeCorrect`; `OneTokenPerName`: `Spec => []NamesUnique`, from `ListsUnique`: every list a call holds or a file has is free of duplicates.
- `ForeignVersionKept`: `Spec => UnsupportedKept`, from `StoppedAtCheck`: while the foreign file is in place no call is past its version check.

The same calls one after another (`AloneSpec`):

- `ReadersSeeWholeLists` (`NeverTorn`), `DroppedTokensStayOut` (`DroppedStaysOut`), `NoTokenStranded` (`NothingStranded`, where the final rename of the raw file works: `"promote" \notin Faults`; what a lost
  flush strands is excepted), `AloneIsTokenMap`: `AloneSpec` implements `TokenMap`.

They rest on `AloneInv`. `FilesApart`: the temporary is never the file readers see, and a call opens a fresh inode or the leftover temporary. `Prepared`: what the call under way has
read and written is the list in place without the name, plus its own entry. `DropsFinal`: a dropped token's call is over, so nobody brings the token back. `RawStaged` and `RawKept`:
the raw text is beside the list before the list says so. In the refinement the rename is `Apply` (`OnlyPublishChanges`, `PublishIsMapStep`), and every other step asks, reports or kills, or is a stutter
(`OutcomeMoves`, `CallIsMapStep`): an Ok is reported only behind the rename. None of this holds of `Spec`.

**`PackageOps_proofs`**, any packages, dependencies and requests.

- `TypeCorrect`; `FilesMoveWhenStopped`: `Spec => StoppedBeforeMoved`, from `Quiet`: from the stop on nothing of `planned` runs but what refused to stop.
- `OperationsKeepToTheirPlan`: `NoRequestWithoutDeps => (Spec => OnlyPlanned)`, from `Scoped`: the pending action an operation confirms is its own, and what it fetches was missing when
  it planned or is missing by its own doing. The hypothesis (a catalog request never leaves dependencies out) is needed, see the finding on `--no-deps`.
- `OperationsLeaveNoneBehind`: `Spec => NoneLeftBehind`. Two lemmas on the dependency relation carry it: stopping a set with its running dependents keeps what runs complete
  (`StoppingIsClosed`), and so does starting a set with all it needs (`StartingIsClosed`).
- `OkMeansDone`: `Spec => []DoneAsAsked`, from `DoneInv`, which follows a request through `apply`: a removal's plan names all it has to remove and its gate is that plan (`Removing`); an install or upgrade asks
  for one name at a time (`OneByOne`); what has left `left` is there or is the next to be installed (`LocalDone`); what was missing when the catalog packages were fetched is being installed
  (`CatalogDone`); and the last step comes when nothing is left (`LastStep`). `DoneAsAsked` speaks only of the end, so nothing less is inductive.

**`ShutdownRpc_proofs`**, any clients, pids and number of boots.

- `StopVerdicts` (`StopVerdictTrue`), `FirstStopIsAnswered` (`FirstStopAnswered`), `RefusalsJustified` (`RefusedOnlyWhenDown`).

`StopInv` relates every message and every piece of a client's knowledge to the daemon it came from: `DaemonInv` (a daemon that has not begun to leave is the one in its state
file, and a dead one has no buffers), `DialInv` (a dialled instance is one that has booted), `WatchInv` (a watched pid is the dialled daemon's as long as that one lives), `AskInv` (a stop reply exists only if its daemon is leaving), `FirstInv` (the first stop's reply leaves the buffer
before the loop does), `RefusalInv` (a command under way while nobody serves has seen it, and only that
lets the comparison of instances turn it away). `LeavingStays` is why a verdict does not go stale: leaving is for good.

**`DaemonBoot_proofs`**, any documents, flags, modules, directories and ports.

- `ListenersSound` (`SoundListeners`) and `PortsKnown` (`NoPortZero`), from `BootInv`: what is bound is what was guarded, but for ports that were filled in (`BoundAsConfigured`).
- `PersistedConfigReproduced` (`PersistReproduces`), from `PersistInv` and `ResolvedStays`: resolving is idempotent on what a writer emits. The work is in the listener lists: `LocalFirst` moves the first
  `local` to the front and leaves a list that is so already (`LocalFirstStays`).
- `PolicyEnforced` (`PolicyAsAdvertised`), from `PolicyInv`: a manager that is up has its policy, or the policy is still to be sent, and its loss takes the manager down or leaves it `kept` against the daemon's will.

**`ModuleLifecycle_proofs`**, any modules, dependencies and interfaces, and any provider that takes no argument the table refuses (`TakesAssumption`).

- `RepliesAreTrue` (`RepliesTrue`), `SideEffectsAreReported` (`SideEffectsReported`), `CallersToldTrue` (`CallsToldTrue`), from `RepliesInv`: at each step of a handler, what it saw of its module is still so but for its
  death (`SeenOfModule`, `DownUntilStarted`); what changed since its first look at the loaded set is what logos_core did or what died (`ChangesKnown`); and an answer is the module's or the transport's (`AnswerKnown`).
  A process may die between any two steps, so the invariant says what a death can and cannot take away. `CallersToldTrue` also needs that `Envelope` finds a method where the module has it (`FoundIs`, `DescribedIs`).
- `NoOrphans` (`NoneOrphaned`) for any graph of dependencies, cycles included: loads close upwards and cascading unloads downwards over `Reach` (`LoadOrphansNone`, `UnloadOrphansNone`).

**`LogSink_proofs`**, any daemons, modules, pipe and read sizes, lengths of a tail, numbers of kept files and of stamps.

- `LogIsTheStream` (`LogFollowsStream`), from `StreamInv`: file, pending tail, chunk and pipe are what was written (`Whole`), every cut lies behind more than `PendingMax` characters without a newline or at the end of
  the output (`CutsKnown`), and a reader that does not run holds no chunk (`Idle`). The lemmas are about the operators of a read: `Taken`, `LinesAndHeld`, `LastNewlineIs`, `NewCut`, `CutsStay`.
- `RecentLogsStay` (`LogsKept`), from `KeptInv`: a log with `since` below `max_files - 1` has at most that many files behind it in the directory (`Near`), and the link leads to the latest start's (`LinkLeads`).
  Pruning, opening, a line, a rotation and a removal each keep such distances (`PrunedKeeps`, `AppendKeeps`, `RemoveKeeps`, `AgedKeeps`, `Noted`).

**`WebhostView_proofs`**, any senders and any socket.

- `DetachFinal` (`DetachIsFinal`), `DeathsAreLosses` (`DeathIsLoss`), `PumpEndsFirst` (`ViewOutlivesPump`), from `ViewInv`: a pump exists while there is a view (`PumpHasView`), an end of stream is accounted to who caused it
  (`EndAccounted`), a completed detach excludes a running receiver (`DetachHolds`), and the join is passed only by a finished pump or on the pump itself (`JoinSound`).
- `MessagesAreKept` (`MessagesKept`), from `MsgInv`: what the receiver has, what is posted to the page's event loop, what the shim and the bridge hold, the process has read, the socket carries and the sender has left to write are the messages sent, as long as the process has
  not ended (`Whole`: also after a local close, which `MessagesKept` does not speak of); who is in `write` has something left (`HeldBack`); nobody sends before there is a process (`Born`). `FlattenSeq` is recursive; that it puts a last text behind the
  others (`FlattenAppend`) and yields a text (`FlattenText`) is proved by the least place at which it would not (`LeastOf`, `SumsAre`).

Model-checked only: liveness (`Ends`, `AnsweredStopStops`, `CommandsEnd`, `StopReturns`, `TeardownEnds`), since fairness and `ENABLED` are out of the
prover's reach. Every other property of the passing runs is stated by a theorem above.

## 5. Not modelled

- *YAML, schema checks, paths, `access_policy`*: sequential parsing without state. `SessionConfig` takes a document as readable or not, with known keys or not.
- *Output and the package command*: formatting in a process that keeps nothing. What it asks of the daemon is the input of `PackageOps`; that the plan a user
  confirmed may differ from the one `apply` makes is listed as a hazard.
- *Socket reaping, file permissions, the access group* (`daemon.cpp`, `daemon_state.cpp`): they change who may connect, not what a connection does.
- *`download`, searches, listings, `moduleInfo`, `stats`*: one read of logos_core or package_downloader each, no daemon state.
- *Token expiry and `local_only`*: they narrow what is accepted, and no property is about how far.
- *The SDK*: its token manager, transports and RPC objects are external; the in-memory copy of the auto token lives there.

What could come next: the composition of `ShutdownRpc` with overlapping daemons of `DaemonSession`, where the
second removal of `state.json` meets a client that watches a pid; the safety halves of the liveness properties (which step is enabled in which
state of a stop or a teardown) as theorems.
