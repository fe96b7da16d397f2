--------------------------- MODULE ModuleLifecycle ---------------------------
(***************************************************************************)
(* core_service's handlers for modules                                     *)
(* (src/src/core_service/core_service_impl.cpp): load, unload, reload,     *)
(* call and watch, on top of the external logos_core, whose modules are    *)
(* processes that may die between any two steps of a handler.  Handlers    *)
(* run one at a time, on the daemon's main thread.                         *)
(*                                                                         *)
(* A watch takes two steps: a call that makes core_service subscribe to    *)
(* the module, then the client's own subscription to core_service          *)
(* (RpcClient::watchModuleEvents).  core_service forwards what it gets for *)
(* any client to all of them, and each keeps the events of its module.     *)
(***************************************************************************)
EXTENDS CallEnvelope, FiniteSets

CONSTANTS
    Module,     \* the modules logos_core knows of
    Requires,   \* pairs <<m, d>>: m does not start without d
    Prefers,    \* pairs <<m, d>>: m is loaded with d if d can be
    Watcher,    \* processes running `watch`
    Watched,    \* bound: the modules they watch
    MaxSubscriptions,   \* bound: subscriptions for a module and a filter
    Event,      \* names of events
    AnyEvent,   \* the filter of a watch without --event
    Interface,  \* what modules may implement: sequences of [name, types]
    Argument,   \* kinds of the one argument of a call
    Takes,      \* external: pairs <<type, kind>>, a provider's method runs with
                \* an argument of that kind for a parameter published as type
    None        \* no request, no filter

ASSUME WatchedAssumption == Watched \subseteq Module
ASSUME GraphAssumption == Requires \cup Prefers \subseteq Module \X Module
ASSUME InterfaceAssumption ==
    Interface \subseteq Seq([name : STRING, types : Seq(STRING)])
\* The table of call_envelope.cpp lists a type only where its JSON counterpart
\* is unambiguous, and so refuses nothing that the provider takes.
ASSUME TakesAssumption == \A p \in Takes : Fits(p[2], p[1])
ASSUME SubscriptionsAssumption == MaxSubscriptions \in Nat
ASSUME AnyAssumption == AnyEvent \notin Event /\ None \notin Event \cup {AnyEvent}

VARIABLES
    loaded,     \* modules that run
    step,       \* where the handler is
    req,        \* the request it serves
    before,     \* the loaded set it saw first
    reply,      \* the last reply
    started, stopped,   \* modules that logos_core brought up or down for it
                        \* (history)
    died,       \* modules that died since it began (history)
    gone,       \* modules that went on their own, or alone because they were
                \* to (history)
    answer,     \* what came back from the module called
    watching,   \* what each watcher asked for, and whether it listens yet; None
                \* before it asked and after it ended
    subscribed  \* how often core_service is subscribed to a module with a filter

opVars    == <<step, req, before, reply, started, stopped, died, answer>>
watchVars == <<watching, subscribed>>
vars == <<loaded, gone, opVars, watchVars>>

Filter == Event \cup {AnyEvent}

Request == [kind : {"load", "reload", "call"}, module : Module]
           \cup [kind : {"unload"}, module : Module, cascade : BOOLEAN]

Init ==
    /\ loaded = {} /\ gone = {}
    /\ step = "idle" /\ req = None /\ before = {} /\ reply = None
    /\ started = {} /\ stopped = {} /\ died = {} /\ answer = None
    /\ watching = [w \in Watcher |-> None]
    /\ subscribed = [s \in Watched \X Filter |-> 0]

Goto(from, to) == step = from /\ step' = to

-----------------------------------------------------------------------------
(* logos_core, external.                                                   *)

Closed(edges, set) == \A e \in edges : e[1] \in set => e[2] \in set

\* What lies on the way from ms along edges: the least closed set around ms.
Reach(edges, ms) ==
    {m \in Module : \A set \in SUBSET Module :
                       ms \subseteq set /\ Closed(edges, set) => m \in set}

Needed(m)     == Reach(Requires, {m})
Closure(m)    == Reach(Requires \cup Prefers, {m})
Dependents(m) == {d \in loaded : m \in Needed(d)} \ {m}

\* logos_core_load_module: a module that runs is left alone; else the closure
\* comes up as far as it can, and m does with all it requires or not at all.
CoreLoad(m, ok) ==
    /\ \E up \in SUBSET (Closure(m) \ loaded) :
        /\ m \in loaded => up = {}
        /\ \A u \in up : Needed(u) \subseteq loaded \cup up
        /\ ok <=> m \in loaded \cup up
        /\ loaded' = loaded \cup up
        /\ started' = started \cup up
        /\ gone' = gone \ up

\* logos_core_unload_module: dependents first if they are to go as well; any
\* of them may refuse, and then m stays.
CoreUnload(m, cascade) ==
    \E down \in SUBSET (IF cascade THEN Dependents(m) \cup {m} ELSE {m}) :
        /\ m \in down => (~cascade \/ Dependents(m) \subseteq down)
        /\ \A d \in down : cascade => Dependents(d) \subseteq down
        /\ loaded' = loaded \ down
        /\ stopped' = stopped \cup (down \cap loaded)

\* A module's process dies.
Dies(m) ==
    /\ m \in loaded
    /\ loaded' = loaded \ {m}
    /\ gone' = gone \cup {m}
    /\ died' = IF step = "idle" THEN died ELSE died \cup {m}
    /\ reply' = IF step = "idle" THEN None ELSE reply
    /\ UNCHANGED <<step, req, before, started, stopped, answer, watchVars>>

-----------------------------------------------------------------------------
(* The handlers: callMethodStd dispatches, each takes a snapshot first.    *)

FirstStep(r) ==
    CASE r.kind = "load"   -> "load"
      [] r.kind = "unload" -> "unload"
      [] r.kind = "reload" -> IF r.module \in loaded THEN "reload: unload" ELSE "reload: load"
      [] r.kind = "call"   -> IF r.module \in loaded THEN "invoke" ELSE "not loaded"

Begin(r) ==
    /\ Goto("idle", FirstStep(r))
    /\ req' = r
    /\ before' = loaded
    /\ reply' = None /\ answer' = None
    /\ started' = {} /\ stopped' = {} /\ died' = {}
    /\ UNCHANGED <<loaded, gone, watchVars>>

Return(r) ==
    /\ step' = "idle"
    /\ reply' = r
    /\ UNCHANGED <<loaded, gone, req, before, started, stopped, died, answer, watchVars>>

Load ==
    /\ \/ Goto("load", "loaded") /\ CoreLoad(req.module, TRUE)
       \/ Goto("load", "load failed") /\ CoreLoad(req.module, FALSE)
    /\ UNCHANGED <<req, before, reply, stopped, died, answer, watchVars>>

\* Slip: what is reported is what ran before and does no more.
ReportLoadBackwards ==
    \/ step = "loaded" /\ Return([code |-> "ok", others |-> before \ loaded])
    \/ step = "load failed" /\ Return([code |-> "MODULE_LOAD_FAILED", others |-> {}])

\* Dependencies are the difference between two looks at the loaded set.
ReportLoad ==
    \/ step = "loaded" /\ Return([code |-> "ok", others |-> (loaded \ before) \ {req.module}])
    \/ step = "load failed" /\ Return([code |-> "MODULE_LOAD_FAILED", others |-> {}])

\* Slip: the cascade the caller asked for is not passed on.
UnloadAlone ==
    /\ Goto("unload", "unloaded")
    /\ CoreUnload(req.module, FALSE)
    /\ gone' = IF req.cascade THEN gone ELSE gone \cup (loaded \ loaded')
    /\ UNCHANGED <<req, before, reply, started, died, answer, watchVars>>

Unload ==
    /\ Goto("unload", "unloaded")
    /\ CoreUnload(req.module, req.cascade)
    /\ gone' = IF req.cascade THEN gone ELSE gone \cup (loaded \ loaded')
    /\ UNCHANGED <<req, before, reply, started, died, answer, watchVars>>

\* Slip: the answer of the unload is not checked against the loaded set.
ReportUnloadUnchecked ==
    /\ step = "unloaded"
    /\ Return([code |-> "ok", others |-> (before \ loaded) \ {req.module}])

\* logos_core's own answer is not looked at; a module that was never loaded is
\* unloaded.
ReportUnload ==
    /\ step = "unloaded"
    /\ Return(IF req.module \in loaded THEN [code |-> "MODULE_NOT_LOADED", others |-> {}]
              ELSE [code |-> "ok", others |-> (before \ loaded) \ {req.module}])

\* reloadModule does not look whether the module is down before it loads it.
ReloadUnload ==
    /\ Goto("reload: unload", "reload: load")
    /\ CoreUnload(req.module, FALSE)
    /\ gone' = gone \cup (loaded \ loaded')
    /\ UNCHANGED <<req, before, reply, started, died, answer, watchVars>>

\* A module that was loaded before gets a second try.
ReloadLoad ==
    /\ \/ Goto("reload: load", "reloaded") /\ CoreLoad(req.module, TRUE)
       \/ /\ Goto("reload: load",
                  IF req.module \in before THEN "reload: restore" ELSE "start failed")
          /\ CoreLoad(req.module, FALSE)
       \/ Goto("reload: restore", "restored") /\ CoreLoad(req.module, TRUE)
       \/ Goto("reload: restore", "lost") /\ CoreLoad(req.module, FALSE)
    /\ UNCHANGED <<req, before, reply, stopped, died, answer, watchVars>>

ReportReload ==
    \/ step = "reloaded"     /\ Return([code |-> "ok", others |-> {}])
    \/ step = "restored"     /\ Return([code |-> "restored", others |-> {}])
    \/ step = "lost"         /\ Return([code |-> "lost", others |-> {}])
    \/ step = "start failed" /\ Return([code |-> "start failed", others |-> {}])

-----------------------------------------------------------------------------
(* callModuleMethod: a call of "f" with one argument.                      *)

NotLoaded == step = "not loaded" /\ Return([code |-> "MODULE_NOT_LOADED", others |-> {}])

\* Some overload of "f" that takes the argument.
Implements(i, arg) ==
    \E k \in DOMAIN i :
        i[k].name = "f" /\ Len(i[k].types) = 1 /\ <<i[k].types[1], arg>> \in Takes

Answer(i, arg, ret, failure, ran) ==
    [interface |-> i, arg |-> arg, ret |-> ret, failure |-> failure, ran |-> ran]

\* The provider, external: a method that takes the argument runs, or refuses its
\* value; one that does not, or none, is answered with null or a refusal.  Or
\* the transport fails, before or after the method ran.
Invoke ==
    /\ Goto("invoke", "invoked")
    /\ \E i \in Interface, arg \in Argument :
        \/ /\ req.module \in loaded /\ Implements(i, arg)
           /\ \E ret \in {"null", "number"} : answer' = Answer(i, arg, ret, "", TRUE)
        \/ /\ req.module \in loaded
           /\ \E ret \in {"null", "refusal"} :
                /\ Implements(i, arg) => ret = "refusal"
                /\ answer' = Answer(i, arg, ret, "", FALSE)
        \/ /\ Implements(i, arg)
           /\ answer' = Answer(i, arg, "null", "timeout", TRUE)
        \/ answer' = Answer(i, arg, "null", "object_unavailable", FALSE)
    /\ UNCHANGED <<loaded, gone, req, before, reply, started, stopped, died, watchVars>>

\* exposedMethods: the interface, bare names, or nothing if the module dies
\* or does not answer.
Described(i) ==
    {<<>>, [k \in DOMAIN i |-> [i[k] EXCEPT !.types = Unpublished]]}
    \cup (IF req.module \in loaded THEN {i} ELSE {})

Conclude ==
    /\ step = "invoked"
    /\ \E shown \in Described(answer.interface) :
        Return([code |-> Envelope("f", answer.ret, <<answer.arg>>, answer.failure, shown),
                others |-> {}, blind |-> shown = <<>>])

-----------------------------------------------------------------------------
(* watchModuleEvents and the client's side of it.                          *)

\* The call of a watch.  One of a module that is not loaded is refused and
\* changes nothing; any other subscribes once more, to what is asked.
Watch(w, m, f) ==
    /\ watching[w] = None /\ step = "idle" /\ m \in loaded
    /\ subscribed[<<m, f>>] < MaxSubscriptions
    /\ subscribed' = [subscribed EXCEPT ![<<m, f>>] = @ + 1]
    /\ watching' = [watching EXCEPT ![w] = [module |-> m, filter |-> f, listens |-> FALSE]]
    /\ UNCHANGED <<loaded, gone, opVars>>

\* The client subscribes to core_service's module_event; what was forwarded
\* before is missed.
Listen(w) ==
    /\ watching[w] # None /\ ~watching[w].listens
    /\ watching' = [watching EXCEPT ![w].listens = TRUE]
    /\ UNCHANGED <<loaded, gone, opVars, subscribed>>

\* The watcher cannot get at core_service, or is interrupted, before or after it
\* listens.  Its subscription outlives it, and the module's process.
WatcherEnds(w) ==
    /\ watching[w] # None
    /\ watching' = [watching EXCEPT ![w] = None]
    /\ UNCHANGED <<loaded, gone, opVars, subscribed>>

Matches(f, e) == f \in {AnyEvent, e}

\* Each subscription forwards the event e that m emits as a module_event of
\* core_service, to every client; a client prints those of its module, whatever
\* their name.
Prints(w, m, e) ==
    /\ watching[w] # None /\ watching[w].listens /\ watching[w].module = m
    /\ \E f \in Filter : subscribed[<<m, f>>] > 0 /\ Matches(f, e)

-----------------------------------------------------------------------------
Handler == \/ Load \/ ReportLoad \/ Unload \/ ReportUnload
           \/ ReloadUnload \/ ReloadLoad \/ ReportReload
           \/ NotLoaded \/ Invoke \/ Conclude

Next ==
    \/ \E r \in Request : Begin(r)
    \/ Handler
    \/ \E m \in Module : Dies(m)
    \/ \E w \in Watcher, m \in Watched, f \in Filter : Watch(w, m, f)
    \/ \E w \in Watcher : Listen(w) \/ WatcherEnds(w)

Spec == Init /\ [][Next]_vars

-----------------------------------------------------------------------------
(* Properties.                                                             *)

Replied(kind) == step = "idle" /\ reply # None /\ req.kind = kind

\* What a reply claims to have done is so when it is sent, whatever died in the
\* middle of the handler: unloaded means not running, loaded means running or
\* died since, a reload that lost the module means that it does not run, and
\* one that did not lose it did restart it unless the unload was refused
\* (loadModule, unloadModule, reloadModule).  For an unload that was not
\* carried out see NotLoadedMeansNotLoaded.
RepliesTrue ==
    /\ Replied("load") /\ reply.code = "ok" => req.module \in loaded \cup died
    /\ Replied("unload") /\ reply.code = "ok" => req.module \notin loaded
    /\ Replied("reload") /\ reply.code \in {"ok", "restored"} =>
         /\ req.module \in loaded \cup died
         /\ req.module \in started \/ req.module \notin stopped
    /\ Replied("reload") /\ reply.code \in {"lost", "start failed"} => req.module \notin loaded

\* "Module '...' is not loaded." is an answer about a module that does not run
\* (the message of unloadModule; it does not hold of a refused unload).
NotLoadedMeansNotLoaded ==
    step = "idle" /\ reply # None /\ reply.code = "MODULE_NOT_LOADED" =>
        req.module \notin loaded

\* The modules a reply names as loaded or unloaded on the side are those that
\* logos_core brought up or down for the request; a process that died in the
\* meantime is all that can make a difference (the two snapshots of loadModule
\* and unloadModule).
SideEffectsReported ==
    /\ Replied("load") /\ reply.code = "ok" =>
         /\ reply.others \subseteq started
         /\ started \ (reply.others \cup {req.module}) \subseteq died
    /\ Replied("unload") /\ reply.code = "ok" =>
         /\ stopped \ {req.module} \subseteq reply.others
         /\ reply.others \subseteq stopped \cup died

\* A module runs without one that it requires only if that one died, or was
\* unloaded alone, by a reload or with --no-dependents (the cascade).
NoneOrphaned ==
    \A m \in loaded : Needed(m) \ loaded \subseteq gone

Named(i) == {k \in DOMAIN i : i[k].name = "f"}

Overloaded == Cardinality(Named(answer.interface)) > 1

\* What the caller is told is what happened, whatever the module publishes and
\* whenever it dies.  A call is passed for a success only if the method ran, if
\* it exists, or if the module could not be asked; what the transport lost is
\* never one.  A method reported missing is missing.  An argument is blamed only
\* if nothing ran, or if another overload took it (callModuleMethod,
\* callEnvelope).
CallsToldTrue ==
    Replied("call") /\ answer # None =>
        /\ reply.code = "ok" =>
             /\ answer.failure = "" /\ answer.ret # "refusal"
             /\ answer.ran \/ reply.blind \/ Named(answer.interface) # {}
        /\ reply.code = "METHOD_NOT_FOUND" => ~answer.ran /\ Named(answer.interface) = {}
        /\ reply.code = "argument_mismatch" => ~answer.ran \/ Overloaded

\* A watch prints the event it was asked for and no other of its module ("Event
\* name filter", watch_command.cpp); the client keeps the module's events by
\* module only (RpcClient::watchModuleEvents).
OnlyEventsAskedFor ==
    \A w \in Watcher, m \in Watched, e \in Event :
        Prints(w, m, e) => Matches(watching[w].filter, e)
=============================================================================
