----------------------- MODULE ModuleLifecycle_proofs -----------------------
(***************************************************************************)
(* Theorems about ModuleLifecycle for any modules, dependencies, watchers  *)
(* and interfaces.  Processes die between any two steps; what holds of a   *)
(* reply is a matter of what each step of its handler leaves true until    *)
(* the next, whatever dies.                                                *)
(***************************************************************************)
EXTENDS ModuleLifecycle, FiniteSetTheorems, SequenceTheorems, WellFoundedInduction, TLAPS

\* Each step belongs to one kind of request.
StepOfKind ==
    /\ step \in {"load", "loaded", "load failed"} => req.kind = "load"
    /\ step \in {"unload", "unloaded"} => req.kind = "unload"
    /\ step \in {"reload: unload", "reload: load", "reload: restore", "reloaded",
                 "restored", "lost", "start failed"} => req.kind = "reload"
    /\ step \in {"not loaded", "invoke", "invoked"} => req.kind = "call"

\* A module that this reload took down and did not bring back does not run.
DownUntilStarted ==
    step \in {"reload: unload", "reload: load", "reload: restore"} /\ req.module \in stopped =>
        req.module \in started \/ req.module \notin loaded

\* What a handler saw of its module is still so, but for its death.
SeenOfModule ==
    /\ step \in {"loaded", "reloaded", "restored"} => req.module \in loaded \cup died
    /\ step \in {"reloaded", "restored"} => req.module \in started \/ req.module \notin stopped
    /\ step \in {"reload: restore", "lost", "start failed"} => req.module \notin loaded

\* What changed since the first look at the loaded set is what logos_core did
\* or what died.
ChangesKnown ==
    /\ step \in {"load", "unload"} => loaded \subseteq before /\ before \ loaded \subseteq died
    /\ step = "load" => started = {}
    /\ step = "unload" => stopped = {}
    /\ step = "loaded" => /\ loaded \ before \subseteq started
                          /\ started \subseteq (loaded \ before) \cup died
    /\ step = "unloaded" => /\ before \ loaded \subseteq stopped \cup died
                            /\ stopped \subseteq before \ loaded

\* A call that is answered was answered by the module, or by the transport, and
\* what ran is a method that takes the argument.
AnswerKnown ==
    /\ step = "not loaded" => answer = None
    /\ step = "invoked" =>
          /\ answer.interface \in Interface
          /\ answer.ran => Implements(answer.interface, answer.arg)
          /\ \/ answer.failure = "" /\ answer.ret \in {"null", "number", "refusal"}
             \/ answer.failure \in {"timeout", "object_unavailable"}
          /\ answer.ret = "number" => answer.ran

RepliesInv == StepOfKind /\ DownUntilStarted /\ SeenOfModule /\ ChangesKnown /\ AnswerKnown

-----------------------------------------------------------------------------
(* What the handlers know, step by step.                                   *)

LEMMA InvInit == Init => RepliesInv
BY DEF Init, RepliesInv, StepOfKind, DownUntilStarted, SeenOfModule, ChangesKnown, AnswerKnown

\* Nothing is known of a handler that is not running.
LEMMA InvIdle == step' = "idle" => RepliesInv'
BY DEF RepliesInv, StepOfKind, DownUntilStarted, SeenOfModule, ChangesKnown, AnswerKnown

LEMMA InvBegin == ASSUME NEW r \in Request, Begin(r) PROVE RepliesInv'
<1>1. r.kind \in {"load", "unload", "reload", "call"}
  BY DEF Request
<1>2. /\ req' = r /\ before' = loaded /\ loaded' = loaded /\ answer' = None
      /\ started' = {} /\ stopped' = {} /\ died' = {}
      /\ step' = FirstStep(r)
  BY DEF Begin, Goto
<1>3. CASE r.kind \in {"load", "unload"}
  BY <1>2, <1>3 DEF FirstStep, RepliesInv, StepOfKind, DownUntilStarted, SeenOfModule,
                    ChangesKnown, AnswerKnown
<1>4. CASE r.kind = "reload"
  BY <1>2, <1>4 DEF FirstStep, RepliesInv, StepOfKind, DownUntilStarted, SeenOfModule,
                    ChangesKnown, AnswerKnown
<1>5. CASE r.kind = "call"
  BY <1>2, <1>5 DEF FirstStep, RepliesInv, StepOfKind, DownUntilStarted, SeenOfModule,
                    ChangesKnown, AnswerKnown
<1> QED BY <1>1, <1>3, <1>4, <1>5

\* A death takes a module out of the loaded set and into `died`.
LEMMA InvDies == ASSUME RepliesInv, NEW m, Dies(m) PROVE RepliesInv'
<1>1. CASE step = "idle"
  BY <1>1, InvIdle DEF Dies
<1>2. CASE step # "idle"
  <2>1. loaded' = loaded \ {m} /\ died' = died \cup {m} /\ m \in loaded
        /\ UNCHANGED <<step, req, before, started, stopped, answer>>
    BY <1>2 DEF Dies
  <2>2. StepOfKind' /\ DownUntilStarted' /\ SeenOfModule'
    BY <2>1 DEF RepliesInv, StepOfKind, DownUntilStarted, SeenOfModule
  <2>3. ChangesKnown'
    BY <2>1 DEF RepliesInv, ChangesKnown
  <2>4. AnswerKnown'
    BY <2>1 DEF RepliesInv, AnswerKnown
  <2> QED BY <2>2, <2>3, <2>4 DEF RepliesInv
<1> QED BY <1>1, <1>2

\* What logos_core does to the loaded set.
LEMMA LoadSteps ==
    ASSUME NEW m, NEW ok \in BOOLEAN, CoreLoad(m, ok)
    PROVE  \E up : /\ loaded' = loaded \cup up /\ started' = started \cup up
                   /\ up \cap loaded = {}
                   /\ ok <=> m \in loaded'
BY DEF CoreLoad

LEMMA InvLoad == ASSUME RepliesInv, Load PROVE RepliesInv'
<1>1. PICK ok \in BOOLEAN : /\ step = "load" /\ CoreLoad(req.module, ok)
                            /\ step' = IF ok THEN "loaded" ELSE "load failed"
  BY DEF Load, Goto
<1>2. UNCHANGED <<req, before, stopped, died, answer>>
  BY DEF Load
<1>3. PICK up : /\ loaded' = loaded \cup up /\ started' = started \cup up
                /\ up \cap loaded = {}
                /\ ok <=> req.module \in loaded'
  BY <1>1, LoadSteps
<1>4. ChangesKnown'
  BY <1>1, <1>2, <1>3 DEF RepliesInv, ChangesKnown
<1> QED BY <1>1, <1>2, <1>3, <1>4
        DEF RepliesInv, StepOfKind, DownUntilStarted, SeenOfModule, AnswerKnown

LEMMA InvUnload == ASSUME RepliesInv, Unload PROVE RepliesInv'
<1>1. PICK down : loaded' = loaded \ down /\ stopped' = stopped \cup (down \cap loaded)
  BY DEF Unload, CoreUnload
<1>2. step = "unload" /\ step' = "unloaded" /\ UNCHANGED <<req, before, started, died, answer>>
  BY DEF Unload, Goto
<1>3. ChangesKnown'
  BY <1>1, <1>2 DEF RepliesInv, ChangesKnown
<1> QED BY <1>2, <1>3 DEF RepliesInv, StepOfKind, DownUntilStarted, SeenOfModule, AnswerKnown

LEMMA InvReloadUnload == ASSUME RepliesInv, ReloadUnload PROVE RepliesInv'
<1>1. PICK down : loaded' = loaded \ down /\ stopped' = stopped \cup (down \cap loaded)
  BY DEF ReloadUnload, CoreUnload
<1>2. step = "reload: unload" /\ step' = "reload: load"
      /\ UNCHANGED <<req, before, started, died, answer>>
  BY DEF ReloadUnload, Goto
<1>3. DownUntilStarted'
  BY <1>1, <1>2 DEF RepliesInv, DownUntilStarted
<1> QED BY <1>2, <1>3 DEF RepliesInv, StepOfKind, ChangesKnown, SeenOfModule, AnswerKnown

LEMMA InvReloadLoad == ASSUME RepliesInv, ReloadLoad PROVE RepliesInv'
<1>1. PICK ok \in BOOLEAN :
        /\ step \in {"reload: load", "reload: restore"} /\ CoreLoad(req.module, ok)
        /\ step' \in IF ok THEN {"reloaded", "restored"}
                           ELSE {"reload: restore", "start failed", "lost"}
  BY DEF ReloadLoad, Goto
<1>2. UNCHANGED <<req, before, stopped, died, answer>>
  BY DEF ReloadLoad
<1>3. PICK up : /\ loaded' = loaded \cup up /\ started' = started \cup up
                /\ up \cap loaded = {}
                /\ ok <=> req.module \in loaded'
  BY <1>1, LoadSteps
<1>4. DownUntilStarted'
  BY <1>1, <1>2, <1>3 DEF RepliesInv, DownUntilStarted
<1>5. SeenOfModule'
  BY <1>1, <1>2, <1>3 DEF RepliesInv, DownUntilStarted, SeenOfModule
<1>6. StepOfKind'
  BY <1>1, <1>2 DEF RepliesInv, StepOfKind
<1> QED BY <1>1, <1>4, <1>5, <1>6 DEF RepliesInv, ChangesKnown, AnswerKnown

LEMMA InvInvoke == ASSUME RepliesInv, Invoke PROVE RepliesInv'
<1>1. step = "invoke" /\ step' = "invoked" /\ UNCHANGED <<loaded, req, before, started, stopped, died>>
  BY DEF Invoke, Goto
<1>2. PICK i \in Interface, arg \in Argument :
        \/ /\ Implements(i, arg)
           /\ \E ret \in {"null", "number"} : answer' = Answer(i, arg, ret, "", TRUE)
        \/ \E ret \in {"null", "refusal"} : answer' = Answer(i, arg, ret, "", FALSE)
        \/ Implements(i, arg) /\ answer' = Answer(i, arg, "null", "timeout", TRUE)
        \/ answer' = Answer(i, arg, "null", "object_unavailable", FALSE)
  BY DEF Invoke
<1>3. AnswerKnown'
  <2>1. CASE /\ Implements(i, arg)
             /\ \E ret \in {"null", "number"} : answer' = Answer(i, arg, ret, "", TRUE)
    <3>1. PICK ret \in {"null", "number"} : answer' = Answer(i, arg, ret, "", TRUE)
      BY <2>1
    <3>2. /\ answer'.interface = i /\ answer'.arg = arg /\ answer'.ret = ret
          /\ answer'.failure = "" /\ answer'.ran = TRUE
      BY <3>1 DEF Answer
    <3> QED BY <1>1, <2>1, <3>1, <3>2 DEF AnswerKnown
  <2>2. CASE \E ret \in {"null", "refusal"} : answer' = Answer(i, arg, ret, "", FALSE)
    <3>1. PICK ret \in {"null", "refusal"} : answer' = Answer(i, arg, ret, "", FALSE)
      BY <2>2
    <3>2. /\ answer'.interface = i /\ answer'.arg = arg /\ answer'.ret = ret
          /\ answer'.failure = "" /\ answer'.ran = FALSE
      BY <3>1 DEF Answer
    <3> QED BY <1>1, <2>2, <3>1, <3>2 DEF AnswerKnown
  <2>3. CASE Implements(i, arg) /\ answer' = Answer(i, arg, "null", "timeout", TRUE)
    BY <1>1, <2>3 DEF Answer, AnswerKnown
  <2>4. CASE answer' = Answer(i, arg, "null", "object_unavailable", FALSE)
    BY <1>1, <2>4 DEF Answer, AnswerKnown
  <2> QED BY <1>2, <2>1, <2>2, <2>3, <2>4
<1> QED BY <1>1, <1>3 DEF RepliesInv, StepOfKind, DownUntilStarted, SeenOfModule, ChangesKnown

LEMMA InvStep == RepliesInv /\ [Next]_vars => RepliesInv'
<1> SUFFICES ASSUME RepliesInv, [Next]_vars PROVE RepliesInv'
  OBVIOUS
<1>1. CASE ReportLoad \/ ReportUnload \/ ReportReload \/ NotLoaded \/ Conclude
  BY <1>1, InvIdle DEF ReportLoad, ReportUnload, ReportReload, NotLoaded, Conclude, Return
<1>2. ASSUME NEW w \in Watcher, NEW m \in Watched, NEW f \in Filter, Watch(w, m, f)
      PROVE  RepliesInv'
  BY <1>2, InvIdle DEF Watch, opVars
<1>3. CASE UNCHANGED <<loaded, opVars>>
  BY <1>3 DEF opVars, RepliesInv, StepOfKind, DownUntilStarted, SeenOfModule, ChangesKnown,
              AnswerKnown
<1>4. ASSUME NEW w \in Watcher, Listen(w) \/ WatcherEnds(w) PROVE RepliesInv'
  BY <1>3, <1>4 DEF Listen, WatcherEnds
<1> QED BY <1>1, <1>2, <1>3, <1>4, InvBegin, InvLoad, InvUnload, InvReloadUnload, InvReloadLoad,
           InvInvoke, InvDies DEF Next, Handler, vars

-----------------------------------------------------------------------------
(* What the replies say.                                                   *)

\* A reply is sent by one of the handlers' last steps; until the next request
\* or death nothing changes that a reply speaks of.
ReplySent ==
    ReportLoad \/ ReportUnload \/ ReportReload \/ NotLoaded \/ Conclude

LEMMA ReplyIs ==
    ASSUME NEW c, NEW o, Return([code |-> c, others |-> o])
    PROVE  /\ reply'.code = c /\ reply'.others = o
           /\ UNCHANGED <<loaded, req, before, started, stopped, died, answer>>
BY DEF Return

LEMMA LoadReplies ==
    ASSUME ReportLoad
    PROVE  /\ step \in {"loaded", "load failed"}
           /\ UNCHANGED <<loaded, req, before, started, stopped, died, answer>>
           /\ step = "loaded" => reply'.others = (loaded \ before) \ {req.module}
           /\ step = "load failed" => reply'.code # "ok"
<1>1. CASE step = "loaded" /\ Return([code |-> "ok", others |-> (loaded \ before) \ {req.module}])
  BY <1>1, ReplyIs
<1>2. CASE step = "load failed" /\ Return([code |-> "MODULE_LOAD_FAILED", others |-> {}])
  <2>1. reply'.code = "MODULE_LOAD_FAILED"
    BY <1>2, ReplyIs
  <2> QED BY <1>2, <2>1, ReplyIs
<1> QED BY <1>1, <1>2 DEF ReportLoad

LEMMA RepliesComeFrom ==
    [Next]_vars =>
        \/ ReplySent
        \/ step' # "idle" \/ reply' = None
        \/ UNCHANGED <<loaded, opVars>>
<1> SUFFICES ASSUME [Next]_vars, ~ReplySent, step' = "idle"
             PROVE  reply' = None \/ UNCHANGED <<loaded, opVars>>
  OBVIOUS
<1>1. ASSUME NEW r \in Request, Begin(r) PROVE reply' = None
  BY <1>1 DEF Begin
<1>2. ASSUME NEW m \in Module, Dies(m) PROVE reply' = None
  BY <1>2 DEF Dies
<1>3. ASSUME NEW w \in Watcher, Listen(w) \/ WatcherEnds(w) PROVE UNCHANGED <<loaded, opVars>>
  BY <1>3 DEF Listen, WatcherEnds
<1>4. ASSUME NEW w \in Watcher, NEW m \in Watched, NEW f \in Filter, Watch(w, m, f)
      PROVE  UNCHANGED <<loaded, opVars>>
  BY <1>4 DEF Watch
<1>5. ~(Load \/ Unload \/ ReloadUnload \/ ReloadLoad \/ Invoke)
  BY DEF Load, Unload, ReloadUnload, ReloadLoad, Invoke, Goto
<1> QED BY <1>1, <1>2, <1>3, <1>4, <1>5 DEF Next, Handler, ReplySent, vars

\* What a reply claims to have done is so, for any modules, requests and deaths in the middle
\* of a handler: unloaded is not running, loaded is running or has died since,
\* reloaded is restarted unless the unload was refused.
THEOREM RepliesAreTrue == Spec => []RepliesTrue
<1>1. Init => RepliesInv /\ RepliesTrue
  BY InvInit DEF Init, RepliesTrue, Replied
<1>2. RepliesInv /\ RepliesTrue /\ [Next]_vars => RepliesTrue'
  <2> SUFFICES ASSUME RepliesInv, RepliesTrue, [Next]_vars PROVE RepliesTrue'
    OBVIOUS
  <2>1. CASE ReportLoad
    <3>1. step \in {"loaded", "load failed"} /\ UNCHANGED <<loaded, req, started, stopped, died>>
          /\ (step = "load failed" => reply'.code # "ok")
      BY <2>1, LoadReplies
    <3> QED BY <3>1 DEF RepliesTrue, Replied, RepliesInv, StepOfKind, SeenOfModule
  <2>2. CASE ReportUnload
    BY <2>2 DEF ReportUnload, Return, RepliesTrue, Replied, RepliesInv, StepOfKind
  <2>3. CASE ReportReload
    <3>1. step \in {"reloaded", "restored", "lost", "start failed"}
          /\ reply'.code = (IF step = "reloaded" THEN "ok" ELSE step)
          /\ UNCHANGED <<loaded, req, started, stopped, died>>
      BY <2>3, ReplyIs DEF ReportReload
    <3> QED BY <3>1 DEF RepliesTrue, Replied, RepliesInv, StepOfKind, SeenOfModule
  <2>4. CASE NotLoaded \/ Conclude
    BY <2>4 DEF NotLoaded, Conclude, Return, RepliesTrue, Replied, RepliesInv, StepOfKind
  <2>5. CASE step' # "idle" \/ reply' = None
    BY <2>5 DEF RepliesTrue, Replied
  <2>6. CASE UNCHANGED <<loaded, opVars>>
    BY <2>6 DEF opVars, RepliesTrue, Replied
  <2> QED BY <2>1, <2>2, <2>3, <2>4, <2>5, <2>6, RepliesComeFrom DEF ReplySent
<1> QED BY <1>1, <1>2, InvStep, PTL DEF Spec

\* The modules that a reply names as loaded or unloaded on the side are those
\* that logos_core brought up or down for the request, but for deaths between
\* the two looks at the loaded set, for any dependencies.
THEOREM SideEffectsAreReported == Spec => []SideEffectsReported
<1>1. Init => RepliesInv /\ SideEffectsReported
  BY InvInit DEF Init, SideEffectsReported, Replied
<1>2. RepliesInv /\ SideEffectsReported /\ [Next]_vars => SideEffectsReported'
  <2> SUFFICES ASSUME RepliesInv, SideEffectsReported, [Next]_vars PROVE SideEffectsReported'
    OBVIOUS
  <2>1. CASE ReportLoad
    <3>1. step \in {"loaded", "load failed"} /\ UNCHANGED <<loaded, req, started, died>>
      BY <2>1, LoadReplies
    <3>2. CASE step = "loaded"
      <4>1. reply'.others = (loaded \ before) \ {req.module}
        BY <2>1, <3>2, LoadReplies
      <4> QED BY <3>1, <3>2, <4>1 DEF SideEffectsReported, Replied, RepliesInv, StepOfKind, ChangesKnown
    <3>3. CASE step = "load failed"
      <4>1. reply'.code # "ok"
        BY <2>1, <3>3, LoadReplies
      <4> QED BY <3>1, <3>3, <4>1 DEF SideEffectsReported
    <3> QED BY <3>1, <3>2, <3>3
  <2>2. CASE ReportUnload
    <3>1. step = "unloaded" /\ UNCHANGED <<loaded, req, stopped, died>>
      BY <2>2 DEF ReportUnload, Return
    <3>2. reply'.code = "ok" => reply'.others = (before \ loaded) \ {req.module}
      BY <2>2 DEF ReportUnload, Return
    <3> QED BY <3>1, <3>2 DEF SideEffectsReported, Replied, RepliesInv, StepOfKind, ChangesKnown
  <2>3. CASE ReportReload \/ NotLoaded \/ Conclude
    BY <2>3 DEF ReportReload, NotLoaded, Conclude, Return, SideEffectsReported, Replied,
                RepliesInv, StepOfKind
  <2>4. CASE step' # "idle" \/ reply' = None
    BY <2>4 DEF SideEffectsReported, Replied
  <2>5. CASE UNCHANGED <<loaded, opVars>>
    BY <2>5 DEF opVars, SideEffectsReported, Replied
  <2> QED BY <2>1, <2>2, <2>3, <2>4, <2>5, RepliesComeFrom DEF ReplySent
<1> QED BY <1>1, <1>2, InvStep, PTL DEF Spec

-----------------------------------------------------------------------------
(* Modules and what they require.                                          *)

\* A load brings up what it starts together with all that requires.
LEMMA LoadOrphansNone ==
    ASSUME NoneOrphaned, NEW m, NEW ok, CoreLoad(m, ok)
    PROVE  NoneOrphaned'
<1>1. PICK up : /\ \A u \in up : Needed(u) \subseteq loaded \cup up
                /\ loaded' = loaded \cup up /\ gone' = gone \ up
  BY DEF CoreLoad
<1> QED BY <1>1 DEF NoneOrphaned, Needed

\* An unload with its dependents takes along all that requires what it stops;
\* without, what it stops counts as gone.
LEMMA UnloadOrphansNone ==
    ASSUME NoneOrphaned, NEW m, NEW cascade, CoreUnload(m, cascade),
           gone' = IF cascade THEN gone ELSE gone \cup (loaded \ loaded')
    PROVE  NoneOrphaned'
<1>1. PICK down : /\ \A d \in down : cascade => Dependents(d) \subseteq down
                  /\ loaded' = loaded \ down
  BY DEF CoreUnload
<1>2. CASE cascade
  <2> SUFFICES ASSUME NEW n \in loaded', NEW d \in Needed(n) \ loaded', d \notin gone
               PROVE  FALSE
    BY <1>2 DEF NoneOrphaned, Needed
  <2>1. d \in loaded /\ d \in down
    BY <1>1 DEF NoneOrphaned
  <2>2. n \in Dependents(d)
    BY <1>1, <2>1 DEF Dependents
  <2> QED BY <1>1, <1>2, <2>1, <2>2
<1>3. CASE ~cascade
  BY <1>1, <1>3 DEF NoneOrphaned, Needed
<1> QED BY <1>2, <1>3

\* For any graph of dependencies, a module runs without one that it requires
\* only if that one died or was unloaded alone.
THEOREM NoOrphans == Spec => []NoneOrphaned
<1>1. Init => NoneOrphaned
  BY DEF Init, NoneOrphaned
<1>2. NoneOrphaned /\ [Next]_vars => NoneOrphaned'
  <2> SUFFICES ASSUME NoneOrphaned, [Next]_vars PROVE NoneOrphaned'
    OBVIOUS
  <2>1. CASE Load \/ ReloadLoad
    BY <2>1, LoadOrphansNone DEF Load, ReloadLoad
  <2>2. CASE Unload
    BY <2>2, UnloadOrphansNone DEF Unload
  <2>3. CASE ReloadUnload
    BY <2>3, UnloadOrphansNone DEF ReloadUnload
  <2>4. ASSUME NEW m \in Module, Dies(m) PROVE NoneOrphaned'
    BY <2>4 DEF Dies, NoneOrphaned, Needed
  <2>5. CASE UNCHANGED <<loaded, gone>>
    BY <2>5 DEF NoneOrphaned, Needed
  <2> QED BY <2>1, <2>2, <2>3, <2>4, <2>5
          DEF Next, Handler, vars, Begin, Return, ReportLoad, ReportUnload, ReportReload,
              NotLoaded, Invoke, Conclude, Watch, Listen, WatcherEnds
<1> QED BY <1>1, <1>2, PTL DEF Spec

-----------------------------------------------------------------------------
(* What the caller of a module is told.                                    *)

\* A nonempty set of naturals has a least element.
LEMMA LeastOf ==
    ASSUME NEW I \in SUBSET Nat, I # {}
    PROVE  Min(I) \in I
<1> DEFINE less == OpToRel(<, Nat)
<1>1. IsWellFoundedOn(less, Nat)
  BY NatLessThanWellFounded, Zenon
<1>2. \A a, b \in Nat : a < b => <<a, b>> \in less
  BY Zenon DEF OpToRel
<1> HIDE DEF less
<1>3. PICK x \in I : \A y \in I : ~(<<y, x>> \in less)
  BY <1>1, WFMin
<1>4. x \in Nat /\ \A y \in I : y \in Nat /\ ~(y < x)
  BY <1>2, <1>3, Zenon
<1>5. \A y \in I : x <= y
  BY <1>4
<1> QED BY <1>5 DEF Min

\* Found is the place of a method of that name, 0 if there is none.
LEMMA FoundIs ==
    ASSUME NEW S, NEW s \in Seq(S), NEW f
    PROVE  \/ Found(s, f) = 0 /\ \A k \in DOMAIN s : s[k].name # f
           \/ Found(s, f) \in DOMAIN s /\ s[Found(s, f)].name = f
<1> DEFINE I == {k \in 1..Len(s) : s[k].name = f}
<1>1. Found(s, f) = IF I # {} THEN Min(I) ELSE 0
  BY DEF Found, SelectInSeq
<1>2. I \subseteq Nat /\ DOMAIN s = 1..Len(s)
  OBVIOUS
<1>3. CASE I # {}
  <2>1. Min(I) \in I
    BY <1>2, <1>3, LeastOf
  <2> QED BY <1>1, <1>2, <1>3, <2>1
<1>4. CASE I = {}
  BY <1>1, <1>2, <1>4
<1> QED BY <1>3, <1>4

Method == [name : STRING, types : Seq(STRING)]

\* What the module describes has its methods' names, and their types or none.
LEMMA DescribedIs ==
    ASSUME NEW i \in Interface, NEW shown \in Described(i), shown # <<>>
    PROVE  /\ \E S : shown \in Seq(S)
           /\ DOMAIN shown = DOMAIN i
           /\ \A k \in DOMAIN i : shown[k].name = i[k].name
           /\ \A k \in DOMAIN i : shown[k].types \in {Unpublished, i[k].types}
<1>1. i \in Seq(Method)
  BY InterfaceAssumption DEF Method
<1>2. CASE shown = i
  BY <1>1, <1>2
<1>3. CASE shown = [k \in DOMAIN i |-> [i[k] EXCEPT !.types = Unpublished]]
  <2> DEFINE S == {shown[k] : k \in DOMAIN i}
  <2>1. DOMAIN i = 1..Len(i) /\ Len(i) \in Nat
    BY <1>1
  <2>2. shown \in [1..Len(i) -> S]
    BY <1>3, <2>1
  <2>3. shown \in Seq(S)
    BY <2>1, <2>2
  <2>4. \A k \in DOMAIN i : /\ i[k] \in Method
                            /\ shown[k] = [i[k] EXCEPT !.types = Unpublished]
    BY <1>1, <1>3
  <2>5. \A k \in DOMAIN i : shown[k].name = i[k].name /\ shown[k].types = Unpublished
    BY <2>4 DEF Method
  <2> QED BY <1>3, <2>3, <2>5
<1> QED BY <1>2, <1>3 DEF Described

\* Methods have a place other than 0 and a list of types.
LEMMA MethodsAre ==
    ASSUME NEW i \in Interface, NEW n \in DOMAIN i
    PROVE  n # 0 /\ i[n].types \in Seq(STRING)
<1>1. i \in Seq(Method)
  BY InterfaceAssumption DEF Method
<1>2. n \in 1..Len(i) /\ Len(i) \in Nat
  BY <1>1, LenProperties
<1>3. n # 0 /\ i[n] \in Method
  BY <1>1, <1>2, ElementOfSeq
<1> QED BY <1>3 DEF Method

\* The argument of a call does not fit the only type of a method.
LEMMA MismatchIs ==
    ASSUME NEW types \in Seq(STRING), NEW arg, ArgumentMismatch(types, <<arg>>)
    PROVE  Len(types) = 1 /\ ~Fits(arg, types[1])
<1>1. Len(types) = 1
  BY DEF ArgumentMismatch
<1>2. PICK n \in DOMAIN types : ~Fits(<<arg>>[n], types[n])
  BY DEF ArgumentMismatch
<1>3. n = 1
  BY <1>1, <1>2, LenProperties
<1> QED BY <1>1, <1>2, <1>3

\* What callEnvelope makes of an answer: a success, a missing method and an
\* argument that does not fit are what they are called.
Judged(i, arg, ret, shown, code) ==
    /\ code = "ok" => ret # "refusal" /\ (ret = "number" \/ shown = <<>> \/ Named(i) # {})
    /\ code = "METHOD_NOT_FOUND" => ret = "null" /\ Named(i) = {}
    /\ code = "argument_mismatch" =>
         \E j \in Named(i) : Len(i[j].types) = 1 /\ ~Fits(arg, i[j].types[1])

LEMMA EnvelopeSays ==
    ASSUME NEW i \in Interface, NEW shown \in Described(i), NEW arg,
           NEW ret \in {"null", "number", "refusal"},
           NEW code, code = Envelope("f", ret, <<arg>>, "", shown)
    PROVE  Judged(i, arg, ret, shown, code)
<1> DEFINE j == Found(shown, "f")
<1>1. CASE ret # "null" \/ shown = <<>>
  BY <1>1 DEF Envelope, Judged
<1>2. CASE ret = "null" /\ shown # <<>>
  <2>1. code = IF j = 0 THEN "METHOD_NOT_FOUND"
               ELSE IF ArgumentMismatch(shown[j].types, <<arg>>) THEN "argument_mismatch"
               ELSE "ok"
    BY <1>2 DEF Envelope
  <2>2. PICK S : shown \in Seq(S)
    BY <1>2, DescribedIs
  <2>3. \/ j = 0 /\ \A k \in DOMAIN shown : shown[k].name # "f"
        \/ j \in DOMAIN shown /\ shown[j].name = "f"
    BY <2>2, FoundIs
  <2> HIDE DEF j
  <2>4. DOMAIN shown = DOMAIN i /\ \A k \in DOMAIN i :
          shown[k].name = i[k].name /\ shown[k].types \in {Unpublished, i[k].types}
    BY <1>2, DescribedIs
  <2>5. \/ j = 0 /\ \A k \in DOMAIN i : i[k].name # "f"
        \/ /\ j \in DOMAIN i /\ i[j].name = "f" /\ j # 0
           /\ shown[j].types \in {Unpublished, i[j].types}
    BY <2>3, <2>4, MethodsAre, Zenon
  <2>6. ASSUME j \in DOMAIN i, shown[j].types \in {Unpublished, i[j].types},
               ArgumentMismatch(shown[j].types, <<arg>>)
        PROVE  Len(i[j].types) = 1 /\ ~Fits(arg, i[j].types[1])
    <3>1. shown[j].types # Unpublished
      BY <2>6 DEF ArgumentMismatch
    <3>2. ArgumentMismatch(i[j].types, <<arg>>) /\ i[j].types \in Seq(STRING)
      BY <2>6, <3>1, MethodsAre, Zenon
    <3> QED BY <3>2, MismatchIs, Zenon
  <2>7. code = "METHOD_NOT_FOUND" => Named(i) = {}
    BY <2>1, <2>5 DEF Named
  <2>8. code = "argument_mismatch" =>
          \E n \in Named(i) : Len(i[n].types) = 1 /\ ~Fits(arg, i[n].types[1])
    BY <2>1, <2>5, <2>6 DEF Named
  <2>9. code = "ok" => Named(i) # {} /\ ret # "refusal"
    BY <2>1, <2>5, <1>2 DEF Named, Envelope
  <2> QED BY <1>2, <2>7, <2>8, <2>9 DEF Judged
<1> QED BY <1>1, <1>2

\* Two methods of a name are more than one.
LEMMA TwoAreOverloaded ==
    ASSUME NEW i \in Interface, NEW k \in Named(i), NEW j \in Named(i), k # j
    PROVE  Cardinality(Named(i)) > 1
<1> DEFINE X == Named(i)
<1>1. IsFiniteSet(DOMAIN i)
  <2>1. i \in Seq(Method)
    BY InterfaceAssumption DEF Method
  <2>2. DOMAIN i = 1..Len(i) /\ Len(i) \in Int /\ 1 \in Int
    BY <2>1
  <2> QED BY <2>2, FS_Interval
<1>2. IsFiniteSet(X) /\ X \subseteq DOMAIN i
  BY <1>1, FS_Subset DEF Named
<1>3. Cardinality({k, j}) <= Cardinality(X)
  BY <1>2, FS_Subset
<1>4. IsFiniteSet({k}) /\ Cardinality({k}) = 1
  BY FS_Singleton
<1>5. Cardinality({k} \cup {j}) = Cardinality({k}) + 1
  BY <1>4, FS_AddElement
<1>6. {k} \cup {j} = {k, j} /\ Cardinality(X) \in Nat
  BY <1>2, FS_CardinalityType
<1> QED BY <1>3, <1>4, <1>5, <1>6

LEMMA ConcludeTellsTrue ==
    ASSUME AnswerKnown, Conclude
    PROVE  CallsToldTrue'
<1> DEFINE i == answer.interface
           arg == answer.arg
           ret == answer.ret
<1>1. PICK shown \in Described(i) :
        Return([code |-> Envelope("f", ret, <<arg>>, answer.failure, shown),
                others |-> {}, blind |-> shown = <<>>])
  BY DEF Conclude
<1> DEFINE code == Envelope("f", ret, <<arg>>, answer.failure, shown)
<1>2. reply'.code = code /\ reply'.blind = (shown = <<>>) /\ answer' = answer
  BY <1>1 DEF Return
<1>3. /\ i \in Interface
      /\ answer.ran => Implements(i, arg)
      /\ \/ answer.failure = "" /\ ret \in {"null", "number", "refusal"}
         \/ answer.failure \in {"timeout", "object_unavailable"}
      /\ ret = "number" => answer.ran
  BY DEF AnswerKnown, Conclude
<1>4. CASE answer.failure # ""
  <2>1. code = "METHOD_FAILED"
    BY <1>4 DEF Envelope
  <2> QED BY <1>2, <2>1 DEF CallsToldTrue
<1>5. CASE answer.failure = ""
  <2>1. i \in Interface /\ shown \in Described(i) /\ ret \in {"null", "number", "refusal"}
        /\ code = Envelope("f", ret, <<arg>>, "", shown)
    BY <1>1, <1>3, <1>5
  <2> HIDE DEF i, arg, ret, code
  <2>2. Judged(i, arg, ret, shown, code)
    BY <2>1, EnvelopeSays, Zenon
  <2>3. answer.ran => \E k \in Named(i) : Fits(arg, i[k].types[1])
    BY <1>3, TakesAssumption DEF Implements, Named
  <2>4. code = "METHOD_NOT_FOUND" => ~answer.ran /\ Named(i) = {}
    BY <2>2, <2>3 DEF Judged
  <2>5. code = "argument_mismatch" => ~answer.ran \/ Cardinality(Named(i)) > 1
    <3> SUFFICES ASSUME code = "argument_mismatch", answer.ran
                 PROVE  Cardinality(Named(i)) > 1
      OBVIOUS
    <3>1. PICK j \in Named(i) : ~Fits(arg, i[j].types[1])
      BY <2>2 DEF Judged
    <3>2. PICK k \in Named(i) : Fits(arg, i[k].types[1])
      BY <2>3
    <3> QED BY <2>1, <3>1, <3>2, TwoAreOverloaded
  <2>6. code = "ok" =>
          /\ ret # "refusal"
          /\ answer.ran \/ shown = <<>> \/ Named(i) # {}
    BY <1>3, <2>2 DEF Judged
  <2> QED BY <1>2, <1>5, <2>4, <2>5, <2>6 DEF CallsToldTrue, Overloaded, i, ret
<1> QED BY <1>4, <1>5

\* For any interface, argument and description of itself that the module gives,
\* and any provider that takes no more than the table lets pass, a call is
\* passed for a success only if the method ran, exists, or the module could not
\* be asked; a missing method is missing; and an argument is blamed only where
\* nothing ran or the name is overloaded.
THEOREM CallersToldTrue == Spec => []CallsToldTrue
<1>1. Init => RepliesInv /\ CallsToldTrue
  BY InvInit DEF Init, CallsToldTrue, Replied
<1>2. RepliesInv /\ CallsToldTrue /\ [Next]_vars => CallsToldTrue'
  <2> SUFFICES ASSUME RepliesInv, CallsToldTrue, [Next]_vars PROVE CallsToldTrue'
    OBVIOUS
  <2>1. CASE Conclude
    BY <2>1, ConcludeTellsTrue DEF RepliesInv
  <2>2. CASE NotLoaded
    <3>1. answer' = None
      BY <2>2 DEF NotLoaded, Return, RepliesInv, AnswerKnown
    <3> QED BY <3>1 DEF CallsToldTrue
  <2>3. CASE ReportLoad \/ ReportUnload \/ ReportReload
    BY <2>3 DEF ReportLoad, ReportUnload, ReportReload, Return, CallsToldTrue, Replied,
                RepliesInv, StepOfKind
  <2>4. CASE step' # "idle" \/ reply' = None
    BY <2>4 DEF CallsToldTrue, Replied
  <2>5. CASE UNCHANGED <<loaded, opVars>>
    BY <2>5 DEF opVars, CallsToldTrue, Replied, Overloaded, Named
  <2> QED BY <2>1, <2>2, <2>3, <2>4, <2>5, RepliesComeFrom DEF ReplySent
<1> QED BY <1>1, <1>2, InvStep, PTL DEF Spec
=============================================================================
