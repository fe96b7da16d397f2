------------------------- MODULE WebhostView_proofs -------------------------
(***************************************************************************)
(* Theorems about WebhostView for any senders and any socket: what the     *)
(* three threads that meet in a view owe each other, and what becomes of   *)
(* the messages.                                                           *)
(***************************************************************************)
EXTENDS WebhostView, SequenceTheorems, WellFoundedInduction, TLAPS

Pumping == {"check", "recv", "deliver", "selfclosing", "end", "announce", "callback", "done"}

\* The part of the types the argument needs.
TypeOK ==
    /\ host \in Owned \cup Stopping \cup {"idle", "listening", "failed"}
    /\ pump \in Pumping \cup {"unborn"}
    /\ announced \in BOOLEAN /\ onDied \in BOOLEAN /\ ended \in BOOLEAN
    /\ joinable \in BOOLEAN /\ selfClosed \in BOOLEAN
    /\ receiver \in BOOLEAN /\ running \in BOOLEAN /\ detached \in BOOLEAN

\* The pump runs once the view exists, and no sooner.
PumpHasView == pump # "unborn" <=> host \in Owned \cup Stopping

\* Tearing the view down silences the pump, and an end the pump finds before
\* that is a loss.
EndAccounted ==
    /\ host \in Stopping => announced
    /\ pump = "announce" => announced \/ ended
    /\ DeathIsLoss

\* No receiver is left behind a detach.
DetachHolds == detached => ~receiver /\ ~running

\* The pump stays to be joined unless a receiver detached it, and who destroys
\* the view from the death callback is still in it.
JoinSound ==
    /\ host \in Owned \cup {"stopping", "closing", "joining"} => joinable \/ selfClosed
    /\ host \notin Stopping => stopper # "pump"
    /\ host \in Stopping \ {"destroyed"} /\ stopper = "pump" => pump = "callback"
    /\ ViewOutlivesPump

ViewInv == TypeOK /\ PumpHasView /\ EndAccounted /\ DetachHolds /\ JoinSound

LEMMA ViewInit == Init => ViewInv
BY NoneAssumption DEF Init, ViewInv, TypeOK, PumpHasView, EndAccounted, DeathIsLoss,
    DetachHolds, JoinSound, ViewOutlivesPump, Owned, Stopping, Pumping

LEMMA ViewStep == ViewInv /\ [Next]_vars => ViewInv'
<1> SUFFICES ASSUME ViewInv, [Next]_vars PROVE ViewInv'
  OBVIOUS
<1> USE DEF ViewInv, TypeOK, PumpHasView, EndAccounted, DeathIsLoss, DetachHolds, JoinSound,
            ViewOutlivesPump, Owned, Stopping, Pumping, Goto, Pump, viewVars, procVars,
            sockVars, sendVars, pumpVars, recvVars, pageVars
<1>1. CASE UNCHANGED <<viewVars, ended, pumpVars, recvVars>>
  BY <1>1
<1>2. CASE SpawnView
  <2>1. CASE Spawn \/ GiveUp
    BY <2>1 DEF Spawn, GiveUp
  <2>2. CASE Accept
    BY <2>2 DEF Accept
  <2> QED
    BY <1>2, <2>1, <2>2 DEF SpawnView
<1>3. CASE SetOnDied
  BY <1>3 DEF SetOnDied
<1>4. ASSUME NEW on \in BOOLEAN, SetReceiver(on) PROVE ViewInv'
  BY <1>4 DEF SetReceiver
<1>5. ASSUME NEW by \in {"container", "pump"}, BeginStop(by) PROVE ViewInv'
  BY <1>5 DEF BeginStop
<1>6. CASE Teardown
  <2>1. CASE Reap
    BY <2>1 DEF Reap
  <2>2. CASE Shut
    BY <2>2 DEF Shut
  <2>3. CASE Join
    BY <2>3 DEF Join
  <2> QED
    BY <1>6, <2>1, <2>2, <2>3 DEF Teardown
<1>7. CASE PumpChecks \/ PumpReads \/ AllDelivered \/ SelfClose
  BY <1>7 DEF PumpChecks, PumpReads, AllDelivered, SelfClose
<1>8. CASE Deliver \/ Delivered
  <2>1. CASE Deliver
    BY <2>1 DEF Deliver
  <2>2. CASE Delivered
    BY <2>2 DEF Delivered
  <2> QED
    BY <1>8, <2>1, <2>2
<1>9. CASE SelfDetach
  BY <1>9 DEF SelfDetach
<1>10. CASE PumpEnds
  BY <1>10 DEF PumpEnds
<1>11. CASE Announce
  BY <1>11, NoneAssumption DEF Announce
<1>12. CASE CallbackReturns
  BY <1>12 DEF CallbackReturns
<1>13. CASE UNCHANGED vars \/ Page
  BY <1>1, <1>13 DEF vars, Page, Dial, Dies, PageReads, Ready, HandOver, PageSays, Receive
<1>14. ASSUME NEW s \in Sender, SendBegins(s) \/ SendPiece(s) \/ SendFails(s) PROVE ViewInv'
  BY <1>1, <1>14 DEF SendBegins, SendPiece, SendFails
<1> QED
  BY <1>2, <1>3, <1>4, <1>5, <1>6, <1>7, <1>8, <1>9, <1>10, <1>11, <1>12, <1>13, <1>14
     DEF Next, PumpRuns

LEMMA ViewSound == Spec => []ViewInv
BY ViewInit, ViewStep, PTL DEF Spec

\* Once setReceiver(nullptr) has returned, no receiver runs: whoever detached
\* it may go away, wherever the pump is.
THEOREM DetachFinal == Spec => []DetachIsFinal
<1>1. ViewInv => DetachIsFinal
  BY DEF ViewInv, DetachHolds, DetachIsFinal
<1> QED
  BY <1>1, ViewSound, PTL

\* A death callback always speaks of a page that was lost, never of one that
\* the container tore down.
THEOREM DeathsAreLosses == Spec => []DeathIsLoss
<1>1. ViewInv => DeathIsLoss
  BY DEF ViewInv, EndAccounted
<1> QED
  BY <1>1, ViewSound, PTL

\* Unless a receiver had closed the channel, the pump no longer uses the view
\* once it is destroyed, also when it is destroyed from the death callback.
THEOREM PumpEndsFirst == Spec => []ViewOutlivesPump
<1>1. ViewInv => ViewOutlivesPump
  BY DEF ViewInv, JoinSound
<1> QED
  BY <1>1, ViewSound, PTL

-----------------------------------------------------------------------------
(* Sequences of texts, put one behind the other.                           *)

Piece == Sender \X {1, 2}
Text  == Seq(Piece)

\* A nonempty set of naturals has a least element.
LEMMA LeastOf ==
    ASSUME NEW I \in SUBSET Nat, I # {}
    PROVE  \E x \in I : \A y \in I : x <= y
<1> DEFINE less == OpToRel(<, Nat)
<1>1. IsWellFoundedOn(less, Nat)
  BY NatLessThanWellFounded, Zenon
<1>2. \A a, b \in Nat : a < b => <<a, b>> \in less
  BY Zenon DEF OpToRel
<1> HIDE DEF less
<1>3. PICK x \in I : \A y \in I : ~(<<y, x>> \in less)
  BY <1>1, WFMin
<1>4. x \in Nat /\ \A y \in I : y \in Nat /\ ~(y < x)
  BY <1>2, <1>3, Zenon
<1> QED BY <1>4

\* f holds, at each place, the texts of q up to there put one behind the other.
Sums(f, q, n) == f = [i \in 1..n |-> IF i = 1 THEN q[i] ELSE f[i - 1] \o q[i]]

LEMMA SumsExist == ASSUME NEW q, NEW n \in Nat PROVE \E f : Sums(f, q, n)
<1> DEFINE I == {k \in Nat : ~ \E f : Sums(f, q, k)}
<1> SUFFICES ASSUME I # {} PROVE FALSE
  OBVIOUS
<1>1. PICK k \in I : \A j \in I : k <= j
  BY LeastOf
<1>2. k \in Nat /\ ~ \E f : Sums(f, q, k)
  OBVIOUS
<1>3. CASE k = 0
  <2>1. Sums([i \in 1..0 |-> 0], q, 0)
    BY DEF Sums
  <2> QED BY <1>2, <1>3, <2>1
<1>4. CASE k # 0
  <2>1. k - 1 \in Nat /\ ~(k <= k - 1)
    BY <1>2, <1>4
  <2>2. PICK g : Sums(g, q, k - 1)
    BY <1>1, <2>1
  <2> DEFINE f == [i \in 1..k |-> IF i = 1 THEN q[i] ELSE g[i - 1] \o q[i]]
  <2>3. \A i \in 1..(k - 1) : g[i] = IF i = 1 THEN q[i] ELSE g[i - 1] \o q[i]
    BY <2>2 DEF Sums
  <2>4. \A i \in 1..k : i # 1 => i - 1 \in 1..(k - 1) /\ i - 1 \in 1..k
    BY <1>2
  <2>5. \A i \in 1..k : i # 1 => f[i - 1] = g[i - 1]
    BY <2>3, <2>4
  <2>6. Sums(f, q, k)
    BY <2>5 DEF Sums
  <2> QED BY <1>2, <2>6
<1> QED BY <1>3, <1>4

LEMMA FlattenIs ==
    ASSUME NEW q \in Seq(Text), Len(q) # 0
    PROVE  \E f : Sums(f, q, Len(q)) /\ FlattenSeq(q) = f[Len(q)]
<1> DEFINE f == CHOOSE f : f = [i \in 1..Len(q) |-> IF i = 1 THEN q[i] ELSE f[i - 1] \o q[i]]
<1>1. Len(q) \in Nat
  BY LenProperties
<1>2. FlattenSeq(q) = f[Len(q)]
  BY Zenon DEF FlattenSeq
<1>3. \E g : g = [i \in 1..Len(q) |-> IF i = 1 THEN q[i] ELSE g[i - 1] \o q[i]]
  BY <1>1, SumsExist DEF Sums
<1>4. f = [i \in 1..Len(q) |-> IF i = 1 THEN q[i] ELSE f[i - 1] \o q[i]]
  BY <1>3, Zenon
<1> HIDE DEF f
<1> QED BY <1>2, <1>4 DEF Sums

\* The sums of texts are texts, and those of the same texts are the same.
LEMMA SumsAre ==
    ASSUME NEW q, NEW r, NEW n \in Nat, NEW m \in Nat, n <= m, NEW f, NEW g,
           \A i \in 1..n : q[i] \in Text /\ q[i] = r[i],
           Sums(f, q, n), Sums(g, r, m)
    PROVE  \A i \in 1..n : f[i] \in Text /\ f[i] = g[i]
<1> DEFINE I == {i \in 1..n : ~(f[i] \in Text /\ f[i] = g[i])}
<1> SUFFICES ASSUME I # {} PROVE FALSE
  OBVIOUS
<1>1. I \in SUBSET Nat
  OBVIOUS
<1>2. PICK k \in I : \A j \in I : k <= j
  BY <1>1, LeastOf
<1>3. k \in 1..n /\ k \in 1..m /\ ~(f[k] \in Text /\ f[k] = g[k])
  OBVIOUS
<1>4. /\ f[k] = IF k = 1 THEN q[k] ELSE f[k - 1] \o q[k]
      /\ g[k] = IF k = 1 THEN r[k] ELSE g[k - 1] \o r[k]
  BY <1>3 DEF Sums
<1>5. CASE k = 1
  BY <1>3, <1>4, <1>5
<1>6. CASE k # 1
  <2>1. k - 1 \in 1..n /\ ~(k <= k - 1)
    BY <1>3, <1>6
  <2>2. f[k - 1] \in Text /\ f[k - 1] = g[k - 1]
    BY <1>2, <2>1
  <2>3. f[k - 1] \o q[k] \in Text
    BY <1>3, <2>2, ConcatProperties DEF Text
  <2>4. q[k] = r[k]
    BY <1>3
  <2> QED BY <1>3, <1>4, <1>6, <2>2, <2>3, <2>4, Zenon
<1> QED BY <1>5, <1>6

LEMMA FlattenText == ASSUME NEW q \in Seq(Text) PROVE FlattenSeq(q) \in Text
<1>1. Len(q) \in Nat /\ \A i \in 1..Len(q) : q[i] \in Text
  BY LenProperties, ElementOfSeq
<1>2. CASE Len(q) = 0
  <2>1. q = <<>> /\ <<>> \in Text
    BY <1>2, EmptySeq DEF Text
  <2>2. FlattenSeq(q) = q
    BY <1>2, Zenon DEF FlattenSeq
  <2> QED BY <2>1, <2>2
<1>3. CASE Len(q) # 0
  <2>1. PICK f : Sums(f, q, Len(q)) /\ FlattenSeq(q) = f[Len(q)]
    BY <1>3, FlattenIs
  <2>2. \A i \in 1..Len(q) : f[i] \in Text
    BY <1>1, <2>1, SumsAre
  <2>3. Len(q) \in 1..Len(q)
    BY <1>1, <1>3
  <2> QED BY <2>1, <2>2, <2>3
<1> QED BY <1>2, <1>3

\* One more text goes behind the others.
LEMMA FlattenAppend ==
    ASSUME NEW q \in Seq(Text), NEW t \in Text
    PROVE  FlattenSeq(Append(q, t)) = FlattenSeq(q) \o t
<1> DEFINE r == Append(q, t)
           n == Len(q)
<1>1. n \in Nat /\ \A i \in 1..n : q[i] \in Text
  BY LenProperties, ElementOfSeq
<1>2. r \in Seq(Text) /\ Len(r) = n + 1 /\ (\A i \in 1..n : r[i] = q[i]) /\ r[n + 1] = t
  BY AppendProperties
<1> HIDE DEF r
<1>3. n + 1 \in Nat /\ n <= n + 1 /\ n + 1 \in 1..(n + 1) /\ n + 1 # 0 /\ (n + 1) - 1 = n
  BY <1>1
<1>4. PICK g : Sums(g, r, n + 1) /\ FlattenSeq(r) = g[n + 1]
  BY <1>2, <1>3, FlattenIs
<1>5. g[n + 1] = IF n + 1 = 1 THEN r[n + 1] ELSE g[n] \o r[n + 1]
  BY <1>3, <1>4 DEF Sums
<1>6. CASE n = 0
  <2>1. q = <<>> /\ FlattenSeq(q) = q
    BY <1>6, EmptySeq, Zenon DEF FlattenSeq
  <2>2. <<>> \o t = t
    BY ConcatEmptySeq DEF Text
  <2>3. g[n + 1] = t
    <3>1. n + 1 = 1
      BY <1>6
    <3> QED BY <1>2, <1>5, <3>1, Zenon
  <2>4. FlattenSeq(q) = <<>>
    BY <2>1
  <2> QED BY <1>4, <2>2, <2>3, <2>4, Zenon DEF r
<1>7. CASE n # 0
  <2>1. PICK f : Sums(f, q, n) /\ FlattenSeq(q) = f[n]
    BY <1>7, FlattenIs
  <2>2. \A i \in 1..n : f[i] = g[i]
    <3>1. \A i \in 1..n : q[i] \in Text /\ q[i] = r[i]
      BY <1>1, <1>2
    <3>2. Sums(f, q, n) /\ Sums(g, r, n + 1)
      BY <1>4, <2>1
    <3> HIDE DEF n
    <3> QED BY <1>1, <1>3, <3>1, <3>2, SumsAre
  <2>3. f[n] = g[n] /\ n + 1 # 1
    BY <1>1, <1>7, <2>2
  <2> QED BY <1>2, <1>4, <1>5, <2>1, <2>3, Zenon DEF r
<1> QED BY <1>6, <1>7

-----------------------------------------------------------------------------
(* The way of a message: sender, socket, process, bridge, shim, event loop, *)
(* receiver.                                                                *)

Frames(q) == [i \in DOMAIN q |-> Frame(q[i])]

MsgType ==
    /\ page \in {"unborn", "loading", "up", "zombie", "reaped"}
    /\ stage \in {"loading", "ready", "joined"}
    /\ mu \in Sender \cup {None}
    /\ sent \in Seq(Sender)
    /\ inbox \in Text /\ down \in Text /\ rest \in Text
    /\ got \in Seq(Text) /\ posted \in Seq(Text)
    /\ pending \in Seq(Text) /\ backlog \in Seq(Text)

\* Nobody sends before there is a process.
Born ==
    /\ host = "idle" => page = "unborn"
    /\ page = "unborn" => host \in {"idle", "failed"} /\ mu = None

\* Who is inside write() has something left to write, and messages are held
\* back only as long as the page is not ready or has no receiver.
HeldBack ==
    /\ mu = None <=> rest = <<>>
    /\ stage = "joined" => pending = <<>>
    /\ stage # "loading" => backlog = <<>>

Taken    == got \o posted
Messages == Taken \o pending \o backlog
Way      == FlattenSeq(Messages) \o inbox \o down \o rest
Whole    == page \notin {"zombie", "reaped"} => Way = FlattenSeq(Frames(sent))

MsgInv == MsgType /\ Born /\ HeldBack /\ Whole

LEMMA TextsAssociate ==
    \A a, b, c \in Seq(Text) : a \o (b \o c) = (a \o b) \o c
BY ConcatAssociative

\* What is handed to the receiver or posted for it are messages.
LEMMA TakenIs == MsgType => Taken \in Seq(Text)
BY ConcatProperties DEF MsgType, Taken

LEMMA FramesAre ==
    ASSUME NEW q \in Seq(Sender), NEW s \in Sender
    PROVE  /\ Frames(q) \in Seq(Text)
           /\ Frames(Append(q, s)) = Append(Frames(q), Frame(s))
           /\ Frame(s) \in Text /\ Frame(s) # <<>>
<1>1. \A t \in Sender : Frame(t) \in Text /\ Frame(t) # <<>>
  BY DEF Frame, Text, Piece
<1>2. Len(q) \in Nat /\ DOMAIN q = 1..Len(q) /\ \A i \in 1..Len(q) : q[i] \in Sender
  BY LenProperties, ElementOfSeq
<1> DEFINE r == Append(q, s)
<1>3. /\ r \in Seq(Sender) /\ Len(r) = Len(q) + 1 /\ DOMAIN r = 1..(Len(q) + 1)
      /\ \A i \in 1..Len(q) : r[i] = q[i]
      /\ r[Len(q) + 1] = s
  BY AppendProperties, LenProperties
<1> HIDE DEF r
<1>4. Frames(q) \in [1..Len(q) -> Text]
  BY <1>1, <1>2 DEF Frames
<1>5. Frames(q) \in Seq(Text) /\ Len(Frames(q)) = Len(q)
  BY <1>2, <1>4, SeqDef, LenProperties
<1>6. /\ Append(Frames(q), Frame(s)) \in Seq(Text)
      /\ Len(Append(Frames(q), Frame(s))) = Len(q) + 1
      /\ \A i \in 1..Len(q) : Append(Frames(q), Frame(s))[i] = Frame(q[i])
      /\ Append(Frames(q), Frame(s))[Len(q) + 1] = Frame(s)
  <2>1. \A i \in 1..Len(q) : Frames(q)[i] = Frame(q[i])
    BY <1>2 DEF Frames
  <2> QED BY <1>1, <1>5, <2>1, AppendProperties
<1>7. Frames(r) \in Seq(Text) /\ Len(Frames(r)) = Len(q) + 1
  <2>1. Frames(r) \in [1..(Len(q) + 1) -> Text]
    BY <1>1, <1>2, <1>3 DEF Frames
  <2> QED BY <1>2, <2>1, SeqDef, LenProperties
<1>8. \A i \in 1..(Len(q) + 1) : Frames(r)[i] = Append(Frames(q), Frame(s))[i]
  <2>1. \A i \in 1..(Len(q) + 1) : Frames(r)[i] = Frame(r[i])
    BY <1>3 DEF Frames
  <2>2. \A i \in 1..(Len(q) + 1) : i \in 1..Len(q) \/ i = Len(q) + 1
    BY <1>2
  <2> QED BY <1>3, <1>6, <2>1, <2>2, Zenon
<1>9. Frames(r) = Append(Frames(q), Frame(s))
  BY <1>6, <1>7, <1>8, SeqEqual
<1> QED BY <1>1, <1>5, <1>9 DEF r

LEMMA MsgInit == Init => MsgInv
<1> SUFFICES ASSUME Init PROVE MsgInv
  OBVIOUS
<1>1. <<>> \in Text /\ <<>> \in Seq(Text) /\ <<>> \o <<>> = <<>> /\ FlattenSeq(<<>>) = <<>>
  <2>1. Len(<<>>) = 0 /\ <<>> \in Seq(Text) /\ <<>> \in Text
    BY EmptySeq DEF Text
  <2> QED BY <2>1, ConcatEmptySeq, Zenon DEF FlattenSeq
<1>2. Frames(<<>>) = <<>>
  BY DEF Frames
<1>3. Whole
  BY <1>1, <1>2, Zenon DEF Init, Whole, Way, Messages, Taken
<1> QED BY <1>1, <1>3 DEF Init, MsgInv, MsgType, Born, HeldBack

\* A step that no message is part of.
LEMMA MsgSame ==
    ASSUME MsgInv, UNCHANGED <<mu, rest, sent, down, pageVars>>,
           page' \in {"unborn", "loading", "up", "zombie", "reaped"}, Born',
           page \in {"zombie", "reaped"} => page' \in {"zombie", "reaped"}
    PROVE  MsgInv'
BY DEF MsgInv, MsgType, HeldBack, Whole, Way, Messages, Taken, pageVars

\* What was received and read is one text.
LEMMA FrontText ==
    ASSUME MsgType
    PROVE  /\ Messages \in Seq(Text)
           /\ FlattenSeq(Messages) \in Text
           /\ FlattenSeq(Messages) \o inbox \in Text
           /\ FlattenSeq(Messages) \o inbox \o down \in Text
<1>1. Messages \in Seq(Text)
  BY ConcatProperties, TakenIs DEF MsgType, Messages
<1>2. FlattenSeq(Messages) \in Text
  BY <1>1, FlattenText
<1>3. FlattenSeq(Messages) \o inbox \in Text
  BY <1>2, ConcatProperties DEF MsgType, Text
<1>4. FlattenSeq(Messages) \o inbox \o down \in Text
  BY <1>3, ConcatProperties DEF MsgType, Text
<1> QED BY <1>1, <1>2, <1>3, <1>4

\* A message sets out.
LEMMA MsgBegins ==
    ASSUME MsgInv, NEW s \in Sender, SendBegins(s)
    PROVE  MsgInv'
<1>1. CASE closed \/ ~fd
  BY <1>1, MsgSame DEF SendBegins, MsgInv, MsgType, Born, viewVars, procVars, pageVars
<1>2. CASE ~(closed \/ ~fd)
  <2>1. /\ mu = None /\ mu' = s /\ rest' = Frame(s) /\ sent' = Append(sent, s)
        /\ host \in Owned \cup Stopping
        /\ UNCHANGED <<host, page, stage, down, inbox, got, posted, pending, backlog>>
    BY <1>2 DEF SendBegins, viewVars, procVars, pageVars
  <2>2. rest = <<>>
    BY <2>1 DEF MsgInv, HeldBack
  <2>3. /\ Frames(sent) \in Seq(Text) /\ Frame(s) \in Text /\ Frame(s) # <<>>
        /\ Frames(sent') = Append(Frames(sent), Frame(s))
    BY <2>1, FramesAre DEF MsgInv, MsgType
  <2>4. FlattenSeq(Frames(sent')) = FlattenSeq(Frames(sent)) \o Frame(s)
    BY <2>3, FlattenAppend
  <2>5. s # None
    BY NoneAssumption
  <2>6. MsgType' /\ HeldBack' /\ Born'
    <3>1. sent' \in Seq(Sender)
      BY <2>1, AppendProperties DEF MsgInv, MsgType
    <3> QED BY <2>1, <2>3, <2>5, <3>1 DEF MsgInv, MsgType, HeldBack, Born, Owned, Stopping
  <2>7. Whole'
    <3> DEFINE x == FlattenSeq(Messages) \o inbox \o down
    <3>1. x \in Text
      BY FrontText DEF MsgInv
    <3>2. x \o <<>> = x
      BY <3>1, ConcatEmptySeq DEF Text
    <3>3. Way = x
      BY <2>2, <3>2 DEF Way
    <3>4. Way' = x \o Frame(s)
      BY <2>1 DEF Way, Messages, Taken
    <3> HIDE DEF x
    <3> QED BY <2>1, <2>4, <3>3, <3>4 DEF MsgInv, Whole
  <2> QED BY <2>6, <2>7 DEF MsgInv
<1> QED BY <1>1, <1>2

\* A sequence that is not empty is its head and then its tail.
LEMMA HeadThenTail ==
    ASSUME NEW S, NEW r \in Seq(S), r # <<>>
    PROVE  r = <<Head(r)>> \o Tail(r)
<1>0. /\ Len(r) \in Nat /\ Len(r) # 0 /\ Head(r) \in S /\ Tail(r) \in Seq(S)
      /\ Len(Tail(r)) = Len(r) - 1
      /\ \A i \in 1..Len(Tail(r)) : Tail(r)[i] = r[i + 1]
  BY LenProperties, EmptySeq, HeadTailProperties
<1>1. <<Head(r)>> \in Seq(S) /\ Len(<<Head(r)>>) = 1 /\ <<Head(r)>>[1] = Head(r)
  BY <1>0
<1>2. /\ <<Head(r)>> \o Tail(r) \in Seq(S)
      /\ Len(<<Head(r)>> \o Tail(r)) = 1 + Len(Tail(r))
      /\ \A i \in 1..(1 + Len(Tail(r))) :
           (<<Head(r)>> \o Tail(r))[i] = IF i <= 1 THEN <<Head(r)>>[i] ELSE Tail(r)[i - 1]
  BY <1>0, <1>1, ConcatProperties
<1>3. Head(r) = r[1]
  OBVIOUS
<1>4. \A i \in 1..Len(r) : (<<Head(r)>> \o Tail(r))[i] = r[i]
  <2> SUFFICES ASSUME NEW i \in 1..Len(r) PROVE (<<Head(r)>> \o Tail(r))[i] = r[i]
    OBVIOUS
  <2>1. i \in 1..(1 + Len(Tail(r)))
    BY <1>0
  <2>2. CASE i = 1
    BY <1>1, <1>2, <1>3, <2>1, <2>2
  <2>3. CASE i # 1
    <3>1. i - 1 \in 1..Len(Tail(r)) /\ ~(i <= 1) /\ (i - 1) + 1 = i
      BY <1>0, <2>3
    <3> QED BY <1>0, <1>2, <2>1, <3>1
  <2> QED BY <2>2, <2>3
<1>5. Len(<<Head(r)>> \o Tail(r)) = Len(r)
  BY <1>0, <1>2
<1> QED BY <1>2, <1>4, <1>5, SeqEqual

\* A piece moves on from the front of one text to the end of another.
LEMMA MovesOn ==
    ASSUME NEW x \in Text, NEW r \in Text, r # <<>>
    PROVE  /\ Head(r) \in Piece /\ Tail(r) \in Text
           /\ x \o r = Append(x, Head(r)) \o Tail(r)
           /\ Len(r) = 1 <=> Tail(r) = <<>>
<1>1. Len(r) \in Nat /\ Len(r) # 0 /\ \A i \in 1..Len(r) : r[i] \in Piece
  BY LenProperties, EmptySeq, ElementOfSeq DEF Text
<1>2. /\ Head(r) \in Piece /\ Tail(r) \in Seq(Piece)
      /\ Len(Tail(r)) = Len(r) - 1
      /\ \A i \in 1..Len(Tail(r)) : Tail(r)[i] = r[i + 1]
  BY HeadTailProperties DEF Text
<1>3. Len(r) = 1 <=> Tail(r) = <<>>
  <2>1. Len(Tail(r)) = 0 <=> Tail(r) = <<>>
    BY <1>2, EmptySeq
  <2> QED BY <1>1, <1>2, <2>1
<1>4. r = <<Head(r)>> \o Tail(r)
  BY HeadThenTail DEF Text
<1>5. <<Head(r)>> \in Seq(Piece) /\ Append(x, Head(r)) = x \o <<Head(r)>>
  BY <1>2, AppendIsConcat DEF Text
<1>6. (x \o <<Head(r)>>) \o Tail(r) = x \o (<<Head(r)>> \o Tail(r))
  BY <1>2, <1>5, ConcatAssociative DEF Text
<1> QED BY <1>2, <1>3, <1>4, <1>5, <1>6, Zenon DEF Text

LEMMA MsgPiece ==
    ASSUME MsgInv, NEW s \in Sender, SendPiece(s)
    PROVE  MsgInv'
<1>1. /\ mu = s /\ s # None /\ down' = Append(down, Head(rest))
      /\ IF Len(rest) = 1 THEN mu' = None /\ rest' = <<>> ELSE mu' = mu /\ rest' = Tail(rest)
      /\ UNCHANGED <<host, page, sent, inbox, stage, backlog, pending, posted, got>>
  BY NoneAssumption DEF SendPiece, SendReturns, viewVars, procVars, pageVars
<1>2. MsgType /\ HeldBack /\ Born /\ Whole
  BY DEF MsgInv
<1>3. rest \in Text /\ down \in Text /\ rest # <<>>
  BY <1>1, <1>2 DEF MsgType, HeldBack
<1> DEFINE x == FlattenSeq(Messages) \o inbox
<1>4. x \in Text /\ x \o down \in Text
  BY <1>2, FrontText
<1> HIDE DEF x
<1>5. /\ Head(rest) \in Piece /\ Tail(rest) \in Text
      /\ (x \o down) \o rest = Append(x \o down, Head(rest)) \o Tail(rest)
      /\ Len(rest) = 1 <=> Tail(rest) = <<>>
  BY <1>3, <1>4, MovesOn
<1>6. rest' = Tail(rest) /\ down' \in Text /\ (mu' = None <=> rest' = <<>>)
      /\ mu' \in Sender \cup {None}
  <2>1. Append(down, Head(rest)) \in Text
    BY <1>3, <1>5, AppendProperties DEF Text
  <2> QED BY <1>1, <1>5, <2>1
<1>7. x \o down' = Append(x \o down, Head(rest))
  <2>1. <<Head(rest)>> \in Text
    BY <1>5 DEF Text
  <2>2. down' = down \o <<Head(rest)>> /\ Append(x \o down, Head(rest)) = (x \o down) \o <<Head(rest)>>
    BY <1>1, <1>3, <1>4, <1>5, AppendIsConcat DEF Text
  <2>3. (x \o down) \o <<Head(rest)>> = x \o (down \o <<Head(rest)>>)
    BY <1>3, <1>4, <2>1, ConcatAssociative DEF Text
  <2> QED BY <2>2, <2>3
<1>8. Way' = Way
  <2>1. Way = (x \o down) \o rest /\ Way' = (x \o down') \o rest'
    BY <1>1 DEF Way, Messages, Taken, x
  <2> QED BY <1>5, <1>6, <1>7, <2>1
<1>9. Whole'
  BY <1>1, <1>2, <1>8 DEF Whole
<1>10. MsgType' /\ HeldBack' /\ Born'
  BY <1>1, <1>2, <1>5, <1>6 DEF MsgType, HeldBack, Born
<1> QED BY <1>9, <1>10 DEF MsgInv

LEMMA MsgFails ==
    ASSUME MsgInv, NEW s \in Sender, SendFails(s)
    PROVE  MsgInv'
<1>1. /\ mu = s /\ s # None /\ mu' = None /\ rest' = <<>> /\ page \notin {"loading", "up"}
      /\ UNCHANGED <<host, page, sent, down, inbox, stage, backlog, pending, posted, got>>
  BY NoneAssumption DEF SendFails, SendReturns, Running, viewVars, procVars, pageVars
<1>2. page \in {"zombie", "reaped"}
  BY <1>1 DEF MsgInv, MsgType, Born
<1>3. <<>> \in Text
  BY DEF Text
<1> QED BY <1>1, <1>2, <1>3 DEF MsgInv, MsgType, HeldBack, Born, Whole

\* Whatever its progress, the page puts a line behind all it holds.
LEMMA LineJoins ==
    ASSUME MsgType, HeldBack, NEW t \in Text,
           backlog' = IF stage = "loading" THEN backlog \o <<t>> ELSE backlog,
           pending' = IF stage = "ready" THEN pending \o <<t>> ELSE pending,
           Taken' = IF stage = "joined" THEN Taken \o <<t>> ELSE Taken
    PROVE  /\ Taken' \in Seq(Text) /\ pending' \in Seq(Text) /\ backlog' \in Seq(Text)
           /\ stage = "joined" => pending' = <<>>
           /\ stage # "loading" => backlog' = <<>>
           /\ Messages' = Append(Messages, t)
<1>1. /\ Taken \in Seq(Text) /\ pending \in Seq(Text) /\ backlog \in Seq(Text)
      /\ <<t>> \in Seq(Text) /\ <<>> \in Seq(Text) /\ stage \in {"loading", "ready", "joined"}
  BY TakenIs DEF MsgType
<1>2. \A a, b \in Seq(Text) : a \o b \in Seq(Text) /\ a \o <<>> = a
  BY ConcatProperties, ConcatEmptySeq
<1>3. \A a \in Seq(Text) : a \o <<t>> = Append(a, t)
  BY AppendIsConcat
<1>4. CASE stage = "loading"
  <2>1. (Taken \o pending) \o (backlog \o <<t>>) = ((Taken \o pending) \o backlog) \o <<t>>
    BY <1>1, <1>2, ConcatAssociative
  <2>2. Taken \o pending \o backlog \in Seq(Text)
    BY <1>1, <1>2
  <2>3. /\ Taken' = Taken /\ pending' = pending /\ backlog' = backlog \o <<t>>
        /\ stage # "joined"
    BY <1>4
  <2>4. Messages' = Append(Messages, t)
    BY <1>3, <2>1, <2>2, <2>3, Zenon DEF Messages
  <2> QED BY <1>1, <1>2, <1>4, <2>3, <2>4
<1>5. CASE stage = "ready"
  <2>1. backlog = <<>>
    BY <1>5 DEF HeldBack
  <2>2. Taken \o (pending \o <<t>>) = (Taken \o pending) \o <<t>>
    BY <1>1, ConcatAssociative
  <2>3. Taken \o pending \in Seq(Text)
    BY <1>1, <1>2
  <2>4. Taken' = Taken /\ pending' = pending \o <<t>> /\ backlog' = <<>>
    BY <1>5, <2>1
  <2>5. Messages' = (Taken \o pending) \o <<t>>
    <3>1. Taken' \o pending' \in Seq(Text)
      BY <1>1, <1>2, <2>4
    <3> QED BY <1>2, <2>2, <2>4, <3>1 DEF Messages
  <2>6. Messages = Taken \o pending
    BY <1>2, <2>1, <2>3 DEF Messages
  <2> QED BY <1>1, <1>2, <1>3, <1>5, <2>3, <2>4, <2>5, <2>6
<1>6. CASE stage = "joined"
  <2>1. backlog = <<>> /\ pending = <<>>
    BY <1>6 DEF HeldBack
  <2>2. Taken' = Taken \o <<t>> /\ pending' = <<>> /\ backlog' = <<>> /\ Taken' \in Seq(Text)
    BY <1>1, <1>2, <1>6, <2>1
  <2>3. Messages' = Taken \o <<t>> /\ Messages = Taken
    <3>1. Taken' \o <<>> = Taken' /\ Taken \o <<>> = Taken
      BY <1>1, <1>2, <2>2
    <3> QED BY <2>1, <2>2, <3>1 DEF Messages
  <2> QED BY <1>1, <1>3, <1>6, <2>2, <2>3
<1> QED BY <1>1, <1>4, <1>5, <1>6

LEMMA MsgReads == ASSUME MsgInv, PageReads PROVE MsgInv'
<1> DEFINE h     == Head(down)
           text  == Append(inbox, h)
           whole == h[2] = 2
           line  == IF whole THEN <<text>> ELSE <<>>
<1>1. /\ down # <<>> /\ down' = Tail(down)
      /\ inbox' = IF whole THEN <<>> ELSE text
      /\ backlog' = IF stage = "loading" THEN backlog \o line ELSE backlog
      /\ pending' = IF stage = "ready" THEN pending \o line ELSE pending
      /\ posted' = IF stage = "joined" THEN posted \o line ELSE posted
      /\ UNCHANGED <<host, page, mu, rest, sent, stage, got>>
  BY DEF PageReads, viewVars, procVars, sendVars
<1>2. MsgType /\ HeldBack /\ Born /\ Whole
  BY DEF MsgInv
<1> DEFINE front == FlattenSeq(Messages)
           x     == front \o inbox
<1>3. Messages \in Seq(Text) /\ front \in Text /\ x \in Text /\ inbox \in Text /\ down \in Text
  BY <1>2, FrontText DEF MsgType
<1>4. /\ h \in Piece /\ Tail(down) \in Text
      /\ x \o down = Append(x, h) \o Tail(down)
  <2> HIDE DEF x
  <2> QED BY <1>1, <1>3, MovesOn
<1> HIDE DEF front, h, text
<1>5. text \in Text /\ front \o text = Append(x, h)
  <2>1. text \in Text /\ text = inbox \o <<h>> /\ <<h>> \in Text /\ Append(x, h) = x \o <<h>>
    <3> HIDE DEF x
    <3> QED BY <1>3, <1>4, AppendProperties, AppendIsConcat DEF Text, text
  <2>2. (front \o inbox) \o <<h>> = front \o (inbox \o <<h>>)
    BY <1>3, <2>1, ConcatAssociative DEF Text
  <2> QED BY <2>1, <2>2
<1>6. /\ inbox' \in Text
      /\ posted' \in Seq(Text) /\ pending' \in Seq(Text) /\ backlog' \in Seq(Text)
      /\ stage = "joined" => pending' = <<>>
      /\ stage # "loading" => backlog' = <<>>
      /\ FlattenSeq(Messages') \o inbox' = Append(x, h)
  <2>1. CASE whole
    <3>1. line = <<text>> /\ inbox' = <<>> /\ <<>> \in Text
      BY <1>1, <2>1 DEF Text
    <3>a. /\ posted' \in Seq(Text)
          /\ Taken' = IF stage = "joined" THEN Taken \o <<text>> ELSE Taken
      <4>1. got \in Seq(Text) /\ posted \in Seq(Text) /\ <<text>> \in Seq(Text)
        BY <1>2, <1>5 DEF MsgType
      <4>2. /\ posted \o <<text>> \in Seq(Text)
            /\ got \o (posted \o <<text>>) = (got \o posted) \o <<text>>
        BY <4>1, ConcatProperties, ConcatAssociative
      <4>3. posted' = IF stage = "joined" THEN posted \o <<text>> ELSE posted
        BY <1>1, <3>1
      <4> HIDE DEF line, whole
      <4> QED BY <1>1, <4>1, <4>2, <4>3 DEF Taken
    <3>2. /\ pending' \in Seq(Text) /\ backlog' \in Seq(Text)
          /\ stage = "joined" => pending' = <<>>
          /\ stage # "loading" => backlog' = <<>>
          /\ Messages' = Append(Messages, text)
      <4> HIDE DEF line
      <4> QED BY <1>1, <1>2, <1>5, <3>1, <3>a, LineJoins
    <3>3. FlattenSeq(Messages') = front \o text
      BY <1>3, <1>5, <3>2, FlattenAppend DEF front
    <3>4. (front \o text) \o <<>> = front \o text
      <4>1. front \o text \in Text
        BY <1>3, <1>5, ConcatProperties DEF Text
      <4> QED BY <4>1, ConcatEmptySeq DEF Text
    <3> QED BY <1>5, <3>1, <3>a, <3>2, <3>3, <3>4, Zenon
  <2>2. CASE ~whole
    <3>1. line = <<>> /\ inbox' = text
      BY <1>1, <2>2
    <3>2. posted' = posted /\ pending' = pending /\ backlog' = backlog
      <4>1. \A q \in Seq(Text) : q \o <<>> = q
        BY ConcatEmptySeq
      <4> HIDE DEF line
      <4> QED BY <1>1, <1>2, <3>1, <4>1 DEF MsgType
    <3>3. FlattenSeq(Messages') = front
      BY <1>1, <3>2 DEF Messages, Taken, front
    <3> QED BY <1>2, <1>5, <3>1, <3>2, <3>3 DEF MsgType, HeldBack
  <2> QED BY <2>1, <2>2
<1>7. Way' = Way
  <2>1. Way = (x \o down) \o rest
    BY DEF Way, front
  <2>2. Way' = ((FlattenSeq(Messages') \o inbox') \o Tail(down)) \o rest
    BY <1>1 DEF Way
  <2> HIDE DEF x
  <2> QED BY <1>4, <1>6, <2>1, <2>2
<1>8. Whole'
  BY <1>1, <1>2, <1>7 DEF Whole
<1>9. MsgType' /\ HeldBack' /\ Born'
  <2> HIDE DEF x, line, whole
  <2> QED BY <1>1, <1>2, <1>4, <1>6 DEF MsgType, HeldBack, Born
<1> QED BY <1>8, <1>9 DEF MsgInv

\* Messages go from the bridge to the shim, and from the shim to the event loop,
\* in one go; from there to the receiver one by one.
LEMMA MsgHandedOn ==
    ASSUME MsgInv, Ready \/ HandOver \/ \E on \in BOOLEAN : Receive(on)
    PROVE  MsgInv'
<1>1. MsgType /\ HeldBack /\ Born /\ Whole
  BY DEF MsgInv
<1>2. /\ got \in Seq(Text) /\ posted \in Seq(Text) /\ Taken \in Seq(Text)
      /\ pending \in Seq(Text) /\ backlog \in Seq(Text) /\ <<>> \in Seq(Text)
  BY <1>1, TakenIs DEF MsgType
<1>3. \A a, b \in Seq(Text) : a \o b \in Seq(Text) /\ a \o <<>> = a
  BY ConcatProperties, ConcatEmptySeq
<1>4. UNCHANGED <<host, page, mu, rest, sent, down, inbox>>
  BY DEF Ready, Receive, HandOver, viewVars, procVars, sendVars
<1>5. /\ got' \in Seq(Text) /\ posted' \in Seq(Text) /\ pending' \in Seq(Text) /\ backlog' \in Seq(Text)
      /\ stage' \in {"loading", "ready", "joined"}
      /\ stage' = "joined" => pending' = <<>>
      /\ stage' # "loading" => backlog' = <<>>
      /\ Messages' = Messages
  <2>1. CASE Ready
    <3>1. /\ stage' = "ready" /\ got' = got /\ posted' = posted /\ Taken' = Taken
          /\ pending' = pending \o backlog /\ backlog' = <<>>
      BY <2>1 DEF Ready, Taken
    <3>a. Taken \o (pending \o backlog) = (Taken \o pending) \o backlog
      BY <1>2, ConcatAssociative
    <3>b. Taken \o (pending \o backlog) \in Seq(Text)
      BY <1>2, <1>3
    <3>2. (Taken \o (pending \o backlog)) \o <<>> = (Taken \o pending) \o backlog
      BY <1>3, <3>a, <3>b
    <3> QED BY <1>2, <1>3, <3>1, <3>2 DEF Messages
  <2>2. CASE Receive(TRUE)
    <3>1. /\ stage = "ready" /\ stage' = "joined" /\ got' = got
          /\ posted' = posted \o pending /\ pending' = <<>> /\ backlog' = backlog
      BY <2>2 DEF Receive
    <3>c. got \o (posted \o pending) = (got \o posted) \o pending
      BY <1>2, TextsAssociate, Zenon
    <3>2. posted \o pending \in Seq(Text) /\ got \o (posted \o pending) = Taken \o pending
      BY <1>2, <1>3, <3>c DEF Taken
    <3>b. Taken \o pending \in Seq(Text) /\ (Taken \o pending) \o <<>> = Taken \o pending
      BY <1>2, <1>3
    <3>a. Taken' = Taken \o pending
      BY <3>1, <3>2 DEF Taken
    <3>3. Messages' = Messages
      BY <3>1, <3>a, <3>b DEF Messages
    <3> QED BY <1>1, <1>2, <3>1, <3>2, <3>3 DEF HeldBack
  <2>3. CASE Receive(FALSE)
    <3>1. /\ stage = "joined" /\ stage' = "ready" /\ got' = got /\ posted' = posted
          /\ pending' = pending /\ backlog' = backlog
      BY <2>3 DEF Receive
    <3> QED BY <1>1, <1>2, <3>1 DEF HeldBack, Messages, Taken
  <2>4. CASE HandOver
    <3>1. /\ posted # <<>> /\ got' = Append(got, Head(posted)) /\ posted' = Tail(posted)
          /\ UNCHANGED <<stage, pending, backlog>>
      BY <2>4 DEF HandOver
    <3>2. /\ got' \in Seq(Text) /\ posted' \in Seq(Text)
          /\ Taken' = Taken
      <4> DEFINE h == Head(posted)
                 t == Tail(posted)
      <4>1. h \in Text /\ t \in Seq(Text) /\ posted = <<h>> \o t
        BY <1>2, <3>1, HeadTailProperties, HeadThenTail
      <4> HIDE DEF h, t
      <4>2. /\ Append(got, h) \in Seq(Text) /\ <<h>> \in Seq(Text)
            /\ Append(got, h) = got \o <<h>>
        BY <1>2, <4>1, AppendProperties, AppendIsConcat
      <4>3. got \o (<<h>> \o t) = (got \o <<h>>) \o t
        <5> DEFINE one == <<h>>
        <5>1. one \in Seq(Text) /\ t \in Seq(Text) /\ got \in Seq(Text)
          BY <1>2, <4>1, <4>2
        <5> HIDE DEF one
        <5>2. got \o (one \o t) = (got \o one) \o t
          BY <5>1, TextsAssociate, Zenon
        <5> QED BY <5>2 DEF one
      <4>4. got' = Append(got, h) /\ posted' = t
        BY <3>1 DEF h, t
      <4> QED BY <4>1, <4>2, <4>3, <4>4 DEF Taken
    <3> QED BY <1>1, <1>2, <3>1, <3>2 DEF HeldBack, Messages, MsgType
  <2> QED BY <2>1, <2>2, <2>3, <2>4
<1>6. Way' = Way
  BY <1>4, <1>5 DEF Way
<1>7. Whole'
  BY <1>1, <1>4, <1>6 DEF Whole
<1>8. MsgType' /\ HeldBack' /\ Born'
  BY <1>1, <1>4, <1>5 DEF MsgType, HeldBack, Born
<1> QED BY <1>7, <1>8 DEF MsgInv

LEMMA MsgStep == MsgInv /\ [Next]_vars => MsgInv'
<1> SUFFICES ASSUME MsgInv, [Next]_vars PROVE MsgInv'
  OBVIOUS
<1> DEFINE pages == {"unborn", "loading", "up", "zombie", "reaped"}
<1>1. page \in pages /\ Born
  BY DEF MsgInv, MsgType
<1> USE DEF viewVars, procVars, sockVars, sendVars, pumpVars, recvVars
<1>2. CASE Spawn \/ GiveUp \/ Accept \/ SetOnDied
  <2>1. /\ UNCHANGED <<mu, rest, sent, down, pageVars>> /\ page' \in pages /\ Born'
        /\ page \in {"zombie", "reaped"} => page' \in {"zombie", "reaped"}
    BY <1>1, <1>2 DEF Spawn, GiveUp, Accept, SetOnDied, Goto, Born
  <2> QED BY <2>1, MsgSame
<1>3. CASE Teardown \/ (\E by \in {"container", "pump"} : BeginStop(by))
  <2>1. /\ UNCHANGED <<mu, rest, sent, down, pageVars>> /\ page' \in pages /\ Born'
        /\ page \in {"zombie", "reaped"} => page' \in {"zombie", "reaped"}
    BY <1>1, <1>3 DEF Teardown, Reap, Shut, Join, BeginStop, Goto, Born
  <2> QED BY <2>1, MsgSame
<1>4. CASE SelfClose \/ (\E on \in BOOLEAN : SetReceiver(on)) \/ UNCHANGED vars
  <2>1. UNCHANGED <<mu, rest, sent, down, pageVars, host, page>>
    BY <1>4 DEF SelfClose, SetReceiver, vars
  <2> QED BY <1>1, <2>1, MsgSame DEF Born
<1>5. CASE PumpRuns
  <2>1. UNCHANGED <<mu, rest, sent, down, pageVars, host, page>>
    BY <1>5 DEF PumpRuns, PumpChecks, PumpReads, Deliver, Delivered, AllDelivered, SelfDetach,
         PumpEnds, Announce, CallbackReturns
  <2> QED BY <1>1, <2>1, MsgSame DEF Born
<1>6. CASE Page
  <2>1. CASE Dial \/ Dies \/ PageSays
    <3>1. /\ UNCHANGED <<mu, rest, sent, down, pageVars>> /\ page' \in pages /\ Born'
          /\ page \in {"zombie", "reaped"} => page' \in {"zombie", "reaped"}
      BY <1>1, <2>1 DEF Dial, Dies, PageSays, Running, Born
    <3> QED BY <3>1, MsgSame
  <2> QED BY <1>6, <2>1, MsgReads, MsgHandedOn DEF Page
<1>7. ASSUME NEW s \in Sender, SendBegins(s) \/ SendPiece(s) \/ SendFails(s) PROVE MsgInv'
  BY <1>7, MsgBegins, MsgPiece, MsgFails
<1> QED BY <1>2, <1>3, <1>4, <1>5, <1>6, <1>7 DEF Next, SpawnView

\* While the socket holds, what the page's receiver got and what is on its way
\* are the messages sent, whole and in order.
THEOREM MessagesAreKept == Spec => []MessagesKept
<1>1. MsgInv => MessagesKept
  BY DEF MsgInv, Whole, Way, Messages, Taken, Frames, MessagesKept, Connected
<1> QED BY <1>1, MsgInit, MsgStep, PTL DEF Spec
=============================================================================
