-------------------------- MODULE TokenStore_proofs --------------------------
(***************************************************************************)
(* Theorems about TokenStore for any number of concurrent calls, any       *)
(* names and any faults; and about calls that run one after another.       *)
(***************************************************************************)
EXTENDS TokenStore, TLAPS

\* What a reader gets from a file is a set of entries, whatever is in it.
LEMMA ParsedType == ASSUME NEW c \in Content PROVE Parsed(c) \subseteq Entry
BY DEF Parsed, Content

LEMMA ValidType == TypeOK => Valid \subseteq Entry
<1> SUFFICES ASSUME TypeOK PROVE Valid \subseteq Entry
  OBVIOUS
<1>1. OnDisk \in Content
  BY DEF OnDisk, TypeOK, Content, Unread
<1> QED BY <1>1, ParsedType DEF Valid

\* The outcome of a write is readable as the list written, or not at all.
LEMMA OverwrittenType ==
    ASSUME NEW old, NEW new \in SUBSET Entry, NEW c \in Overwritten(old, new)
    PROVE  c = Garbled \/ c = new
BY DEF Overwritten

-----------------------------------------------------------------------------
\* One step of one call keeps every type.
LEMMA TypeStep == TypeOK /\ [Next]_vars => TypeOK'
<1> SUFFICES ASSUME TypeOK, [Next]_vars PROVE TypeOK'
  OBVIOUS
<1> USE DEF Goto, Ended, Files
<1>1. ASSUME NEW p \in Op, Begin(p) \/ CheckVersion(p) PROVE TypeOK'
  BY <1>1 DEF Begin, CheckVersion, TypeOK
<1>2. ASSUME NEW p \in Op, LoadToIssue(p) PROVE TypeOK'
  <2>1. job[p] \in Job
    BY <1>2 DEF LoadToIssue, TypeOK
  <2>2. [name |-> job[p].name, tok |-> p] \in Entry
    BY <2>1 DEF Job, Entry
  <2>3. view' \in [Op -> SUBSET Entry]
    <3>1. CASE UNCHANGED view
      BY <3>1 DEF TypeOK
    <3>2. CASE view' = [view EXCEPT ![p] = WithToken(p, Valid)]
      BY <2>2, <3>2, ValidType DEF TypeOK, WithToken
    <3>3. ASSUME NEW e \in Matching(p), view' = [view EXCEPT ![p] = WithToken(p, Valid \ {e})]
          PROVE  view' \in [Op -> SUBSET Entry]
      BY <2>2, <3>3, ValidType DEF TypeOK, WithToken
    <3> QED BY <1>2, <3>1, <3>2, <3>3 DEF LoadToIssue
  <2>4. dropped' \in [Op -> SUBSET Op]
    <3>1. \A e \in Matching(p) : e.tok \in Op
      BY ValidType DEF Matching, Entry
    <3>2. CASE UNCHANGED dropped
      BY <3>2 DEF TypeOK
    <3>3. ASSUME NEW e \in Matching(p), dropped' = [dropped EXCEPT ![p] = {e.tok}]
          PROVE  dropped' \in [Op -> SUBSET Op]
      BY <3>1, <3>3 DEF TypeOK
    <3> QED BY <1>2, <3>2, <3>3 DEF LoadToIssue
  <2>5. pc' \in [Op -> {"idle", "check", "load", "stage", "open", "write", "publish",
                        "promote", "unlink"} \cup Ended]
    BY <1>2 DEF LoadToIssue, TypeOK
  <2>6. /\ \A q \in Op : pc'[q] # "idle" => job'[q] \in Job
        /\ \A q \in Op : pc'[q] \in {"write", "publish"} => fd'[q] \in Op
    BY <1>2 DEF LoadToIssue, TypeOK
  <2> QED BY <1>2, <2>3, <2>4, <2>5, <2>6 DEF LoadToIssue, TypeOK
<1>3. ASSUME NEW p \in Op, LoadToRevoke(p) PROVE TypeOK'
  <2>1. view' \in [Op -> SUBSET Entry] /\ dropped' \in [Op -> SUBSET Op]
    BY <1>3, ValidType DEF LoadToRevoke, TypeOK, Matching, Entry
  <2> QED BY <1>3, <2>1 DEF LoadToRevoke, TypeOK
<1>4. ASSUME NEW p \in Op, StageRaw(p) \/ FailStage(p) PROVE TypeOK'
  <2>1. rawNew' \in [Name -> Op \cup {None}]
    BY <1>4 DEF StageRaw, FailStage, TypeOK
  <2> QED BY <1>4, <2>1 DEF StageRaw, FailStage, TypeOK
<1>5. ASSUME NEW p \in Op, OpenTmp(p) PROVE TypeOK'
  BY <1>5 DEF OpenTmp, TypeOK, Content, Unread, Inode
<1>6. ASSUME NEW p \in Op, WriteTmp(p) PROVE TypeOK'
  <2>1. data' \in [Inode -> Content]
    <3>1. PICK c \in Overwritten(data[fd[p]], view[p]) : data' = [data EXCEPT ![fd[p]] = c]
      BY <1>6 DEF WriteTmp
    <3>2. c \in Content
      BY <3>1, OverwrittenType DEF TypeOK, Content, Unread
    <3> QED BY <3>1, <3>2 DEF TypeOK
  <2> QED BY <1>6, <2>1 DEF WriteTmp, TypeOK
<1>7. ASSUME NEW p \in Op, PublishTokens(p) PROVE TypeOK'
  BY <1>7 DEF PublishTokens, TypeOK, Inode
<1>8. ASSUME NEW p \in Op, FailWrite(p) PROVE TypeOK'
  <2>1. data' \in [Inode -> Content]
    BY <1>8 DEF FailWrite, TypeOK, Content, Unread, Inode
  <2>2. rawNew' \in [Name -> Op \cup {None}]
    BY <1>8 DEF FailWrite, DropSideFile, TypeOK
  <2> QED BY <1>8, <2>1, <2>2 DEF FailWrite, TypeOK
<1>9. ASSUME NEW p \in Op, PromoteRaw(p) \/ UnlinkRaw(p) PROVE TypeOK'
  <2>1. raw' \in [Name -> Op \cup {None}] /\ rawNew' \in [Name -> Op \cup {None}]
    BY <1>9 DEF PromoteRaw, UnlinkRaw, TypeOK, Job
  <2> QED BY <1>9, <2>1 DEF PromoteRaw, UnlinkRaw, TypeOK
<1>10. ASSUME NEW p \in Op, Crash(p) PROVE TypeOK'
  BY <1>10 DEF Crash, Active, TypeOK
<1>11. CASE UNCHANGED vars
  BY <1>11 DEF vars, TypeOK
<1> QED BY <1>1, <1>2, <1>3, <1>4, <1>5, <1>6, <1>7, <1>8, <1>9, <1>10, <1>11
        DEF Next, Step

LEMMA TypeInit == Init => TypeOK
BY DEF Init, TypeOK, Content, Unread, Inode, Ended

\* Every variable keeps its type, whatever calls run at the same time.
THEOREM TypeCorrect == Spec => []TypeOK
BY TypeInit, TypeStep, PTL DEF Spec

-----------------------------------------------------------------------------
\* What readers get has unique names.
LEMMA ValidUnique == TypeOK /\ ListsUnique => UniqueNames(Valid)
BY DEF TypeOK, ListsUnique, Valid, OnDisk, Parsed, Unread, UniqueNames

LEMMA ListsInit == Init => ListsUnique
BY DEF Init, ListsUnique, UniqueNames, Parsed, Unread

\* One step of one call keeps the names of every list unique.
LEMMA ListsStep == TypeOK /\ ListsUnique /\ [Next]_vars => ListsUnique'
<1> SUFFICES ASSUME TypeOK, ListsUnique, [Next]_vars PROVE ListsUnique'
  OBVIOUS
<1> USE DEF Goto, Files
<1>1. ASSUME NEW p \in Op, LoadToIssue(p) PROVE ListsUnique'
  <2>1. UNCHANGED data /\ \A q \in Op : q # p => view'[q] = view[q]
    BY <1>1 DEF LoadToIssue, TypeOK
  <2>2. UniqueNames(view'[p])
    <3>1. CASE UNCHANGED view
      BY <3>1 DEF ListsUnique
    <3>2. CASE Matching(p) = {} /\ view' = [view EXCEPT ![p] = WithToken(p, Valid)]
      BY <3>2, ValidUnique DEF TypeOK, Matching, WithToken, UniqueNames
    <3>3. ASSUME NEW e \in Matching(p),
                 view' = [view EXCEPT ![p] = WithToken(p, Valid \ {e})]
          PROVE  UniqueNames(view'[p])
      BY <3>3, ValidUnique DEF TypeOK, Matching, WithToken, UniqueNames
    <3> QED BY <1>1, <3>1, <3>2, <3>3 DEF LoadToIssue
  <2> QED BY <2>1, <2>2 DEF ListsUnique
<1>2. ASSUME NEW p \in Op, LoadToRevoke(p) PROVE ListsUnique'
  <2>1. UNCHANGED data /\ \A q \in Op : q # p => view'[q] = view[q]
    BY <1>2 DEF LoadToRevoke, TypeOK
  <2>2. UniqueNames(view'[p])
    BY <1>2, ValidUnique DEF LoadToRevoke, TypeOK, UniqueNames
  <2> QED BY <2>1, <2>2 DEF ListsUnique
<1>3. ASSUME NEW p \in Op, OpenTmp(p) PROVE ListsUnique'
  <2>1. PICK i \in Inode : data' = [data EXCEPT ![i] = Blank]
    BY <1>3 DEF OpenTmp, TypeOK, Inode
  <2> QED BY <1>3, <2>1 DEF OpenTmp, TypeOK, ListsUnique, UniqueNames, Parsed, Unread
<1>4. ASSUME NEW p \in Op, WriteTmp(p) PROVE ListsUnique'
  <2>1. PICK c \in Overwritten(data[fd[p]], view[p]) : data' = [data EXCEPT ![fd[p]] = c]
    BY <1>4 DEF WriteTmp
  <2>2. UniqueNames(Parsed(c))
    BY <2>1, OverwrittenType DEF TypeOK, ListsUnique, UniqueNames, Parsed, Unread
  <2> QED BY <1>4, <2>1, <2>2 DEF WriteTmp, TypeOK, ListsUnique
<1>5. ASSUME NEW p \in Op, FailWrite(p) PROVE ListsUnique'
  <2>1. \A i \in Inode : data'[i] = data[i] \/ data'[i] = Garbled
    BY <1>5 DEF FailWrite, TypeOK
  <2> QED BY <1>5, <2>1 DEF FailWrite, ListsUnique, UniqueNames, Parsed, Unread
<1>6. ASSUME UNCHANGED <<view, data>> PROVE ListsUnique'
  BY <1>6 DEF ListsUnique
<1> QED BY <1>1, <1>2, <1>3, <1>4, <1>5, <1>6
        DEF Next, Step, Begin, CheckVersion, StageRaw, FailStage, PublishTokens,
            PromoteRaw, UnlinkRaw, Crash, vars

\* However many writers interleave and whatever fails, no name is ever accepted
\* with two tokens.
THEOREM OneTokenPerName == Spec => []NamesUnique
<1> DEFINE Inv == TypeOK /\ ListsUnique
<1>1. Init => Inv
  BY TypeInit, ListsInit
<1>2. Inv /\ [Next]_vars => Inv'
  BY TypeStep, ListsStep
<1>3. Inv => NamesUnique
  BY ValidUnique DEF NamesUnique, UniqueNames
<1> QED BY <1>1, <1>2, <1>3, PTL DEF Spec

-----------------------------------------------------------------------------
\* While a tokens.json of another version is in place every call stops at its
\* version check, so no interleaving of calls rewrites or replaces that file.
THEOREM ForeignVersionKept == Spec => UnsupportedKept
<1> DEFINE Inv == TypeOK /\ StoppedAtCheck
<1>1. Init => Inv
  BY TypeInit DEF Init, StoppedAtCheck, Inode
<1>2. ASSUME Inv, [Next]_vars, tokens = None
      PROVE  tokens' = None /\ data'[None] = data[None] /\ StoppedAtCheck'
  <2>1. data[None] = Unsupported
        /\ \A p \in Op : pc[p] \in {"idle", "check", "ioerror", "crashed"}
    BY <1>2 DEF StoppedAtCheck
  <2> USE DEF Goto, Files
  <2>2. ASSUME NEW p \in Op, Begin(p) \/ CheckVersion(p) \/ Crash(p)
        PROVE  /\ tokens' = tokens /\ data' = data
               /\ \A q \in Op : pc'[q] \in {"idle", "check", "ioerror", "crashed"}
    BY <1>2, <2>1, <2>2, NoneAssumption DEF Begin, CheckVersion, Crash, OnDisk, TypeOK
  <2>3. ASSUME NEW p \in Op, Step(p) PROVE CheckVersion(p) \/ Crash(p)
    BY <2>1, <2>3 DEF Step, LoadToIssue, LoadToRevoke, StageRaw, FailStage, OpenTmp,
                      WriteTmp, PublishTokens, FailWrite, PromoteRaw, UnlinkRaw
  <2>4. CASE UNCHANGED vars
    BY <1>2, <2>4 DEF vars, StoppedAtCheck
  <2> QED BY <1>2, <2>1, <2>2, <2>3, <2>4 DEF Next, StoppedAtCheck
<1>3. ASSUME Inv, [Next]_vars, tokens # None PROVE tokens' # None
  BY <1>3, NoneAssumption DEF TypeOK, Next, Step, Begin, CheckVersion, LoadToIssue,
       LoadToRevoke, StageRaw, FailStage, OpenTmp, WriteTmp, PublishTokens, FailWrite,
       PromoteRaw, UnlinkRaw, Crash, vars, Files
<1>4. Inv /\ [Next]_vars => Inv'
  BY <1>2, <1>3, TypeStep DEF StoppedAtCheck
<1>5. Inv /\ [Next]_vars =>
        [tokens = None => tokens' = None /\ data'[None] = data[None]]_vars
  BY <1>2
<1> QED BY <1>1, <1>4, <1>5, PTL DEF Spec, UnsupportedKept

-----------------------------------------------------------------------------
(* Commands that run one after another, with I/O errors and crashes        *)
(* anywhere: the store is a map changed by one step per command.           *)


Unopened == {"idle", "check", "load", "stage", "open"}
Settled  == {"promote", "ok", "crashed"}    \* where an issued token's call is
Others(p) == Valid \ Matching(p)
Mine(p)   == [name |-> job[p].name, tok |-> p]

OneActive == \A p, q \in Op : Active(p) /\ Active(q) => p = q

\* The temporary is never the file readers see, and an inode is new when its
\* call opens it.
FilesApart ==
    /\ tmp # "absent" => tmp # tokens
    /\ \A p \in Op : pc[p] \in Unopened => p # tmp /\ p # tokens
    /\ NeverTorn

\* A token that is accepted was issued for its name, by a call that published.
ValidIssued ==
    \A e \in Valid : /\ pc[e.tok] \in Settled
                     /\ job[e.tok].name = e.name /\ job[e.tok].kind # "revoke"

\* What the call under way has read and written is what it is about to make of
\* the list in place.
Prepared(p) ==
    /\ pc[p] \in {"write", "publish"} => tmp = fd[p]
    /\ pc[p] = "write" => data[fd[p]] = Blank
    /\ pc[p] = "publish" => data[fd[p]] = view[p]
    /\ pc[p] \in {"stage", "open", "write", "publish"} =>
         /\ dropped[p] \subseteq {e.tok : e \in Matching(p)}
         /\ job[p].kind = "issue" => Matching(p) = {}
         /\ IF job[p].kind = "revoke"
            THEN view[p] = Others(p) /\ Matching(p) # {} /\ pc[p] # "stage"
            ELSE view[p] = Others(p) \cup {Mine(p)}
    /\ pc[p] \in {"promote", "unlink"} => job[p].kind = "revoke" <=> pc[p] = "unlink"
    /\ pc[p] = "unlink" => Matching(p) = {}
    /\ pc[p] = "promote" => Mine(p) \in Valid

\* A token that was dropped had been published, and is not accepted any more.
DropsFinal(p) ==
    /\ pc[p] \in {"idle", "check", "load"} => dropped[p] = {}
    /\ \A t \in dropped[p] : pc[t] \in Settled
    /\ pc[p] \in {"promote", "unlink", "ok"} => \A t \in dropped[p] : ~Accepted(t)

\* The raw token is beside the list before the list is published.
RawStaged(p) ==
    pc[p] \in {"open", "write", "publish", "promote"} /\ job[p].kind # "revoke" =>
        rawNew[job[p].name] = p

\* Every accepted token has its raw text in place, but for the one whose call
\* is about to promote it.
RawKept ==
    "promote" \notin Faults /\ (\A p \in Op : pc[p] # "crashed") =>
        \A e \in Valid : \/ raw[e.name] = e.tok
                         \/ rawNew[e.name] = e.tok /\ pc[e.tok] = "promote"

AloneInv ==
    /\ TypeOK /\ ListsUnique /\ OneActive /\ FilesApart /\ ValidIssued /\ RawKept
    /\ \A p \in Op : Prepared(p) /\ DropsFinal(p) /\ RawStaged(p)

-----------------------------------------------------------------------------
\* What readers get is settled by the name tokens.json and the inode behind it.
LEMMA SameFile ==
    ASSUME TypeOK, tokens' = tokens, tokens # "absent" => data'[tokens] = data[tokens]
    PROVE  Valid' = Valid /\ (NeverTorn => NeverTorn')
BY DEF Valid, OnDisk, NeverTorn

LEMMA ListsReadable ==
    /\ \A list \in SUBSET Entry : Parsed(list) = list
    /\ \A u \in Unread : Parsed(u) = {}
BY UnreadAssumption DEF Parsed

LEMMA AloneInit == Init => AloneInv
<1> SUFFICES ASSUME Init PROVE AloneInv
  OBVIOUS
<1>1. TypeOK /\ ListsUnique
  BY TypeInit, ListsInit
<1>2. Valid = {} /\ NeverTorn
  <2>1. OnDisk \in {Blank, Unsupported} /\ (tokens # "absent" => OnDisk = Unsupported)
    BY DEF Init, OnDisk, Inode
  <2> QED
    BY <2>1, ListsReadable, UnreadAssumption DEF Valid, NeverTorn, Unread
<1>3. OneActive /\ FilesApart /\ ValidIssued /\ RawKept
  BY <1>2, NoneAssumption DEF Init, OneActive, Active, FilesApart, ValidIssued, RawKept
<1>4. \A p \in Op : Prepared(p) /\ DropsFinal(p) /\ RawStaged(p)
  BY DEF Init, Prepared, DropsFinal, RawStaged
<1> QED
  BY <1>1, <1>3, <1>4 DEF AloneInv

\* A call's own step leaves the other calls' locals alone.
LEMMA StepFrame ==
    ASSUME TypeOK, NEW p \in Op, Begin(p) \/ Step(p)
    PROVE  \A q \in Op \ {p} : /\ pc'[q] = pc[q] /\ job'[q] = job[q] /\ view'[q] = view[q]
                               /\ dropped'[q] = dropped[q] /\ fd'[q] = fd[q]
BY DEF TypeOK, Begin, Step, CheckVersion, LoadToIssue, LoadToRevoke, StageRaw, FailStage,
       OpenTmp, WriteTmp, PublishTokens, FailWrite, PromoteRaw, UnlinkRaw, Crash, Goto, Files

LEMMA StepOfActive == ASSUME NEW p \in Op, Step(p) PROVE Active(p)
<1> USE DEF Active, Ended, Goto
<1>1. CASE CheckVersion(p) \/ LoadToIssue(p) \/ LoadToRevoke(p) \/ StageRaw(p) \/ FailStage(p)
  BY <1>1 DEF CheckVersion, LoadToIssue, LoadToRevoke, StageRaw, FailStage
<1>2. CASE OpenTmp(p) \/ WriteTmp(p) \/ PublishTokens(p) \/ FailWrite(p)
  BY <1>2 DEF OpenTmp, WriteTmp, PublishTokens, FailWrite
<1>3. CASE PromoteRaw(p) \/ UnlinkRaw(p) \/ Crash(p)
  BY <1>3 DEF PromoteRaw, UnlinkRaw, Crash
<1> QED
  BY <1>1, <1>2, <1>3 DEF Step

\* What has to be shown of a step of the one call that is under way.
LEMMA OnlyItsOwn ==
    ASSUME AloneInv, NEW p \in Op, Begin(p) \/ Step(p),
           \A q \in Op \ {p} : ~Active(q),
           FilesApart', ValidIssued', RawKept', Prepared(p)', DropsFinal(p)', RawStaged(p)',
           pc[p] \in Settled => pc'[p] \in Settled,
           \A e \in Valid' : e \in Valid \/ pc[e.tok] \notin Settled
    PROVE  AloneInv'
<1>1. TypeOK' /\ ListsUnique'
  <2>1. [Next]_vars
    BY DEF Next
  <2> QED
    BY <2>1, TypeStep, ListsStep DEF AloneInv
<1>2. \A q \in Op \ {p} : /\ pc'[q] = pc[q] /\ job'[q] = job[q] /\ view'[q] = view[q]
                           /\ dropped'[q] = dropped[q] /\ fd'[q] = fd[q]
  BY StepFrame DEF AloneInv
<1>3. \A q \in Op \ {p} : pc[q] \in {"idle"} \cup Ended
  BY DEF Active
<1>4. OneActive'
  BY <1>2, <1>3 DEF OneActive, Active
<1>5. \A t \in Op : pc[t] \in Settled => pc'[t] \in Settled
  BY <1>2
<1>6. ASSUME NEW q \in Op \ {p} PROVE Prepared(q)' /\ DropsFinal(q)' /\ RawStaged(q)'
  <2>1. Prepared(q)' /\ RawStaged(q)'
    BY <1>2, <1>3 DEF Prepared, RawStaged, Ended
  <2>2. DropsFinal(q) /\ dropped[q] \subseteq Op
    BY DEF AloneInv, TypeOK
  <2>3. DropsFinal(q)'
    BY <1>2, <1>5, <2>2 DEF DropsFinal, Accepted
  <2> QED
    BY <2>1, <2>3
<1> QED
  BY <1>1, <1>4, <1>6 DEF AloneInv

-----------------------------------------------------------------------------
\* One step of one call that runs alone keeps all of it.
LEMMA AloneStep == AloneInv /\ [AloneNext]_vars => AloneInv'
<1> SUFFICES ASSUME AloneInv, AloneNext PROVE AloneInv'
  BY DEF AloneInv, vars, TypeOK, ListsUnique, OneActive, FilesApart, ValidIssued, RawKept,
         Prepared, DropsFinal, RawStaged, Active, Valid, OnDisk, NeverTorn, Matching, Others,
         Mine, Accepted
<1>1. PICK p \in Op : /\ Begin(p) \/ Step(p)
                      /\ \A q \in Op \ {p} : ~Active(q)
  BY StepOfActive DEF AloneNext, AloneInv, OneActive
<1>2. /\ TypeOK /\ ListsUnique /\ FilesApart /\ ValidIssued /\ RawKept
      /\ Prepared(p) /\ DropsFinal(p) /\ RawStaged(p)
      /\ UniqueNames(Valid) /\ Valid \subseteq Entry
      /\ \A e \in Valid : e.tok \in Op /\ e.name \in Name
      /\ "absent" \notin Op /\ None \notin Op
      /\ dropped[p] \subseteq Op
  BY ValidUnique, ValidType, NoneAssumption DEF AloneInv, Entry, TypeOK
<1>3. \A q \in Op \ {p} : pc'[q] = pc[q] /\ job'[q] = job[q]
  BY <1>1, <1>2, StepFrame
<1> USE DEF Goto, Files
\* What a step that leaves the lists in place does to the invariant.
<1>4. ASSUME Valid' = Valid, NeverTorn', tokens' = tokens,
             pc[p] \in Settled => pc'[p] \in Settled, job'[p] = job[p] \/ pc[p] = "idle",
             RawKept', Prepared(p)', DropsFinal(p)', RawStaged(p)',
             \/ tmp' = tmp /\ (pc'[p] \in Unopened => pc[p] \in Unopened)
             \/ tmp' = p /\ pc[p] = "open" /\ pc'[p] \notin Unopened
             \/ tmp' = "absent" /\ pc'[p] \notin Unopened
      PROVE  AloneInv'
  <2>1. FilesApart'
    <3>1. \A q \in Op : pc'[q] \in Unopened => pc[q] \in Unopened /\ q # tmp'
      BY <1>2, <1>3, <1>4 DEF FilesApart
    <3>2. tmp' # "absent" => tmp' # tokens'
      BY <1>2, <1>4 DEF FilesApart, Unopened
    <3> QED
      BY <1>2, <1>4, <3>1, <3>2 DEF FilesApart
  <2>2. ValidIssued'
    BY <1>2, <1>3, <1>4 DEF ValidIssued, Settled
  <2> QED
    BY <1>1, <1>4, <2>1, <2>2, OnlyItsOwn
<1>5. ASSUME UNCHANGED <<raw, rawNew>>, Valid' = Valid, pc[p] \notin {"promote", "crashed"}
      PROVE  RawKept'
  BY <1>2, <1>3, <1>5 DEF RawKept, TypeOK
\* What a step that drops nothing more does to the tokens dropped before.
<1>d. ASSUME dropped'[p] = dropped[p], Valid' = Valid,
             pc[p] \in Settled => pc'[p] \in Settled,
             pc'[p] \notin {"idle", "check", "load"},
             pc'[p] \in {"promote", "unlink", "ok"} => pc[p] \in {"promote", "unlink"}
      PROVE  DropsFinal(p)'
  <2>1. ASSUME NEW t \in dropped[p] PROVE pc'[t] \in Settled
    <3>1. t \in Op /\ pc[t] \in Settled
      BY <1>2 DEF DropsFinal
    <3> QED
      BY <1>3, <1>d, <3>1
  <2> QED
    BY <1>2, <1>d, <2>1 DEF DropsFinal, Accepted
<1>6. CASE Begin(p) \/ CheckVersion(p)
  <2>1. /\ Valid' = Valid /\ NeverTorn'
        /\ UNCHANGED <<tmp, tokens, raw, rawNew>>
    BY <1>2, <1>6, SameFile DEF Begin, CheckVersion, FilesApart
  <2>2. /\ pc[p] \in {"idle", "check"} /\ pc'[p] \in {"check", "load", "ioerror"}
        /\ dropped'[p] = dropped[p] /\ (job'[p] = job[p] \/ pc[p] = "idle")
    BY <1>2, <1>6 DEF Begin, CheckVersion, TypeOK
  <2>3. Prepared(p)' /\ RawStaged(p)'
    BY <2>2 DEF Prepared, RawStaged
  <2>4. DropsFinal(p)'
    BY <1>2, <2>2 DEF DropsFinal
  <2> QED
    BY <1>4, <1>5, <2>1, <2>2, <2>3, <2>4 DEF Settled, Unopened
<1>7. CASE LoadToIssue(p)
  <2>1. /\ Valid' = Valid /\ NeverTorn' /\ Matching(p)' = Matching(p)
        /\ Others(p)' = Others(p) /\ Mine(p)' = Mine(p)
    BY <1>2, <1>7, SameFile DEF LoadToIssue, Matching, Others, Mine, FilesApart
  <2>2. \A e \in Matching(p) : Matching(p) = {e}
    BY <1>2 DEF Matching, UniqueNames
  <2>3. pc'[p] = "stage" => /\ view'[p] = Others(p) \cup {Mine(p)}
                            /\ dropped'[p] \subseteq {e.tok : e \in Matching(p)}
    <3>1. CASE Matching(p) = {} /\ view' = [view EXCEPT ![p] = WithToken(p, Valid)]
               /\ UNCHANGED dropped
      BY <1>2, <1>7, <3>1 DEF LoadToIssue, WithToken, Others, Mine, DropsFinal, TypeOK
    <3>2. CASE \E e \in Matching(p) :
                  /\ view' = [view EXCEPT ![p] = WithToken(p, Valid \ {e})]
                  /\ dropped' = [dropped EXCEPT ![p] = {e.tok}]
      BY <1>2, <2>2, <3>2 DEF WithToken, Others, Mine, TypeOK
    <3> QED
      BY <1>2, <1>7, <3>1, <3>2 DEF LoadToIssue, TypeOK
  <2>4. \A e \in Matching(p) : pc[e.tok] \in Settled /\ e.tok \in Op
    BY <1>2 DEF Matching, ValidIssued, Entry
  <2>5. Prepared(p)'
    <3>1. pc'[p] = "stage" /\ job'[p].kind = "issue" => Matching(p) = {}
      BY <1>2, <1>7 DEF LoadToIssue, TypeOK
    <3> QED
      BY <1>2, <1>7, <2>1, <2>3, <3>1 DEF LoadToIssue, Prepared, TypeOK
  <2>6. DropsFinal(p)'
    BY <1>2, <1>3, <1>7, <2>3, <2>4 DEF LoadToIssue, DropsFinal, Settled, TypeOK
  <2> QED
    BY <1>2, <1>4, <1>5, <1>7, <2>1, <2>5, <2>6
       DEF LoadToIssue, RawStaged, Settled, Unopened, TypeOK
<1>8. CASE LoadToRevoke(p)
  <2>1. /\ Valid' = Valid /\ NeverTorn' /\ Matching(p)' = Matching(p)
        /\ Others(p)' = Others(p)
    BY <1>2, <1>8, SameFile DEF LoadToRevoke, Matching, Others, FilesApart
  <2>2. \A e \in Matching(p) : pc[e.tok] \in Settled /\ e.tok \in Op
    BY <1>2 DEF Matching, ValidIssued, Entry
  <2>3. Prepared(p)'
    BY <1>2, <1>8, <2>1 DEF LoadToRevoke, Prepared, Others, TypeOK
  <2>4. DropsFinal(p)'
    BY <1>2, <1>3, <1>8, <2>2 DEF LoadToRevoke, DropsFinal, Settled, TypeOK
  <2> QED
    BY <1>2, <1>4, <1>5, <1>8, <2>1, <2>3, <2>4
       DEF LoadToRevoke, RawStaged, Settled, Unopened, TypeOK
<1>9. CASE StageRaw(p)
  <2>1. /\ Valid' = Valid /\ NeverTorn' /\ Matching(p)' = Matching(p)
        /\ Others(p)' = Others(p) /\ Mine(p)' = Mine(p)
    BY <1>2, <1>9, SameFile DEF StageRaw, Matching, Others, Mine, FilesApart
  <2>2. /\ pc[p] = "stage" /\ pc'[p] = "open"
        /\ UNCHANGED <<job, view, dropped, tmp, tokens, raw>>
        /\ rawNew' = [rawNew EXCEPT ![job[p].name] = p]
    BY <1>2, <1>9 DEF StageRaw, TypeOK
  <2>3. job[p].name \in Name
    BY <1>2, <2>2 DEF TypeOK, Job
  <2>4. Prepared(p)'
    BY <1>2, <2>1, <2>2 DEF Prepared
  <2>5. DropsFinal(p)'
    BY <1>d, <2>1, <2>2 DEF Settled
  <2>6. RawStaged(p)'
    BY <1>2, <2>2, <2>3 DEF RawStaged, TypeOK
  <2>7. RawKept'
    <3>1. \A e \in Valid : pc[e.tok] # "promote"
      BY <1>1, <1>2, <2>2 DEF Active, Ended
    <3> QED
      BY <1>2, <1>3, <2>1, <2>2, <3>1 DEF RawKept, TypeOK
  <2> QED
    BY <1>4, <2>1, <2>2, <2>4, <2>5, <2>6, <2>7 DEF Settled, Unopened
<1>10. CASE FailStage(p)
  <2>1. Valid' = Valid /\ NeverTorn'
    BY <1>2, <1>10, SameFile DEF FailStage, FilesApart
  <2>2. /\ pc[p] = "stage" /\ pc'[p] = "ioerror" /\ UNCHANGED <<job, dropped, tmp, tokens, raw>>
    BY <1>2, <1>10 DEF FailStage, TypeOK
  <2>3. Prepared(p)' /\ DropsFinal(p)' /\ RawStaged(p)'
    BY <1>d, <2>1, <2>2 DEF Prepared, RawStaged, Settled
  <2>4. RawKept'
    <3>1. \A e \in Valid : pc[e.tok] # "promote"
      BY <1>1, <1>2, <2>2 DEF Active, Ended
    <3> QED
      BY <1>2, <1>3, <2>1, <2>2, <3>1 DEF RawKept
  <2> QED
    BY <1>4, <2>1, <2>2, <2>3, <2>4 DEF Settled, Unopened
<1>11. CASE OpenTmp(p)
  <2>1. PICK i \in Op : /\ i = IF tmp = "absent" THEN p ELSE tmp
                        /\ tmp' = i /\ fd' = [fd EXCEPT ![p] = i]
                        /\ data' = [data EXCEPT ![i] = Blank]
    BY <1>2, <1>11 DEF OpenTmp, TypeOK
  <2>2. /\ pc[p] = "open" /\ pc'[p] = "write"
        /\ UNCHANGED <<job, view, dropped, tokens, raw, rawNew>>
    BY <1>2, <1>11 DEF OpenTmp, TypeOK
  <2>3. i # tokens
    BY <1>2, <2>1, <2>2 DEF FilesApart, Unopened
  <2>4. /\ Valid' = Valid /\ NeverTorn' /\ Matching(p)' = Matching(p)
        /\ Others(p)' = Others(p) /\ Mine(p)' = Mine(p)
    <3>1. Valid' = Valid /\ NeverTorn'
      BY <1>2, <2>1, <2>2, <2>3, SameFile DEF FilesApart, TypeOK
    <3> QED
      BY <2>2, <3>1 DEF Matching, Others, Mine
  <2>5. fd'[p] = i /\ data'[i] = Blank
    BY <1>2, <2>1 DEF TypeOK, Inode
  <2>6. Prepared(p)'
    BY <1>2, <2>1, <2>2, <2>4, <2>5 DEF Prepared
  <2>7. DropsFinal(p)' /\ RawStaged(p)'
    BY <1>2, <1>d, <2>2, <2>4 DEF RawStaged, Settled
  <2> QED
    BY <1>4, <1>5, <2>1, <2>2, <2>4, <2>6, <2>7 DEF Settled, Unopened
<1>12. CASE WriteTmp(p)
  <2>1. /\ pc[p] = "write" /\ pc'[p] = "publish"
        /\ UNCHANGED <<job, view, dropped, fd, tmp, tokens, raw, rawNew>>
    BY <1>2, <1>12 DEF WriteTmp, TypeOK
  <2>2. fd[p] \in Op /\ fd[p] = tmp /\ fd[p] # tokens /\ data[fd[p]] = Blank
    BY <1>2, <2>1 DEF TypeOK, Prepared, FilesApart
  <2>3. data' = [data EXCEPT ![fd[p]] = view[p]]
    BY <1>12, <2>2, UnreadAssumption DEF WriteTmp, Overwritten
  <2>4. /\ Valid' = Valid /\ NeverTorn' /\ Matching(p)' = Matching(p)
        /\ Others(p)' = Others(p) /\ Mine(p)' = Mine(p)
    <3>1. Valid' = Valid /\ NeverTorn'
      BY <1>2, <2>1, <2>2, <2>3, SameFile DEF FilesApart, TypeOK
    <3> QED
      BY <2>1, <3>1 DEF Matching, Others, Mine
  <2>5. data'[fd[p]] = view[p]
    BY <1>2, <2>2, <2>3 DEF TypeOK, Inode
  <2>6. Prepared(p)'
    BY <1>2, <2>1, <2>2, <2>4, <2>5 DEF Prepared
  <2>7. DropsFinal(p)' /\ RawStaged(p)'
    BY <1>2, <1>d, <2>1, <2>4 DEF RawStaged, Settled
  <2> QED
    BY <1>4, <1>5, <2>1, <2>4, <2>6, <2>7 DEF Settled, Unopened
<1>13. CASE FailWrite(p)
  <2>1. /\ pc[p] \in {"open", "write", "publish"} /\ pc'[p] = "ioerror"
        /\ UNCHANGED <<job, view, dropped, fd, tokens, raw>>
        /\ tmp' = tmp \/ tmp' = "absent"
        /\ rawNew' = rawNew \/ rawNew' = [rawNew EXCEPT ![job[p].name] = None]
        /\ \/ data' = data
           \/ pc[p] = "write" /\ \E c : data' = [data EXCEPT ![fd[p]] = c]
    BY <1>2, <1>13 DEF FailWrite, DropSideFile, TypeOK
  <2>2. pc[p] = "write" => fd[p] \in Op /\ fd[p] # tokens
    BY <1>2 DEF TypeOK, Prepared, FilesApart
  <2>3. Valid' = Valid /\ NeverTorn'
    BY <1>2, <2>1, <2>2, SameFile DEF FilesApart, TypeOK
  <2>4. Prepared(p)' /\ DropsFinal(p)' /\ RawStaged(p)'
    BY <1>d, <2>1, <2>3 DEF Prepared, RawStaged, Settled
  <2>5. RawKept'
    <3>1. \A e \in Valid : pc[e.tok] # "promote"
      BY <1>1, <1>2, <2>1 DEF Active, Ended
    <3> QED
      BY <1>2, <1>3, <2>1, <2>3, <3>1 DEF RawKept
  <2> QED
    BY <1>4, <2>1, <2>3, <2>4, <2>5 DEF Settled, Unopened
<1>14. CASE PublishTokens(p)
  <2>1. /\ pc[p] = "publish" /\ pc'[p] = IF job[p].kind = "revoke" THEN "unlink" ELSE "promote"
        /\ tmp # "absent" /\ tokens' = tmp /\ tmp' = "absent"
        /\ UNCHANGED <<job, view, dropped, fd, data, raw, rawNew>>
    BY <1>2, <1>14 DEF PublishTokens, TypeOK
  <2>2. tmp = fd[p] /\ data[tmp] = view[p] /\ view[p] \in SUBSET Entry
    BY <1>2, <2>1 DEF Prepared, TypeOK
  <2>3. Valid' = view[p] /\ NeverTorn'
    BY <2>1, <2>2, ListsReadable, UnreadAssumption DEF Valid, OnDisk, NeverTorn, Unread
  <2>4. /\ Valid' = Others(p) \cup (IF job[p].kind = "revoke" THEN {} ELSE {Mine(p)})
        /\ dropped[p] \subseteq {e.tok : e \in Matching(p)}
    BY <1>2, <2>1, <2>3 DEF Prepared
  <2>5. FilesApart'
    BY <1>2, <1>3, <2>1, <2>3 DEF FilesApart, Unopened
  <2>6. ValidIssued'
    BY <1>2, <1>3, <2>1, <2>4 DEF ValidIssued, Others, Mine, Settled
  <2>7. Prepared(p)'
    BY <2>1, <2>4 DEF Prepared, Matching, Others, Mine
  <2>8. DropsFinal(p)'
    <3>1. \A t \in dropped[p] : t # p /\ pc[t] \in Settled
      BY <1>2, <2>1 DEF DropsFinal, Settled
    <3>2. \A e, f \in Valid : e.tok = f.tok => e = f
      BY <1>2 DEF ValidIssued, UniqueNames
    <3>3. \A t \in dropped[p] : \A e \in Valid' : e.tok # t
      BY <2>4, <3>1, <3>2 DEF Others, Mine, Matching
    <3>4. dropped[p] \subseteq Op
      BY <1>2 DEF TypeOK
    <3> QED
      BY <1>3, <2>1, <3>1, <3>3, <3>4 DEF DropsFinal, Accepted
  <2>9. RawStaged(p)'
    BY <1>2, <2>1 DEF RawStaged
  <2>10. RawKept'
    BY <1>2, <1>3, <2>1, <2>4, <2>9 DEF RawKept, RawStaged, Others, Mine
  <2>11. \A e \in Valid' : e \in Valid \/ pc[e.tok] \notin Settled
    BY <2>1, <2>4 DEF Others, Mine, Settled
  <2> QED
    BY <1>1, <2>1, <2>5, <2>6, <2>7, <2>8, <2>9, <2>10, <2>11, OnlyItsOwn DEF Settled
<1>15. CASE PromoteRaw(p)
  <2>1. /\ pc[p] = "promote" /\ pc'[p] = "ok"
        /\ UNCHANGED <<job, view, dropped, fd, data, tmp, tokens>>
    BY <1>2, <1>15 DEF PromoteRaw, TypeOK
  <2>2. Valid' = Valid /\ NeverTorn'
    BY <1>2, <2>1, SameFile DEF FilesApart
  <2>3. Prepared(p)' /\ RawStaged(p)'
    BY <2>1 DEF Prepared, RawStaged
  <2>4. DropsFinal(p)'
    BY <1>d, <2>1, <2>2 DEF Settled
  <2>5. job[p].kind # "revoke" /\ rawNew[job[p].name] = p
    BY <1>2, <2>1 DEF Prepared, RawStaged
  <2>6. ASSUME "promote" \notin Faults
        PROVE  /\ raw' = [raw EXCEPT ![job[p].name] = p]
               /\ rawNew' = [rawNew EXCEPT ![job[p].name] = None]
    BY <1>2, <1>15, <2>5, <2>6 DEF PromoteRaw
  <2>7. RawKept'
    <3>1. \A e \in Valid : pc[e.tok] = "promote" => e.tok = p /\ e.name = job[p].name
      BY <1>1, <1>2 DEF Active, Ended, ValidIssued
    <3>2. \A e \in Valid : e.name = job[p].name => e.tok = p
      BY <1>2, <2>1 DEF Prepared, UniqueNames, Mine
    <3> QED
      BY <1>2, <1>3, <2>1, <2>2, <2>6, <3>1, <3>2 DEF RawKept, TypeOK
  <2> QED
    BY <1>4, <2>1, <2>2, <2>3, <2>4, <2>7 DEF Settled, Unopened
<1>16. CASE UnlinkRaw(p)
  <2>1. /\ pc[p] = "unlink" /\ pc'[p] = "ok"
        /\ UNCHANGED <<job, view, dropped, fd, data, tmp, tokens, rawNew>>
        /\ raw' = raw \/ raw' = [raw EXCEPT ![job[p].name] = None]
    BY <1>2, <1>16 DEF UnlinkRaw, TypeOK
  <2>2. Valid' = Valid /\ NeverTorn'
    BY <1>2, <2>1, SameFile DEF FilesApart
  <2>3. Prepared(p)' /\ RawStaged(p)'
    BY <2>1 DEF Prepared, RawStaged
  <2>4. DropsFinal(p)'
    BY <1>d, <2>1, <2>2 DEF Settled
  <2>5. RawKept'
    <3>1. \A e \in Valid : e.name # job[p].name
      BY <1>2, <2>1 DEF Prepared, Matching
    <3> QED
      BY <1>2, <1>3, <2>1, <2>2, <3>1 DEF RawKept, TypeOK
  <2> QED
    BY <1>4, <2>1, <2>2, <2>3, <2>4, <2>5 DEF Settled, Unopened
<1>17. CASE Crash(p)
  <2>1. /\ pc'[p] = "crashed"
        /\ UNCHANGED <<job, view, dropped, fd, data, tmp, tokens, raw, rawNew>>
    BY <1>2, <1>17 DEF Crash, TypeOK
  <2>2. Valid' = Valid /\ NeverTorn'
    BY <1>2, <2>1, SameFile DEF FilesApart
  <2>3. Prepared(p)' /\ RawStaged(p)' /\ RawKept'
    BY <2>1 DEF Prepared, RawStaged, RawKept
  <2>4. DropsFinal(p)'
    BY <1>d, <2>1, <2>2 DEF Settled
  <2> QED
    BY <1>4, <2>1, <2>2, <2>3, <2>4 DEF Settled, Unopened
<1> QED
  BY <1>1, <1>6, <1>7, <1>8, <1>9, <1>10, <1>11, <1>12, <1>13, <1>14, <1>15, <1>16, <1>17
     DEF Step

\* Every reachable state of commands that run one after another is like that.
LEMMA AloneAlways == AloneSpec => []AloneInv
BY AloneInit, AloneStep, PTL DEF AloneSpec

\* A reader of tokens.json sees the list before a write or after it, never an
\* empty or half-written file, whatever write fails and whenever a command is
\* killed: the content is complete before TokensFile::write renames it.
THEOREM ReadersSeeWholeLists == AloneSpec => []NeverTorn
<1>1. AloneInv => NeverTorn
  BY DEF AloneInv, FilesApart
<1> QED
  BY <1>1, AloneAlways, PTL

\* The token a reported revoke, or a reported issue with --replace, took out of
\* tokens.json is not accepted again by any later command.
THEOREM DroppedTokensStayOut == AloneSpec => []DroppedStaysOut
<1>1. AloneInv => DroppedStaysOut
  BY DEF AloneInv, DropsFinal, DroppedStaysOut
<1> QED
  BY <1>1, AloneAlways, PTL

\* As long as the final rename of the raw file works and no command is killed,
\* every accepted token can still be handed out, noticed failures and later
\* commands included: a token is only stranded by the one failure that its own
\* command did not notice, that of closing its raw file.
THEOREM NoTokenStranded ==
    ASSUME "promote" \notin Faults PROVE AloneSpec => []NothingStranded
<1>1. AloneInv => NothingStranded
  BY DEF AloneInv, RawKept, NothingStranded, Readable
<1> QED
  BY <1>1, AloneAlways, PTL

-----------------------------------------------------------------------------
\* The accepted pairs change only where the rename publishes a call's list.
LEMMA OnlyPublishChanges ==
    ASSUME AloneInv, [AloneNext]_vars
    PROVE  \/ Valid' = Valid
           \/ \E p \in Op : pc[p] = "publish" /\ PublishTokens(p)
<1> SUFFICES ASSUME AloneNext, \A p \in Op : ~PublishTokens(p) PROVE Valid' = Valid
  <2>1. UNCHANGED vars => Valid' = Valid
    BY DEF vars, Valid, OnDisk
  <2> QED
    BY <2>1 DEF PublishTokens, Goto
<1>1. PICK p \in Op : Begin(p) \/ Step(p)
  BY DEF AloneNext
<1>2. TypeOK /\ Prepared(p) /\ FilesApart
  BY DEF AloneInv
<1>3. tokens' = tokens
  BY <1>1 DEF Begin, Step, CheckVersion, LoadToIssue, LoadToRevoke, StageRaw, FailStage,
              OpenTmp, WriteTmp, FailWrite, PromoteRaw, UnlinkRaw, Crash, Files
<1>4. tokens # "absent" => data'[tokens] = data[tokens]
  <2>1. CASE OpenTmp(p)
    <3>1. PICK i \in Op : /\ i = IF tmp = "absent" THEN p ELSE tmp
                          /\ data' = [data EXCEPT ![i] = Blank]
      BY <1>2, <2>1 DEF OpenTmp, TypeOK
    <3>2. pc[p] \in Unopened
      BY <2>1 DEF OpenTmp, Goto, Unopened
    <3> QED
      BY <1>2, <3>1, <3>2 DEF FilesApart, TypeOK
  <2>2. CASE WriteTmp(p) \/ FailWrite(p)
    <3>1. \/ data' = data
          \/ pc[p] = "write" /\ \E c : data' = [data EXCEPT ![fd[p]] = c]
      BY <2>2 DEF WriteTmp, FailWrite, Goto
    <3>2. pc[p] = "write" => fd[p] \in Op /\ fd[p] # tokens
      BY <1>2, NoneAssumption DEF TypeOK, Prepared, FilesApart
    <3> QED
      BY <1>2, <3>1, <3>2 DEF TypeOK
  <2>3. CASE Begin(p) \/ CheckVersion(p) \/ LoadToIssue(p) \/ LoadToRevoke(p)
    BY <2>3 DEF Begin, CheckVersion, LoadToIssue, LoadToRevoke, Files
  <2>4. CASE StageRaw(p) \/ FailStage(p) \/ PromoteRaw(p) \/ UnlinkRaw(p) \/ Crash(p)
    BY <2>4 DEF StageRaw, FailStage, PromoteRaw, UnlinkRaw, Crash, Files
  <2> QED
    BY <1>1, <2>1, <2>2, <2>3, <2>4 DEF Step
<1> QED
  BY <1>2, <1>3, <1>4, SameFile

Places == {"idle", "check", "load", "stage", "open", "write", "publish", "promote",
           "unlink"} \cup Ended

\* A step of a call moves its own outcome and no other.
LEMMA OutcomeMoves ==
    ASSUME NEW p \in Op, NEW to, pc \in [Op -> Places], pc' = [pc EXCEPT ![p] = to]
    PROVE  Outcome' = [Outcome EXCEPT ![p] = Seen(to)]
BY DEF Outcome

LEMMA SeenAs ==
    /\ \A at \in {"idle", "exists", "notfound", "ioerror", "crashed", "ok"} : Seen(at) = at
    /\ \A at \in {"promote", "unlink"} : Seen(at) = "applied"
    /\ \A at \in {"check", "load", "stage", "open", "write", "publish"} : Seen(at) = "pending"
BY DEF Seen, Ended

\* A step inside what the caller and the readers see as one state.
LEMMA OutcomeStays ==
    ASSUME NEW p \in Op, NEW to, pc \in [Op -> Places], pc' = [pc EXCEPT ![p] = to],
           Seen(pc[p]) = Seen(to)
    PROVE  Outcome' = Outcome
BY DEF Outcome

\* What the rename publishes is the one step of the map that its call was asked
\* for: no name that a plain issue or a revoke relied on has changed since the
\* list was read.
LEMMA PublishIsMapStep ==
    ASSUME AloneInv, NEW p \in Op, PublishTokens(p)
    PROVE  TokenMapSpec!Apply(p)
<1> DEFINE n == job[p].name
<1>1. /\ pc[p] = "publish" /\ tmp # "absent" /\ tokens' = tmp /\ data' = data /\ job' = job
      /\ pc' = [pc EXCEPT ![p] = IF job[p].kind = "revoke" THEN "unlink" ELSE "promote"]
  BY DEF PublishTokens, Goto
<1>2. Prepared(p) /\ TypeOK /\ pc \in [Op -> Places]
  BY DEF AloneInv, TypeOK, Places
<1>3. tmp = fd[p] /\ data[tmp] = view[p] /\ view[p] \in SUBSET Entry
  BY <1>1, <1>2 DEF Prepared, TypeOK
<1>4. Valid' = view[p]
  BY <1>1, <1>3, ListsReadable DEF Valid, OnDisk
<1>5. job[p] \in Job
  BY <1>1, <1>2 DEF TypeOK
<1>6. TokenMapSpec!Without(n) = Others(p) /\ (TokenMapSpec!Has(n) <=> Matching(p) # {})
  BY DEF Others, Matching, TokenMapSpec!Without, TokenMapSpec!Has
<1>7. TokenMapSpec!Move(p, "pending", "applied")
  <2>1. Outcome[p] = "pending"
    BY <1>1, SeenAs DEF Outcome
  <2>2. PICK to \in {"promote", "unlink"} : pc' = [pc EXCEPT ![p] = to]
    BY <1>1
  <2>3. Outcome' = [Outcome EXCEPT ![p] = Seen(to)]
    BY <1>2, <2>2, OutcomeMoves
  <2>4. Seen(to) = "applied"
    BY SeenAs
  <2> QED
    BY <2>1, <2>3, <2>4 DEF TokenMapSpec!Move
<1>8. CASE job[p].kind = "revoke"
  <2>1. Valid' = Others(p) /\ Matching(p) # {}
    BY <1>1, <1>2, <1>4, <1>8 DEF Prepared
  <2> QED
    BY <1>1, <1>6, <1>7, <1>8, <2>1 DEF TokenMapSpec!Apply
<1>9. CASE job[p].kind # "revoke"
  <2>1. Valid' = Others(p) \cup {Mine(p)} /\ (job[p].kind = "issue" => Matching(p) = {})
    BY <1>1, <1>2, <1>4, <1>9 DEF Prepared
  <2>2. job[p].kind \in {"issue", "replace"}
    BY <1>5, <1>9 DEF Job
  <2> QED
    BY <1>1, <1>6, <1>7, <2>1, <2>2 DEF TokenMapSpec!Apply, Mine
<1> QED
  BY <1>8, <1>9

\* Every other step of a call is its asking, its refusal, its report or its end,
\* or nothing that the caller or the readers see.
LEMMA CallIsMapStep ==
    ASSUME AloneInv, NEW p \in Op, Begin(p) \/ Step(p), ~PublishTokens(p), Valid' = Valid
    PROVE  TokenMapSpec!Next \/ UNCHANGED <<Valid, job, Outcome>>
<1>1. pc \in [Op -> Places] /\ TypeOK
  BY DEF AloneInv, TypeOK, Places
<1> USE DEF Goto, Files
<1>2. ASSUME NEW j \in Job, Begin(p), job' = [job EXCEPT ![p] = j]
      PROVE  TokenMapSpec!Next
  <2>1. pc[p] = "idle" /\ pc' = [pc EXCEPT ![p] = "check"]
    BY <1>2 DEF Begin
  <2>2. Outcome[p] = "idle" /\ Outcome' = [Outcome EXCEPT ![p] = "pending"]
    BY <1>1, <2>1, OutcomeMoves, SeenAs DEF Outcome
  <2>3. j \in TokenMapSpec!Job
    BY DEF Job, TokenMapSpec!Job
  <2>4. TokenMapSpec!Ask(p, j)
    BY <1>2, <2>2 DEF TokenMapSpec!Ask, TokenMapSpec!Move
  <2> QED
    BY <2>3, <2>4 DEF TokenMapSpec!Next
\* Refusals and the rest, by where they lead.
<1>3. ASSUME job' = job, NEW from \in {"check", "load", "stage", "open", "write", "publish"},
             pc[p] = from,
             NEW to \in {"exists", "notfound", "ioerror"}, pc' = [pc EXCEPT ![p] = to],
             to = "exists" => job[p].kind = "issue" /\ Matching(p) # {},
             to = "notfound" => job[p].kind = "revoke" /\ Matching(p) = {}
      PROVE  TokenMapSpec!Next
  <2>1. Outcome[p] = "pending" /\ Outcome' = [Outcome EXCEPT ![p] = to]
    BY <1>1, <1>3, OutcomeMoves, SeenAs DEF Outcome
  <2>2. TokenMapSpec!Has(job[p].name) <=> Matching(p) # {}
    BY DEF Matching, TokenMapSpec!Has
  <2>3. TokenMapSpec!Refuse(p)
    BY <1>3, <2>1, <2>2 DEF TokenMapSpec!Refuse, TokenMapSpec!Move
  <2> QED
    BY <2>3 DEF TokenMapSpec!Next
<1>4. ASSUME job' = job, NEW to, pc' = [pc EXCEPT ![p] = to], Seen(pc[p]) = Seen(to)
      PROVE  UNCHANGED <<Valid, job, Outcome>>
  BY <1>1, <1>4, OutcomeStays
<1>5. CASE Begin(p)
  BY <1>2, <1>5 DEF Begin
<1>6. CASE CheckVersion(p)
  <2>1. /\ job' = job /\ pc[p] = "check"
        /\ pc' = [pc EXCEPT ![p] = "ioerror"] \/ pc' = [pc EXCEPT ![p] = "load"]
    BY <1>6 DEF CheckVersion
  <2> QED
    BY <1>3, <1>4, <2>1, SeenAs
<1>7. CASE LoadToIssue(p)
  <2>1. /\ job' = job /\ pc[p] = "load"
        /\ \/ pc' = [pc EXCEPT ![p] = "stage"]
           \/ /\ pc' = [pc EXCEPT ![p] = "exists"]
              /\ job[p].kind = "issue" /\ Matching(p) # {}
    BY <1>7 DEF LoadToIssue
  <2> QED
    BY <1>3, <1>4, <2>1, SeenAs
<1>8. CASE LoadToRevoke(p)
  <2>1. /\ job' = job /\ pc[p] = "load"
        /\ \/ pc' = [pc EXCEPT ![p] = "open"]
           \/ /\ pc' = [pc EXCEPT ![p] = "notfound"]
              /\ job[p].kind = "revoke" /\ Matching(p) = {}
    BY <1>8 DEF LoadToRevoke
  <2> QED
    BY <1>3, <1>4, <2>1, SeenAs
<1>9. CASE StageRaw(p) \/ OpenTmp(p) \/ WriteTmp(p)
  <2>1. /\ job' = job /\ pc[p] \in {"stage", "open", "write"}
        /\ \E to \in {"open", "write", "publish"} : pc' = [pc EXCEPT ![p] = to]
    BY <1>9 DEF StageRaw, OpenTmp, WriteTmp
  <2>2. PICK to \in {"open", "write", "publish"} : pc' = [pc EXCEPT ![p] = to]
    BY <2>1
  <2>3. Seen(pc[p]) = "pending" /\ Seen(to) = "pending"
    BY <2>1, SeenAs
  <2> QED
    BY <1>4, <2>1, <2>2, <2>3
<1>10. CASE FailStage(p) \/ FailWrite(p)
  <2>1. /\ job' = job /\ pc[p] \in {"stage", "open", "write", "publish"}
        /\ pc' = [pc EXCEPT ![p] = "ioerror"]
    BY <1>10 DEF FailStage, FailWrite
  <2> QED
    BY <1>3, <2>1
<1>11. CASE PromoteRaw(p) \/ UnlinkRaw(p)
  <2>1. job' = job /\ pc[p] \in {"promote", "unlink"} /\ pc' = [pc EXCEPT ![p] = "ok"]
    BY <1>11 DEF PromoteRaw, UnlinkRaw
  <2>2. Outcome[p] = "applied" /\ Outcome' = [Outcome EXCEPT ![p] = "ok"]
    BY <1>1, <2>1, OutcomeMoves, SeenAs DEF Outcome
  <2>3. TokenMapSpec!ReportOk(p)
    BY <2>1, <2>2 DEF TokenMapSpec!ReportOk, TokenMapSpec!Move
  <2> QED
    BY <2>3 DEF TokenMapSpec!Next
<1>12. CASE Crash(p)
  <2>1. job' = job /\ pc[p] \in Places \ ({"idle"} \cup Ended) /\ pc' = [pc EXCEPT ![p] = "crashed"]
    BY <1>1, <1>12 DEF Crash, Active
  <2>2. Outcome[p] \in {"pending", "applied"} /\ Outcome' = [Outcome EXCEPT ![p] = "crashed"]
    BY <1>1, <2>1, OutcomeMoves, SeenAs DEF Outcome, Places, Ended
  <2>3. TokenMapSpec!Die(p)
    BY <2>1, <2>2 DEF TokenMapSpec!Die, TokenMapSpec!Move
  <2> QED
    BY <2>3 DEF TokenMapSpec!Next
<1> QED
  BY <1>5, <1>6, <1>7, <1>8, <1>9, <1>10, <1>11, <1>12 DEF Step

\* Token commands that do not overlap implement a map from names to tokens: a
\* command takes effect in one step, the rename, as it was asked to, and reports
\* ok only after it; one that reports anything else took none.
THEOREM AloneIsTokenMap == AloneSpec => ImplementsTokenMap
<1>1. Init => TokenMapSpec!Init
  <2> SUFFICES ASSUME Init PROVE TokenMapSpec!Init
    OBVIOUS
  <2>1. OnDisk \in {Blank, Unsupported}
    BY DEF Init, OnDisk, Inode
  <2>2. Valid = {}
    BY <2>1, ListsReadable DEF Valid, Unread
  <2>3. Outcome = [c \in Op |-> "idle"]
    BY SeenAs DEF Init, Outcome
  <2> QED
    BY <2>2, <2>3 DEF Init, TokenMapSpec!Init
<1>2. AloneInv /\ [AloneNext]_vars => [TokenMapSpec!Next]_<<Valid, job, Outcome>>
  <2> SUFFICES ASSUME AloneInv, [AloneNext]_vars
               PROVE  TokenMapSpec!Next \/ UNCHANGED <<Valid, job, Outcome>>
    OBVIOUS
  <2>1. CASE UNCHANGED vars
    BY <2>1 DEF vars, Valid, OnDisk, Outcome
  <2>2. ASSUME NEW p \in Op, PublishTokens(p) PROVE TokenMapSpec!Next
    BY <2>2, PublishIsMapStep DEF TokenMapSpec!Next
  <2>3. ASSUME NEW p \in Op, Begin(p) \/ Step(p), \A q \in Op : ~PublishTokens(q)
        PROVE  TokenMapSpec!Next \/ UNCHANGED <<Valid, job, Outcome>>
    <3>1. Valid' = Valid
      BY <2>3, OnlyPublishChanges
    <3> QED
      BY <2>3, <3>1, CallIsMapStep
  <2> QED
    BY <2>1, <2>2, <2>3 DEF AloneNext
<1> QED
  BY <1>1, <1>2, AloneAlways, PTL DEF AloneSpec, ImplementsTokenMap, TokenMapSpec!Spec
================================================================================
