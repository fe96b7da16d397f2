----------------------------- MODULE TokenStore -----------------------------
(***************************************************************************)
(* The token store of a session directory, src/src/daemon/token_store.cpp: *)
(* daemon/tokens.json (hashes of accepted tokens), its temporary           *)
(* tokens.json.tmp, and per name the raw token file <name>.json with its   *)
(* staging file <name>.json.new.  Issuing and revoking run in short-lived  *)
(* CLI processes and, for "auto", in every booting daemon; nothing locks   *)
(* the directory, and all writers share one temporary name.                *)
(*                                                                         *)
(* Each element of Op is one call of issueToken or revokeToken, and stands *)
(* for the token that call would generate.  Files are inodes, because a    *)
(* writer keeps its descriptor while another process renames the name.     *)
(***************************************************************************)
EXTENDS Naturals, FiniteSets

CONSTANTS
    Op,             \* calls of issueToken / revokeToken
    Name,           \* token names that isSafeName accepts
    Faults,         \* subset of {"io", "flush", "promote", "crash"}
    None,           \* no file, no descriptor
    Blank,          \* a file opened with trunc and not yet written
    Garbled,        \* a file json::parse rejects
    Unsupported     \* a file with another build's schema version

ASSUME NoneAssumption == {None, "absent"} \cap Op = {} /\ None # "absent"
ASSUME FaultsAssumption == Faults \subseteq {"io", "flush", "promote", "crash"}

Entry   == [name : Name, tok : Op]
Job     == [kind : {"issue", "replace", "revoke"}, name : Name]
Unread  == {Blank, Garbled, Unsupported}
Content == (SUBSET Entry) \cup Unread

\* What cannot be read as a list is no list, and can be told apart.
ASSUME UnreadAssumption ==
    /\ \A u \in Unread, list \in SUBSET Entry : u # list
    /\ Garbled # Blank /\ Unsupported \notin {Blank, Garbled}

\* One inode per writer is enough: each opens the temporary once.  Op is also
\* the set of inodes a writer can create; None holds the file found at first.
Inode   == Op \cup {None}

VARIABLES
    pc,         \* where each call is
    job,        \* what each call was asked to do
    view,       \* the entries each call is going to write
    dropped,    \* the tokens each call left out of what it read
    fd,         \* the inode each call has open
    data,       \* the contents of each inode
    tmp,        \* the inode named tokens.json.tmp, or "absent"
    tokens,     \* the inode named tokens.json, or "absent"
    raw,        \* whose token <name>.json was written for
    rawNew,     \* whose token <name>.json.new was written for
    short       \* the calls whose raw file lost its text, unnoticed

vars == <<pc, job, view, dropped, fd, data, tmp, tokens, raw, rawNew, short>>

Ended  == {"ok", "exists", "notfound", "ioerror", "crashed"}
Active(p) == pc[p] \notin {"idle"} \cup Ended

-----------------------------------------------------------------------------
\* TokensFile::read: a missing or unparseable file and another version's file
\* all read as no tokens.
Parsed(c) == IF c \in Unread THEN {} ELSE c

OnDisk == IF tokens = "absent" THEN Blank ELSE data[tokens]

\* The pairs the daemon's validator accepts; it reads the file on every call.
Valid == Parsed(OnDisk)

\* TokenStore::lookupByToken finds t; expiry and local_only, which only narrow
\* what is accepted, are left out.
Accepted(t) == \E e \in Valid : e.tok = t

Init ==
    /\ pc = [p \in Op |-> "idle"]
    /\ job = [p \in Op |-> None]
    /\ view = [p \in Op |-> {}]
    /\ dropped = [p \in Op |-> {}]
    /\ fd = [p \in Op |-> "absent"]
    /\ data = [i \in Inode |-> Unsupported]
    /\ tmp = "absent"
    /\ tokens \in {"absent", None}
    /\ raw = [n \in Name |-> None]
    /\ rawNew = [n \in Name |-> None]
    /\ short = {}

Goto(p, from, to) ==
    /\ pc[p] = from
    /\ pc' = [pc EXCEPT ![p] = to]

Files == <<data, tmp, tokens, raw, rawNew, short>>

Begin(p) ==
    /\ Goto(p, "idle", "check")
    /\ \E j \in Job : job' = [job EXCEPT ![p] = j]
    /\ UNCHANGED <<view, dropped, fd, Files>>

\* Slip: what cannot be understood counts as empty.
CheckNothing(p) ==
    /\ Goto(p, "check", "load")
    /\ UNCHANGED <<job, view, dropped, fd, Files>>

\* TokensFile::onDiskVersionUnsupported: fail closed.
CheckVersion(p) ==
    /\ Goto(p, "check", IF OnDisk = Unsupported /\ tokens # "absent"
                        THEN "ioerror" ELSE "load")
    /\ UNCHANGED <<job, view, dropped, fd, Files>>

Matching(p) == {e \in Valid : e.name = job[p].name}

\* issueToken reads the list.  An existing name needs --replace, and then its
\* first entry is dropped.
WithToken(p, kept) == kept \cup {[name |-> job[p].name, tok |-> p]}

\* Slip: --replace appends and leaves the old entry in the list.
LoadToAppend(p) ==
    /\ pc[p] = "load" /\ job[p].kind # "revoke"
    /\ Goto(p, "load", "stage")
    /\ view' = [view EXCEPT ![p] = WithToken(p, Valid)]
    /\ UNCHANGED <<job, dropped, fd, Files>>

LoadToIssue(p) ==
    /\ pc[p] = "load" /\ job[p].kind # "revoke"
    /\ \/ /\ Matching(p) = {}
          /\ Goto(p, "load", "stage")
          /\ view' = [view EXCEPT ![p] = WithToken(p, Valid)]
          /\ UNCHANGED dropped
       \/ /\ Matching(p) # {} /\ job[p].kind = "issue"
          /\ Goto(p, "load", "exists")
          /\ UNCHANGED <<view, dropped>>
       \/ /\ job[p].kind = "replace"
          /\ Goto(p, "load", "stage")
          /\ \E e \in Matching(p) :
                /\ view' = [view EXCEPT ![p] = WithToken(p, Valid \ {e})]
                /\ dropped' = [dropped EXCEPT ![p] = {e.tok}]
    /\ UNCHANGED <<job, fd, Files>>

\* Slip: std::remove_if without the erase.
LoadToRevokeNoErase(p) ==
    /\ pc[p] = "load" /\ job[p].kind = "revoke"
    /\ view' = [view EXCEPT ![p] = Valid]
    /\ dropped' = [dropped EXCEPT ![p] = {e.tok : e \in Matching(p)}]
    /\ Goto(p, "load", IF Matching(p) = {} THEN "notfound" ELSE "open")
    /\ UNCHANGED <<job, fd, Files>>

\* revokeToken drops every entry of the name.
LoadToRevoke(p) ==
    /\ pc[p] = "load" /\ job[p].kind = "revoke"
    /\ view' = [view EXCEPT ![p] = Valid \ Matching(p)]
    /\ dropped' = [dropped EXCEPT ![p] = {e.tok : e \in Matching(p)}]
    /\ Goto(p, "load", IF Matching(p) = {} THEN "notfound" ELSE "open")
    /\ UNCHANGED <<job, fd, Files>>

\* Slip: the new raw token goes straight over the old one.
StageInPlace(p) ==
    /\ Goto(p, "stage", "open")
    /\ raw' = [raw EXCEPT ![job[p].name] = p]
    /\ UNCHANGED <<job, view, dropped, fd, data, tmp, tokens, rawNew, short>>

\* writeRawTokenFile(<name>.json.new) looks at the stream before it closes it:
\* text that fails to leave the buffer is lost without an error.
StageRaw(p) ==
    /\ Goto(p, "stage", "open")
    /\ rawNew' = [rawNew EXCEPT ![job[p].name] = p]
    /\ short' \in {short} \cup (IF "flush" \in Faults THEN {short \cup {p}} ELSE {})
    /\ UNCHANGED <<job, view, dropped, fd, data, tmp, tokens, raw>>

\* The token cannot be generated, or its raw file cannot be opened, or writing
\* to the stream fails before the close.
FailStage(p) ==
    /\ "io" \in Faults
    /\ Goto(p, "stage", "ioerror")
    /\ \E left \in {rawNew[job[p].name], None} :
          rawNew' = [rawNew EXCEPT ![job[p].name] = left]
    /\ UNCHANGED <<job, view, dropped, fd, data, tmp, tokens, raw, short>>

\* Slip: tokens.json itself is opened.
OpenInPlace(p) ==
    /\ Goto(p, "open", "write")
    /\ LET i == IF tokens = "absent" THEN p ELSE tokens
       IN  /\ tokens' = i
           /\ fd' = [fd EXCEPT ![p] = i]
           /\ data' = [data EXCEPT ![i] = Blank]
    /\ UNCHANGED <<job, view, dropped, tmp, raw, rawNew, short>>

\* TokensFile::write opens tokens.json.tmp with trunc: the inode that already
\* has the name, if one does, is the one that is emptied.
OpenTmp(p) ==
    /\ Goto(p, "open", "write")
    /\ LET i == IF tmp = "absent" THEN p ELSE tmp
       IN  /\ tmp' = i
           /\ fd' = [fd EXCEPT ![p] = i]
           /\ data' = [data EXCEPT ![i] = Blank]
    /\ UNCHANGED <<job, view, dropped, tokens, raw, rawNew, short>>

\* The bytes go to the open inode from its start, wherever its name is by now.
\* What another writer put there shows behind a shorter text.  Entries of
\* equal length, so lists compare by their number.
Overwritten(old, new) ==
    IF old = Garbled THEN {Garbled, new}
    ELSE IF old = Blank \/ Cardinality(old) <= Cardinality(new) THEN {new}
    ELSE {Garbled}

WriteTmp(p) ==
    /\ Goto(p, "write", "publish")
    /\ \E c \in Overwritten(data[fd[p]], view[p]) : data' = [data EXCEPT ![fd[p]] = c]
    /\ UNCHANGED <<job, view, dropped, fd, tmp, tokens, raw, rawNew, short>>

\* Slip: a rename that fails goes unnoticed.
PublishUnchecked(p) ==
    /\ tmp # "absent"
    /\ Goto(p, "publish", IF job[p].kind = "revoke" THEN "unlink" ELSE "promote")
    /\ tokens' \in {tmp, tokens}
    /\ tmp' = "absent"
    /\ UNCHANGED <<job, view, dropped, fd, data, raw, rawNew, short>>

\* rename(tokens.json.tmp, tokens.json) moves whatever has the name now.
PublishTokens(p) ==
    /\ tmp # "absent"
    /\ Goto(p, "publish", IF job[p].kind = "revoke" THEN "unlink" ELSE "promote")
    /\ tokens' = tmp
    /\ tmp' = "absent"
    /\ UNCHANGED <<job, view, dropped, fd, data, raw, rawNew, short>>

\* A failing TokensFile::write: issueToken drops its side file.  A failing
\* rename (another writer has renamed the temporary away, or an I/O error)
\* removes the temporary; a failing open or write leaves it.
DropSideFile(p) ==
    rawNew' = IF job[p].kind = "revoke" THEN rawNew
              ELSE [rawNew EXCEPT ![job[p].name] = None]

FailWrite(p) ==
    /\ \/ /\ "io" \in Faults
          /\ Goto(p, "open", "ioerror")
          /\ UNCHANGED <<data, tmp>>
       \/ /\ "io" \in Faults
          /\ Goto(p, "write", "ioerror")
          /\ \E c \in {data[fd[p]], Garbled} : data' = [data EXCEPT ![fd[p]] = c]
          /\ UNCHANGED tmp
       \/ /\ "io" \in Faults \/ tmp = "absent"
          /\ Goto(p, "publish", "ioerror")
          /\ tmp' = "absent"
          /\ UNCHANGED data
    /\ DropSideFile(p)
    /\ UNCHANGED <<job, view, dropped, fd, tokens, raw, short>>

\* rename(<name>.json.new, <name>.json), tried twice and ignored when it fails.
PromoteRaw(p) ==
    /\ Goto(p, "promote", "ok")
    /\ LET n == job[p].name
       IN  \/ /\ rawNew[n] # None
              /\ raw' = [raw EXCEPT ![n] = rawNew[n]]
              /\ rawNew' = [rawNew EXCEPT ![n] = None]
           \/ /\ rawNew[n] = None \/ "promote" \in Faults
              /\ UNCHANGED <<raw, rawNew>>
    /\ UNCHANGED <<job, view, dropped, fd, data, tmp, tokens, short>>

\* Best-effort removal of the raw file; the result is Ok either way.
UnlinkRaw(p) ==
    /\ Goto(p, "unlink", "ok")
    /\ \/ raw' = [raw EXCEPT ![job[p].name] = None]
       \/ "io" \in Faults /\ UNCHANGED raw
    /\ UNCHANGED <<job, view, dropped, fd, data, tmp, tokens, rawNew, short>>

\* The process is killed; what it had open stays as it is.
Crash(p) ==
    /\ "crash" \in Faults
    /\ Active(p)
    /\ pc' = [pc EXCEPT ![p] = "crashed"]
    /\ UNCHANGED <<job, view, dropped, fd, Files>>

Step(p) == \/ CheckVersion(p) \/ LoadToIssue(p) \/ LoadToRevoke(p)
           \/ StageRaw(p) \/ FailStage(p)
           \/ OpenTmp(p) \/ WriteTmp(p) \/ PublishTokens(p) \/ FailWrite(p)
           \/ PromoteRaw(p) \/ UnlinkRaw(p) \/ Crash(p)

Next == \E p \in Op : Begin(p) \/ Step(p)

Spec == Init /\ [][Next]_vars

\* One call at a time: a call starts when every other has ended.
AloneNext == \E p \in Op : \/ (\A q \in Op : ~Active(q)) /\ Begin(p)
                           \/ Step(p)

AloneSpec == Init /\ [][AloneNext]_vars

-----------------------------------------------------------------------------
TypeOK ==
    /\ pc \in [Op -> {"idle", "check", "load", "stage", "open", "write", "publish",
                       "promote", "unlink"} \cup Ended]
    /\ job \in [Op -> Job \cup {None}]
    /\ \A p \in Op : pc[p] # "idle" => job[p] \in Job
    /\ view \in [Op -> SUBSET Entry]
    /\ dropped \in [Op -> SUBSET Op]
    /\ fd \in [Op -> Op \cup {"absent"}]
    /\ \A p \in Op : pc[p] \in {"write", "publish"} => fd[p] \in Op
    /\ data \in [Inode -> Content]
    /\ tmp \in Op \cup {"absent"}
    /\ tokens \in Inode \cup {"absent"}
    /\ raw \in [Name -> Op \cup {None}]
    /\ rawNew \in [Name -> Op \cup {None}]
    /\ short \subseteq Op

\* However writers interleave, one name is never accepted with two tokens: a
\* replaced token does not stay accepted beside its successor.
NamesUnique == \A e, f \in Valid : e.name = f.name => e = f

\* Its inductive form: every list a call holds or has written has unique names.
UniqueNames(list) == \A e, f \in list : e.name = f.name => e = f

ListsUnique == /\ \A p \in Op : UniqueNames(view[p])
               /\ \A i \in Inode : UniqueNames(Parsed(data[i]))

\* A tokens.json of another build's version is never rewritten: issuing and
\* revoking fail closed before they write.
UnsupportedKept ==
    [][tokens = None => tokens' = None /\ data'[None] = data[None]]_vars

\* Why: while that file is in place no call gets past its version check.
StoppedAtCheck ==
    tokens = None => /\ data[None] = Unsupported
                     /\ \A p \in Op : pc[p] \in {"idle", "check", "ioerror", "crashed"}

\* A reader sees the file before a write or after it, never half-written
\* (token_store.cpp, the comment on the rename).
NeverTorn == tokens # "absent" => OnDisk \notin {Blank, Garbled}

\* Once a revoke, or an issue that replaced a token, has reported Ok, the token
\* it dropped is not accepted again.
DroppedStaysOut ==
    \A p \in Op : pc[p] = "ok" => \A t \in dropped[p] : ~Accepted(t)

\* The tokens whose raw text is whole in <name>.json, or in the .new file that
\* the running call is about to promote.
Readable(n) == {raw[n], rawNew[n]} \ short

\* While no call was killed, an accepted token can still be handed out, failed
\* writes and later calls included, unless its own raw text was lost when the
\* file was closed (issueToken stages, commits, then promotes).
NothingStranded ==
    (\A p \in Op : pc[p] # "crashed") =>
        \A e \in Valid : e.tok \in Readable(e.name) \cup short

\* "So a failed write under --replace can't strand a valid token"
\* (token_store.cpp:371-374).  Not so: see the run that checks it.
FailedWriteStrandsNone ==
    (\A p \in Op : pc[p] # "crashed") => \A e \in Valid : e.tok \in Readable(e.name)

\* How far each call is for its caller and for readers: what has been renamed
\* into tokens.json has taken effect.
Seen(at) == CASE at \in {"idle"} \cup Ended      -> at
              [] at \in {"promote", "unlink"}    -> "applied"
              [] OTHER                           -> "pending"
Outcome == [p \in Op |-> Seen(pc[p])]

\* A call that reported Ok did what it was asked, once and in one step, a call
\* that reported anything else did nothing, and nothing else changes what is
\* accepted.
TokenMapSpec == INSTANCE TokenMap WITH Call <- Op, valid <- Valid, asked <- job,
                                       outcome <- Outcome
ImplementsTokenMap == TokenMapSpec!Spec
=============================================================================
