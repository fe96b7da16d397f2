------------------------------ MODULE TokenMap ------------------------------
(***************************************************************************)
(* What the token store promises: a map from names to the one token each   *)
(* name is accepted with, and calls that change it.  A call takes effect   *)
(* in one step, as it was asked to, before it reports ok; one that reports *)
(* anything else never does, and of one that is killed nobody knows.       *)
(* TokenStore is shown to implement this when its calls do not overlap,    *)
(* with failing writes and crashes at any point.                           *)
(***************************************************************************)
CONSTANTS Name,     \* token names
          Call,     \* calls, each standing for the token it would issue
          None      \* not asked yet

VARIABLES valid,    \* the accepted (name, token) pairs
          asked,    \* what each call was asked to do
          outcome   \* how far each call is, or what it reported

Job == [kind : {"issue", "replace", "revoke"}, name : Name]

Init == /\ valid = {}
        /\ asked = [c \in Call |-> None]
        /\ outcome = [c \in Call |-> "idle"]

Move(c, from, to) == /\ outcome[c] = from
                     /\ outcome' = [outcome EXCEPT ![c] = to]

Ask(c, j) == /\ Move(c, "idle", "pending")
             /\ asked' = [asked EXCEPT ![c] = j]
             /\ UNCHANGED valid

Has(n)      == \E e \in valid : e.name = n
Without(n)  == {e \in valid : e.name # n}

\* The one step in which a call takes effect: a plain issue only finds a free
\* name, a revoke only one that is taken.
Apply(c) ==
    LET n == asked[c].name IN
    /\ Move(c, "pending", "applied")
    /\ \/ /\ asked[c].kind = "revoke" /\ Has(n)
          /\ valid' = Without(n)
       \/ /\ asked[c].kind = "replace" \/ (asked[c].kind = "issue" /\ ~Has(n))
          /\ valid' = Without(n) \cup {[name |-> n, tok |-> c]}
    /\ UNCHANGED asked

\* What a call reports that took no effect.
Refuse(c) ==
    /\ \/ Move(c, "pending", "exists") /\ asked[c].kind = "issue" /\ Has(asked[c].name)
       \/ Move(c, "pending", "notfound") /\ asked[c].kind = "revoke" /\ ~Has(asked[c].name)
       \/ Move(c, "pending", "ioerror")
    /\ UNCHANGED <<valid, asked>>

ReportOk(c) == Move(c, "applied", "ok") /\ UNCHANGED <<valid, asked>>

Die(c) == /\ Move(c, "pending", "crashed") \/ Move(c, "applied", "crashed")
          /\ UNCHANGED <<valid, asked>>

Next ==
    \E c \in Call :
        \/ \E j \in Job : Ask(c, j)
        \/ Apply(c) \/ Refuse(c) \/ ReportOk(c) \/ Die(c)

Spec == Init /\ [][Next]_<<valid, asked, outcome>>
=============================================================================
