---------------------------- MODULE SessionOwner ----------------------------
(***************************************************************************)
(* What a session directory promises to everybody who looks at it: it is   *)
(* owned by at most one daemon at a time, and what it announces is its     *)
(* owner or, while nobody owns it, nothing or a daemon that died without   *)
(* unwinding.  DaemonSession is shown to implement this for starts and     *)
(* stops that do not overlap.                                              *)
(***************************************************************************)
CONSTANTS Daemon, None

VARIABLES
    owner,      \* the daemon that owns the directory, or None
    announced   \* the daemon the directory names to a client, or None

ownerVars == <<owner, announced>>

Init == owner = None /\ announced = None

Acquire(d) ==
    /\ owner = None
    /\ owner' = d
    /\ UNCHANGED announced

\* Only the owner announces itself, and it may find a dead owner's leftover.
Announce(d) ==
    /\ owner = d
    /\ announced' = d
    /\ UNCHANGED owner

\* A clean stop first retracts the announcement and later gives up ownership.
Retract(d) ==
    /\ owner = d
    /\ announced = d
    /\ announced' = None
    /\ UNCHANGED owner

\* The owner is gone: after unwinding, after a failed start, or killed.
Release(d) ==
    /\ owner = d
    /\ owner' = None
    /\ UNCHANGED announced

\* A leftover may be cleared while nobody owns the directory.
Clear ==
    /\ owner = None
    /\ announced' = None
    /\ UNCHANGED owner

Next == \/ \E d \in Daemon : Acquire(d) \/ Announce(d) \/ Retract(d) \/ Release(d)
        \/ Clear

Spec == Init /\ [][Next]_ownerVars
=============================================================================
