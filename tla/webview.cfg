SPECIFICATION FairSpec
CONSTANTS
    Sender = {"s1", "s2"}
    Capacity = 1
    MaxLines = 2
    None = None
INVARIANT MessagesKept
INVARIANT DetachIsFinal
INVARIANT DeathIsLoss
INVARIANT ViewOutlivesPump
PROPERTY TeardownEnds
CHECK_DEADLOCK FALSE
