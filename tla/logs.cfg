SPECIFICATION FairSpec
CONSTANTS
    Daemon = {"d1", "d2"}
    Module = {m1}
    MaxFiles = 2
    MaxClock = 2
    PipeCap = 2
    ReadMax = 2
    PendingMax = 1
    MaxWrites <- OneWriter
    None = None
INVARIANT LogFollowsStream
INVARIANT LogsKept
PROPERTY StopReturns
CHECK_DEADLOCK FALSE
