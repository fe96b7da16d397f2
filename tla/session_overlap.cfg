SPECIFICATION Spec
CONSTANTS
    Daemon = {d1, d2}
    Pid = {p1, p2}
    Modes = {"foreground", "detached"}
    None = None
INVARIANT TypeOK
INVARIANT StateNamesLiveOrCrashed
PROPERTY OperatorConfigKept
CHECK_DEADLOCK FALSE
