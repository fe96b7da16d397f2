SPECIFICATION SerialSpec
CONSTANTS
    Daemon = {d1, d2}
    Pid = {p1, p2}
    Modes = {"detached"}
    None = None
INVARIANT SoleOwner
CHECK_DEADLOCK FALSE
