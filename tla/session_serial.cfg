SPECIFICATION CarefulSpec
CONSTANTS
    Daemon = {d1, d2, d3}
    Pid = {p1, p2}
    Modes = {"foreground", "detached"}
    None = None
INVARIANT SoleOwner
INVARIANT SessionUsable
PROPERTY StartedIsOwnChild
PROPERTY ImplementsSessionOwner
SYMMETRY Symmetry
CHECK_DEADLOCK FALSE
