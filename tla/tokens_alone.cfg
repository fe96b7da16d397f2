SPECIFICATION AloneSpec
CONSTANTS
    Op = {c1, c2, c3}
    Name = {alice, bob}
    Faults = {"io", "flush", "crash"}
    None = None
    Blank = Blank
    Garbled = Garbled
    Unsupported = Unsupported
INVARIANT NeverTorn
INVARIANT DroppedStaysOut
INVARIANT NothingStranded
PROPERTY ImplementsTokenMap
SYMMETRY Symmetry
CHECK_DEADLOCK FALSE
