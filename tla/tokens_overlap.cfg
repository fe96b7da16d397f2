SPECIFICATION Spec
CONSTANTS
    Op = {c1, c2, c3}
    Name = {alice, bob}
    Faults = {"io", "promote", "crash"}
    None = None
    Blank = Blank
    Garbled = Garbled
    Unsupported = Unsupported
INVARIANT NamesUnique
PROPERTY UnsupportedKept
SYMMETRY Symmetry
CHECK_DEADLOCK FALSE
