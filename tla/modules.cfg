SPECIFICATION Spec
CONSTANTS
    Module = {"a", "b", "c"}
    Requires <- SomeRequires
    Prefers <- SomePrefers
    Watcher = {"w1"}
    Event = {"e1", "e2"}
    AnyEvent = AnyEvent
    Interface <- SomeInterface
    Argument = {"number", "string", "null"}
    Watched = {"b"}
    MaxSubscriptions = 1
    Takes <- SomeTakes
    Unpublished = Unpublished
    None = None
INVARIANT RepliesTrue
INVARIANT SideEffectsReported
INVARIANT NoneOrphaned
INVARIANT CallsToldTrue
