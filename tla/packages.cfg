SPECIFICATION Spec
CONSTANTS
    app = app
    lib = lib
    tool = tool
    Package = {app, lib, tool}
    Needs <- Graph
    Requests <- Defaults
    Latest = Latest
    Old = Old
    None = None
INVARIANT DoneAsAsked
PROPERTY StoppedBeforeMoved
PROPERTY OnlyPlanned
PROPERTY NoneLeftBehind
PROPERTY Ends
