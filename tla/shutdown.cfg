SPECIFICATION FairSpec
CONSTANTS
    Client = {c1}
    Other = {o1}
    Pid = {p1, p2}
    Boots = 2
    None = None
INVARIANT StopVerdictTrue
INVARIANT RefusedOnlyWhenDown
INVARIANT FirstStopAnswered
PROPERTY AnsweredStopStops
PROPERTY CommandsEnd
CHECK_DEADLOCK FALSE
