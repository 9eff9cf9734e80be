SPECIFICATION Spec
CONSTANTS
    c1 = c1
    c2 = c2
    s1 = s1
    s2 = s2
    Callers = {c1, c2}
    Stoppers = {s1, s2}
    None = None
    MaxThreads = 3
INVARIANTS
    RunsToTheEnd
    SharedContainer
PROPERTIES
    EveryoneReturns
CHECK_DEADLOCK FALSE
