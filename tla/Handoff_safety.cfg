CONSTANTS
    Agents = {a1, a2}
    Tabs = {v1}
    Teams = {t1}
    None = None
    NoticeAfter = 1
    ReturnAfter = 2
    Window = 8
    MaxTime = 3
    Horizon = 1
    MaxLag = 3
    MaxRequests = 3
    MaxFailures = 1
SPECIFICATION Spec
SYMMETRY Symmetry
INVARIANTS
    ThreadIsOneLine
    ThreadTellsState
PROPERTIES
    KeptUntilReturned
    ImplementsOwnership
