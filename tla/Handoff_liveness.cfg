CONSTANTS
    Agents = {a1, a2}
    Tabs = {v1}
    Teams = {t1}
    None = None
    NoticeAfter = 1
    ReturnAfter = 2
    Window = 2
    MaxTime = 6
    Horizon = 1
    MaxLag = 1
    MaxRequests = 2
    MaxFailures = 1
SPECIFICATION FairSpec
PROPERTIES
    RequestsEnd
    DeadEndsAreUnseen
