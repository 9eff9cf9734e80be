CONSTANTS
    Agents = {a1}
    Tabs = {v1}
    Teams = {t1}
    None = None
    NoticeAfter = 1
    ReturnAfter = 2
    Window = 8
    MaxTime = 1
    Horizon = 1
    MaxLag = 3
    MaxRequests = 2
    MaxFailures = 0
SPECIFICATION Spec
INVARIANT AiStaysQuiet
