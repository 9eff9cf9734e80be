SPECIFICATION Spec
CONSTANTS
    p1 = p1
    p2 = p2
    Requests = {p1, p2}
    LastDay = 2
    DayLimit = 2
    WidgetLimit = 1
    TokenLimit = 1
    Costs = {0, 1}
    Faults = {"redis", "ledger", "provider", "crash", "restart"}
    MaxAsked = 3
    MaxFailures = 2
SYMMETRY Interchangeable
INVARIANTS
    WithinDailyLimit
    DebtIsCounted
    WidgetWithinLimit
    RebuildIsExact
    CountedOnce
    BoundedOvershoot
CHECK_DEADLOCK FALSE
