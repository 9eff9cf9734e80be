CONSTANTS
    Requests = {p1, p2}
    KB = KB  Source = Source
    Docs = {d1, d2}
    Urls = {u}
    Runs = {1, 2, 3, 4, 5, 6}
    None = None
    Rows <- AllRows
    UseCases = {"retry", "resync"}
    Faults = {"worker", "provider", "storage", "vectors"}
    MaxRequests = 2
    MaxFailures = 1
    MaxEvents = 3
SPECIFICATION FairSpec
CHECK_DEADLOCK FALSE
PROPERTIES ProcessingEnds
