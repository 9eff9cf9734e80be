CONSTANTS
    Requests = {p1, p2}
    KB = KB  Source = Source
    Docs = {d1, d2}
    Urls = {u}
    Runs = {1, 2, 3, 4, 5, 6}
    None = None
    Rows <- AllRows
    UseCases = {"upload", "retry", "delete", "deleteKB", "create", "resync"}
    Faults = {"storage", "provider", "vectors", "broker", "database", "worker", "console", "revoked"}
    MaxRequests = 3
    MaxFailures = 2
    MaxEvents = 3
SPECIFICATION Spec
CHECK_DEADLOCK FALSE
SYMMETRY Renaming
INVARIANTS ReadyHasPassages ReadyIsSearchable DeletedDoesNotAnswer RunsAgree
PROPERTIES DeletedStaysDeleted
