SPECIFICATION Spec
CONSTANTS
    scheduled = scheduled
    admin = admin
    NoId = NoId
    Message = {1}
    Copy = {k1}
    Origins = {"operator"}
    Providers = {"META"}
    Sweeper = {}
    MaxRetries <- BudgetsOne
    Limit = 1
    Handler = {h1}
    Faults = {}
    MaxCrashes = 0
CHECK_DEADLOCK FALSE
INVARIANTS
    KnownIdIsResolved
