\* The system stops once every message is settled and no callback is left.
SPECIFICATION FairSpec
CONSTANTS
    scheduled = scheduled
    admin = admin
    NoId = NoId
    Message = {1, 2}
    Copy = {k1}
    Origins = {"api"}
    Providers = {"WHATSBOX"}
    Sweeper = {scheduled}
    MaxRetries <- BudgetsTwo
    Limit = 1
    Handler = {}
    Faults = {}
    MaxCrashes = 1
CHECK_DEADLOCK FALSE
PROPERTIES
    ExhaustedNotResent
    StoredMessageSettles
    SweepReleases
