\* The system stops once every message is settled and no callback is left.
SPECIFICATION Spec
CONSTANTS
    scheduled = scheduled
    admin = admin
    NoId = NoId
    Message = {1}
    Copy = {k1, k2}
    Origins = {"api", "operator"}
    Providers = {"WHATSBOX", "META"}
    Sweeper = {scheduled}
    MaxRetries <- BudgetsTwo
    Limit = 1
    Handler = {h1}
    Faults = {"lostAnswer", "dbError"}
    MaxCrashes = 0
SYMMETRY CopySymmetry
CHECK_DEADLOCK FALSE
INVARIANTS
    TypeOK
    SentMeansAccepted
    SuccessIsRecorded
    DeliveredMeansDelivered
PROPERTIES
    ImplementsMessageLife
    
