SPECIFICATION Spec
CONSTANTS
    NoId = NoId
    k1 = k1
    p1 = p1
    Phone = {p1, p2}
    Channel = {c1}
    CrmContact = {k1, k2}
    Deal = {1}
    Book <- BookShared
    Task = {t1}
    Job = {}
    Faults = {}
    MaxCrashes = 0
CHECK_DEADLOCK FALSE
INVARIANTS
    NeverDropped
