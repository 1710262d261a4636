SPECIFICATION FairRaceSpec
CONSTANTS
    NoId = NoId
    Phone = {p1}
    Channel = {c1}
    CrmContact = {k1, k2}
    Deal = {1, 2}
    Book <- BookEmpty
    Task = {t1, t2}
    Job = {job}
    Faults = {"crmError"}
    MaxCrashes = 1
CHECK_DEADLOCK FALSE
INVARIANTS
    OneCrmContact
    OneOpenDeal
PROPERTIES
    LinkIsKept
    
