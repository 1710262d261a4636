SPECIFICATION Spec
CONSTANTS
    NoId = NoId
    k1 = k1
    p1 = p1
    Phone = {p1, p2, p3}
    Channel = {c1}
    CrmContact = {k1, k2}
    Deal = {1, 2}
    Book <- BookMixed
    Task = {t1}
    Job = {job}
    Faults = {"crmError", "searchError", "lostAnswer", "dbError"}
    MaxCrashes = 1
CHECK_DEADLOCK FALSE
SYMMETRY PhoneSymmetry
INVARIANTS
    TypeOK
    LinkIsCustomers
    DealIsCustomers
