SPECIFICATION Spec
CONSTANTS
    NoId = NoId
    Portal = {p1, p2}
    Kinds = {"event", "open", "placement", "reply", "uninstall"}
    Task = {t1}
    Client = {1, 2, 3, 4, 5}
    MaxIssued = 2
    Faults = {}
CHECK_DEADLOCK FALSE
SYMMETRY Symmetry
INVARIANTS
    RegistersOwnPortal
