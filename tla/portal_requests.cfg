SPECIFICATION Spec
CONSTANTS
    NoId = NoId
    Portal = {p1, p2}
    Kinds = {"event", "open", "placement", "reply", "uninstall"}
    Task = {t1}
    Client = {1, 2, 3, 4, 5}
    MaxIssued = 2
    Faults = {"netError", "lostAnswer"}
CHECK_DEADLOCK FALSE
SYMMETRY Symmetry
INVARIANTS
    TypeOK
    
    
    
    
PROPERTIES
    AccessIsNotOlder
