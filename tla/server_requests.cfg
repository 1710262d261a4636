SPECIFICATION FairServerSpec
CONSTANTS
    Call = {c1}
    Providers = {"WHATSBOX", "META", "BITRIX24"}
    Retries = {0, 1, 2, 3}
    e1 = e1
    e2 = e2
    e3 = e3
    Event = {e1, e2, e3}
    Bad = Bad
    Bodies <- SomeBodies
    Notice = {n1}
    Delivery = {d1, d2}
    MaxDeliveries = 2
    RefusedWrites = {"create", "update"}
    Template = {1, 2}
    Editor = {x1, x2}
    MaxRequests = 3
    TableFaults = {"dbError"}
INVARIANTS
    ServerTypeOK
    PostsAreBounded
    NotGivenUpEarly
    AckedIsAudited
    AuditIsTrue
    OneDefault
    DefaultIsKept
    SilentOnlyWithoutText
    
PROPERTIES
    ImplementsRemoteCall
    CallEnds
    
CHECK_DEADLOCK FALSE
