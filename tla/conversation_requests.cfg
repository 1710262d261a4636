SPECIFICATION Spec
CONSTANTS
    NoId = NoId
    c1 = c1
    c2 = c2
    k1 = k1
    a1 = a1
    a2 = a2
    a3 = a3
    m1 = m1
    m2 = m2
    r1 = r1
    Conversation = {c1, c2}
    Contact = {k1}
    Agent = {a1, a2, a3}
    Message = {m1, m2}
    Reply = {r1}
    contactOf <- ContactOf
    sentTo <- SentTo
    answers <- Answers
    author <- Author
    Roster <- FirstRoster
    Supervisor = {a2}
    MaxActive = 1
    Task = {t1, t2}
    Faults = {"dbError", "crmError"}
    MaxRequests = 4
    MaxCrashes = 1
CHECK_DEADLOCK FALSE
SYMMETRY TaskSymmetry
INVARIANTS
    TypeOK
    OwnerHasTheRow
    
    ForwardedIsAnswerable
    ReplyStoredOnce
    AnsweredOnce
