CONSTANTS
    c1 = c1
    c2 = c2
    NoValue = NoValue
    Clients = {c1, c2}
    Keys = {1}
    InitialKeys = {}
    MaxCalls = 4
    ReqCap = 2
    RespCap = 1
    RangeCap = 0
SPECIFICATION FairSpec
INVARIANTS
    TypeOK
    OnlyCancelsLeaveAnswers
    OnlyCrowdsSleep
PROPERTIES
    IsSessionStore
    CallsReturn
CHECK_DEADLOCK FALSE
