CONSTANTS
    c1 = c1
    c2 = c2
    NoValue = NoValue
    Clients = {c1}
    Keys = {1, 2}
    InitialKeys = {1, 2}
    MaxCalls = 3
    ReqCap = 2
    RespCap = 2
    RangeCap = 2
SPECIFICATION Spec
INVARIANTS
    GetAnswersItsKey
CHECK_DEADLOCK FALSE
