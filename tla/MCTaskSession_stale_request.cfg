CONSTANTS
    s1 = s1
    s2 = s2
    NoSession = NoSession
    Sessions = {s1, s2}
    Task <- AllInference
    NBatches = 2
    TableBatches = 2
    QueueMax = 2
    CacheSize = 2
    MaxOpen = 1
    OpenAfterFailure = TRUE
    Failures = {"task"}
SPECIFICATION Spec
INVARIANTS
    OwnEvents
CHECK_DEADLOCK FALSE
