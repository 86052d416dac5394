CONSTANTS
    s1 = s1
    s2 = s2
    NoSession = NoSession
    Sessions = {s1}
    Task <- AllInference
    NBatches = 2
    TableBatches = 2
    QueueMax = 2
    CacheSize = 2
    MaxOpen = 1
    OpenAfterFailure = FALSE
    Failures = {}
SPECIFICATION FairSpec
PROPERTIES
    TasksEnd
CHECK_DEADLOCK FALSE
