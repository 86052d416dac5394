CONSTANTS
    s1 = s1
    s2 = s2
    NoSession = NoSession
    Sessions = {s1, s2}
    Task <- TrainThenInfer
    NBatches = 10
    TableBatches = 11
    QueueMax = 2
    CacheSize = 2
    MaxOpen = 1
    OpenAfterFailure = FALSE
    Failures = {"task", "timeout"}
SPECIFICATION FairSpec
INVARIANTS
    TypeOK
    FlowControl
    HealthyOwnEvents
    BatchComes
PROPERTIES
    IsBatchStream
    ServedTasksEnd
CHECK_DEADLOCK FALSE
