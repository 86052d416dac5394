CONSTANTS
    w1 = w1
    w2 = w2
    r1 = r1
    NoMsg = NoMsg
    Writers = {w1, w2}
    Readers = {r1}
    BufSize = 3
    HeaderSize = 1
    Sizes <- MCSizes
    Waits <- MCWaits
SPECIFICATION FairSpec
INVARIANTS
    TypeOK
    NoMissedMessage
PROPERTIES
    IsFifo
    RetriedUnderTraffic
    StoppedCallsEnd
CHECK_DEADLOCK FALSE
