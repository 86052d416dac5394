CONSTANTS
    b1 = b1
    b2 = b2
    NoValue = NoValue
    Backends = {b1, b2}
    Keys = {1, 2, 3}
    TagSpace = 2
    InitialKeys = {2}
    Isolations = {"SER"}
    Commands = {"UPDATE", "INSERT"}
    AccessPaths = {"index"}
    MaxXid = 2
    MaxStatements = 2
    MaxLoads = 1
    Failures = {}
    NAccessCap = 0
    PolicyActions <- ActionsNew
    InitialPolicy <- PolicyOcc
SPECIFICATION FairSpec
INVARIANTS
    SerialReads
PROPERTIES
    CommitEnds
CHECK_DEADLOCK FALSE
