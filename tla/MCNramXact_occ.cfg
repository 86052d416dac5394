CONSTANTS
    b1 = b1
    b2 = b2
    NoValue = NoValue
    Backends = {b1, b2}
    Keys = {1, 2, 3}
    TagSpace = 2
    InitialKeys = {1, 2}
    Isolations = {"SER"}
    Commands = {"SELECT", "UPDATE", "INSERT"}
    AccessPaths = {"index"}
    MaxXid = 2
    MaxStatements = 2
    MaxLoads = 0
    Failures = {"abort", "late_abort", "service_stop"}
    NAccessCap = 0
    PolicyActions = {}
    InitialPolicy <- PolicyOcc
SPECIFICATION Spec
SYMMETRY Symmetry
INVARIANTS
    TypeOK
    SerialReads
    NoDirtyRead
    DeadlockNeedsCollision
CHECK_DEADLOCK FALSE
