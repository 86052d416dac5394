CONSTANTS
    b1 = b1
    b2 = b2
    NoValue = NoValue
    Backends = {b1, b2}
    Keys = {1, 2}
    TagSpace = 4
    InitialKeys = {1, 2}
    Isolations = {"RC"}
    Commands = {"SELECT", "UPDATE"}
    AccessPaths = {"index", "scan", "tid"}
    MaxXid = 2
    MaxStatements = 2
    MaxLoads = 0
    Failures = {"abort"}
    NAccessCap = 0
    PolicyActions = {}
    InitialPolicy <- PolicyTwoPL
SPECIFICATION Spec
SYMMETRY Symmetry
INVARIANTS
    NoLostUpdate
    LockedReadsStable
CHECK_DEADLOCK FALSE
