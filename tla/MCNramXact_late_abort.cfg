CONSTANTS
    b1 = b1
    b2 = b2
    NoValue = NoValue
    Backends = {b1, b2}
    Keys = {1, 2}
    TagSpace = 4
    InitialKeys = {1, 2}
    Isolations = {"SER"}
    Commands = {"SELECT", "UPDATE"}
    AccessPaths = {"index"}
    MaxXid = 2
    MaxStatements = 1
    MaxLoads = 0
    Failures = {"late_abort"}
    NAccessCap = 0
    PolicyActions = {}
    InitialPolicy <- PolicyOcc
SPECIFICATION Spec
SYMMETRY Symmetry
INVARIANTS
    ReadsOnlyCommitted
CHECK_DEADLOCK FALSE
