SPECIFICATION Spec
CONSTANTS
    Clients = {c1, c2}
    NumSlots = 1
    Flushers = {f1}
    kWindow = 1
    MaxBlock = 2
    MaxPuts = 1
    MaxFrees = 0
    MaxCrashes = 0
SYMMETRY ClientSymmetry
INVARIANTS
    AckedRecordsSurvive
CHECK_DEADLOCK FALSE
