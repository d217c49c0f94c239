SPECIFICATION Spec
CONSTANTS
    Clients = {c1, c2}
    NumSlots = 1
    Flushers = {f1}
    kWindow = 1
    MaxBlock = 2
    MaxPuts = 1
    MaxFrees = 1
    MaxCrashes = 2
SYMMETRY ClientSymmetry
INVARIANTS
    RecoveryComplete
    CeilingCoversRecords
    PendingExact
    RetireNeverFatal
CHECK_DEADLOCK FALSE
