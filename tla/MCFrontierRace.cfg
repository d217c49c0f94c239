SPECIFICATION FairSpec
CONSTANTS
    Clients = {c1, c2}
    NumSlots = 2
    Flushers = {f1}
    kWindow = 1
    MaxBlock = 2
    MaxPuts = 1
    MaxFrees = 0
    MaxCrashes = 0
INVARIANTS
    FrontierDurable
PROPERTIES
    BackpressureEnds
CHECK_DEADLOCK FALSE
