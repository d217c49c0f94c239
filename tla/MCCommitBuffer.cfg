SPECIFICATION Spec
CONSTANTS
    Producers = {p1, p2}
    kNumLanes = 2
    num_flushers = 2
    kPerCall = 1
    MaxPushes = 2
    MaxWaits = 1
SYMMETRY ProducerSymmetry
INVARIANTS
    SizeExact
    LaneOrder
    FlushWaits
CHECK_DEADLOCK FALSE
