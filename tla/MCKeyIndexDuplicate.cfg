SPECIFICATION Spec
CONSTANTS
    NumOffsets = 2
    Address <- OnePage
    kBlockLow = 2
    kPage = 2
    kDataOff = 2
    Base = 0
    MaxOps = 1
    MaxGets = 0
    MaxRivals = 0
    MaxOthers = 0
INVARIANTS
    OneLiveOffset
CHECK_DEADLOCK FALSE
