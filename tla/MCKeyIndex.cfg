SPECIFICATION Spec
CONSTANTS
    NumOffsets = 3
    Address <- ThreePages
    kBlockLow = 2
    kPage = 2
    kDataOff = 2
    Base = 0
    MaxOps = 2
    MaxGets = 1
    MaxRivals = 1
    MaxOthers = 1
INVARIANTS
    FreshReads
    SingleLive
    QuietConverged
    HotNamesKey
CHECK_DEADLOCK FALSE
