SPECIFICATION Spec
CONSTANTS
    keyA = keyA
    keyB = keyB
    keyC = keyC
    Keys <- MCKeys
    Home <- OneChain
    NumMain = 1
    NumOverflow = 1
    NumSlots = 1
    MaxWrites = 3
    MaxGroup = 2
    MaxRemoves = 1
    MaxLookups = 1
    MaxFailures = 1
INVARIANTS
    AckedDurable
    OneEntryPerKey
    ChainsDisjoint
    LookupFresh
CHECK_DEADLOCK FALSE
SYMMETRY KeySymmetry
