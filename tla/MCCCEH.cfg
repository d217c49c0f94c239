SPECIFICATION FairSpec
CONSTANTS
    a00 = a00
    b00 = b00
    c01 = c01
    d10 = d10
    e11 = e11
    f10 = f10
    Threads = {t1, t2}
    Keys <- MCKeys
    Bits <- MCBits
    Loc <- MCLoc
    Filled <- MCFilled
    Requests <- MCRequests
    InitDepth = 1
    MaxDepth = 2
    kNumSlot = 2
    ProbeLength = 2
    MaxOps = 3
INVARIANTS
    SemaExact
    DirectoryExact
    QuietFound
PROPERTIES
    InsertsEnd
CHECK_DEADLOCK FALSE
