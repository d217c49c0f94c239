SPECIFICATION FairSpec
CONSTANTS
    c1 = c1
    c2 = c2
    Clients <- MCClients
    NumPages = 2
    StartPages <- LastOnly
    AllocBlocks = 2
    ResizePercent = 34
    RunwayBlocks = 4
    MaxClaims = 3
    MaxCrashes = 1
INVARIANTS
    OneOwner
    RecordsKept
    IndexInRange
    UsedIsMapped
PROPERTIES
    ClaimsEnd
CHECK_DEADLOCK FALSE
