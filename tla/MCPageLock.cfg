SPECIFICATION FairSpec
CONSTANTS
    c1 = c1
    c2 = c2
    r1 = r1
    old1 = old1
    Clients <- MCClients
    Readers <- MCReaders
    OldPages <- MCOldPages
    Slots <- TwoSlots
    kLockIntentSlots = 3
    USED_BIT = 64
    FirstVersion = 62
    Requests <- TwoClients
    MaxOps = 3
    MaxReads = 1
INVARIANTS
    LockExclusive
    ReadConsistent
    ValuesBelong
    RecordsIntact
    QueueOwned
PROPERTIES
    OperationsEnd
CHECK_DEADLOCK FALSE
