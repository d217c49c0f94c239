SPECIFICATION Spec
CONSTANTS
    Threads = {t1, t2}
    Flushers = {f1}
    Fingerprints = {a, b, c}
    kSlotsPerBucket = 2
    kMaxUpsertRetries = 2
    MaxOps = 3
INVARIANTS
    SizeExact
    OneSlotPerFp
    SweepSuffices
    QuietUnpinned
    PinnedKept
CHECK_DEADLOCK FALSE
SYMMETRY HotSymmetry
