SPECIFICATION FileSpec
CONSTANTS
    Payload = {p1, p2}
    MaxWrites = 4
    MaxFailures = 3
INVARIANTS
    CheckpointSurvives
PROPERTIES
    SeqStrictlyOrdered
    RegisterSpec
CHECK_DEADLOCK FALSE
