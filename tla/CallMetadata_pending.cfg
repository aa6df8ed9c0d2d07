SPECIFICATION MetadataFairSpec
CONSTANTS
    c1 = c1
    w1 = w1
    w2 = w2
    NULL = NULL
    Calls = {c1}
    Workers = {w1, w2}
    MaxFaults = 1
CHECK_DEADLOCK FALSE
INVARIANTS
    PendingIsPursued
    GivenUpAfterDeadline
PROPERTIES
    MetadataSettles
