SPECIFICATION Spec
CONSTANTS
    j1 = j1
    j2 = j2
    t1 = t1
    t2 = t2
    c1 = c1
    w1 = w1
    w2 = w2
    NULL = NULL
    Jobs = {j1}
    Tasks = {t1}
    Copies = {}
    Workers = {w1, w2}
    JobOf <- SameJob
    MaxCalls = 3
    MaxInvalid = 2
    MaxRunning = 1
    LeaseTicks = 2
    MaxRevision = 1
    ClaimMayRaise = TRUE
SYMMETRY WorkerSymmetry
CHECK_DEADLOCK FALSE
INVARIANTS
    CallBudget
    EarlierCallsSettled
    SucceededByNewestCall
    DraftIffSucceeded
PROPERTIES
    
    LapsedLeaseIsOver
