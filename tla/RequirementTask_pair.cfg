SPECIFICATION UnpurgedSpec
CONSTANTS
    j1 = j1
    j2 = j2
    t1 = t1
    t2 = t2
    c1 = c1
    w1 = w1
    w2 = w2
    NULL = NULL
    Jobs = {j1}
    Tasks = {t1, t2}
    Copies = {c1}
    Workers = {w1}
    JobOf <- SameJob
    MaxCalls = 1
    MaxInvalid = 1
    MaxRunning = 1
    LeaseTicks = 1
    MaxRevision = 2
    ClaimMayRaise = TRUE
CHECK_DEADLOCK FALSE
INVARIANTS
    OneEditableDraft
    ReplacedDraftIntact
    ArchivedJobIsQuiet
PROPERTIES
    ArchivedDraftsFrozen
    LifecycleSpec
