SPECIFICATION SearchFairSpec
CONSTANTS
    o1 = o1
    r1 = r1
    k1 = k1
    k2 = k2
    NULL = NULL
    Orders = {o1}
    Reviewers = {r1}
    Reservations = {k1, k2}
    LimitOf <- OneEach
    Concurrent = FALSE
    Trial = 1
    Month = 1
    TTL = 1
    MaxNow = 1
    CreationLimit = 2
    Hour = 1
    Crashes = TRUE
CHECK_DEADLOCK FALSE
INVARIANTS
    ChargedOnlyForResults
    AnsweredRunsArePaid
    TimelyUseStays
PROPERTIES
    ExpiredSettles
