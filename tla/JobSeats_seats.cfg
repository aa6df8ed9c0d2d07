SPECIFICATION JobSpec
CONSTANTS
    o1 = o1
    r1 = r1
    k1 = k1
    k2 = k2
    k3 = k3
    j1 = j1
    j2 = j2
    a1 = a1
    a2 = a2
    NULL = NULL
    Orders = {o1}
    Reviewers = {r1}
    Reservations = {k1, k2}
    LimitOf <- OneSeat
    Concurrent = TRUE
    Jobs = {j1, j2}
    Requests = {a1, a2}
    Trial = 1
    Month = 1
    TTL = 1
    MaxNow = 1
CONSTRAINT NoCancelRequested
SYMMETRY SeatSymmetry
CHECK_DEADLOCK FALSE
INVARIANTS
    ActiveJobsSeated
    ActiveJobsWithinPlan
    SeatsAccounted
    NoOverspend
