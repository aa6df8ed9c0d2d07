SPECIFICATION SubscriptionSpec
CONSTANTS
    o1 = o1
    o2 = o2
    r1 = r1
    r2 = r2
    NULL = NULL
    Orders = {o1, o2}
    Reviewers = {r1, r2}
    Trial = 1
    Month = 2
    MaxNow = 3
CHECK_DEADLOCK FALSE
INVARIANTS
    OneCurrent
    ConfirmedOrderPaidFor
PROPERTIES
    PrepaidTimeKept
