SPECIFICATION AccessSpec
CONSTANTS
    u1 = u1
    u2 = u2
    u3 = u3
    t1 = t1
    t2 = t2
    i1 = i1
    i2 = i2
    i3 = i3
    q1 = q1
    q2 = q2
    NULL = NULL
    Users = {u1, u2, u3}
    Admins = {u3}
    Tenants = {t1, t2}
    Invitations = {i1, i2, i3}
    Requests = {q1, q2}
SYMMETRY AccessSymmetry
CHECK_DEADLOCK FALSE
INVARIANTS
    OwnersNeverLockedOut
    OneTenantUnlessOverlap
