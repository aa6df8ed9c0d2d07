SPECIFICATION ConfigSpec
CONSTANTS
    a1 = a1
    a2 = a2
    w1 = w1
    w2 = w2
    NULL = NULL
    Attempts = {a1, a2}
    Workers = {w1, w2}
    MaxCalls = 3
    MaxInvalid = 2
    MaxFaults = 2
SYMMETRY ConfigSymmetry
CHECK_DEADLOCK FALSE
INVARIANTS
    NoLostUpdate
PROPERTIES
    EnabledAfterProbes
    ForgottenOnlyByClaim
