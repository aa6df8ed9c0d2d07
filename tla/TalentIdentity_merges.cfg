SPECIFICATION TalentSpec
CONSTANTS
    a = a
    b = b
    c = c
    s1 = s1
    s2 = s2
    Ids = {a, b, c}
    Searches = {s1, s2}
    MaxTalents = 3
SYMMETRY TalentSymmetry
CHECK_DEADLOCK FALSE
INVARIANTS
    NoOrphanTalent
    AnsweredByOwnTalent
    CitedTalentsStay
PROPERTIES
    IdentityMovesToElder
