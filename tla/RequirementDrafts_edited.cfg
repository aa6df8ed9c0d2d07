SPECIFICATION DraftsSpec
CONSTANTS
    m1 = m1
    m2 = m2
    i1 = i1
    i2 = i2
    Members = {m1, m2}
    Items = {i1, i2}
    MaxDrafts = 3
    MaxRevision = 4
CONSTRAINT LaterDraftsShort
SYMMETRY DraftSymmetry
CHECK_DEADLOCK FALSE
INVARIANTS
    EveryItemDecided
    VersionsBuildOnLatest
PROPERTIES
    WritesWhatWasRead
