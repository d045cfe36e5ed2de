SPECIFICATION FairSpec
CONSTANTS
    Ranks = {r1, r2, r3}
    Program <- Mixed
    SegmentMBs <- Settings
    BytesPerMB = 2
    DefaultMB = 2
    MaxMB = 3
    MaxBytes = 64
    MaxQueue = 3
    Unset = Unset
    Malformed = Malformed
INVARIANTS
    NothingSpoiled
    CallsWithinBounds
PROPERTIES
    PromiseSpec
    EventuallyReduced
CHECK_DEADLOCK FALSE
