SPECIFICATION Spec
CONSTANTS
    Threads = {t1, t2}
    Ptrs = {p1, p2}
    Sizes = {1, 2}
    DeviceCount = 2
    MaxQueue = 1
    MultithreadWorkarounds = TRUE
    NoPtr = NoPtr
SYMMETRY Symmetric
INVARIANTS
    TypeOK
    CurrentIsSum
    NoUnderflow
    RecordsDescribeBlocks
    UnchargedOnlyInFlight
    PendingWorkIsLive
PROPERTIES
    LedgerSpec
CHECK_DEADLOCK FALSE
