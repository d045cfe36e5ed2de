SPECIFICATION Spec
CONSTANTS
    Threads = {t1, t2}
    Ptrs = {p1, p2}
    Sizes = {1}
    DeviceCount = 2
    MaxQueue = 2
    MultithreadWorkarounds = FALSE
    NoPtr = NoPtr
SYMMETRY Symmetric
INVARIANTS
    PendingWorkIsLive
CHECK_DEADLOCK FALSE
