SPECIFICATION FairSpec
CONSTANTS
    Threads = {t1, t2}
    Waiters = {t1}
    DeviceCount = 2
    Flags = {"kDefault", "kInterprocess"}
    Plans <- TwoStreams
    MaxDestroyed = 1
    MaxEvents = 1
    MaxItems = 3
INVARIANTS
    OrderKept
    ToldIsDone
PROPERTIES
    CallsGetThrough
CHECK_DEADLOCK FALSE
