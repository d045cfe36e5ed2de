SPECIFICATION Spec
CONSTANTS
    Threads = {t1, t2}
    DeviceCount = 2
SYMMETRY Symmetric
INVARIANTS
    ObjectsOnTheirDevice
    ReadyWhenReturned
    DeviceKept
    OneMode
    SomeoneRuns
CHECK_DEADLOCK FALSE
