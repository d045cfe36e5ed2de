SPECIFICATION Spec
CONSTANTS
    Threads = {t1, t2}
    Devices = {d1}
    Buffers = {b1, b2}
    Metas = {m1, m2}
    MaxParts = 2
    MaxQueue = 2
    MultithreadWorkarounds = TRUE
    NoThread = NoThread
    NoBuffer = NoBuffer
    NoMeta = NoMeta
    NoCall = NoCall
SYMMETRY Symmetric
INVARIANT AllCopiesSerialized
CHECK_DEADLOCK FALSE
