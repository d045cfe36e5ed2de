SPECIFICATION Spec
CONSTANTS
    Threads = {t1, t2}
    DeviceCount = 1
    Sizes = {1}
    MaxBytes = 1
    BytesPerMB = 2
SYMMETRY Symmetric
INVARIANTS
    WatermarksCoverUse
PROPERTIES
    PeakCoversUse
    ResetForgets
    UsedWithinReserved
