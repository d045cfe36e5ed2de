SPECIFICATION Spec
CONSTANT NaN = NaN
INVARIANTS
    IndexKernelsRight
    PolicyRight
CHECK_DEADLOCK FALSE
