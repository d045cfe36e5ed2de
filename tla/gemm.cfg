SPECIFICATION GemmSpec
CONSTANTS
    Jobs <- AllJobs
    Values = {"unset", "1", "yes"}
    MaxCalls = 2
    MaxChanges = 1
INVARIANTS
    ResultIsProduct
    PrecisionKept
CHECK_DEADLOCK FALSE
