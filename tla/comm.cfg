SPECIFICATION FairSpec
CONSTANTS
    NRanks = 3
    Generations = 2
    Scripts <- MCScripts
    MaxDepth = 2
    Null = Null
INVARIANTS
    OwnClique
    HandlesHeld
    Delivered
PROPERTIES
    EventuallyEnded
CHECK_DEADLOCK FALSE
