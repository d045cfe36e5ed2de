SPECIFICATION FairSpec
CONSTANTS
    Launches <- MCLaunches
    MaxGrid = 3
    MaxBlock = 8
    WarpSize = 2
    HistLimit = 3
    SmTimes = 1
    TileHeight = 2
INVARIANTS
    EachOnItsWay
    GradientComplete
    AtomicsInBounds
PROPERTIES
    EventuallyFinished
CHECK_DEADLOCK FALSE
