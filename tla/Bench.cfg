SPECIFICATION FairSpec
CONSTANTS
    kWarmupIters = 2
    kMeasuredIters = 3
    RingCapacity = 2
    Durations = {1, 2}
    Cores = {0, 1}
    NoCore = NoCore
    NoOrder = NoOrder
    NoItem = NoItem
INVARIANTS EachCallDoesItsWork PinReportHolds
PROPERTIES RunsToTheEnd
CHECK_DEADLOCK FALSE
