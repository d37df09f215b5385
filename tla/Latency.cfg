SPECIFICATION Spec
CONSTANTS
    Durations = {1, 2, 5}
    WarmupIters = 1
    MaxMeasured = 6
    Percentages <- MCPercentages
    Fine = 3
INVARIANTS StatsDescribeTimedCalls AnswerIsNearestRank
CHECK_DEADLOCK FALSE
