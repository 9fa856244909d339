SPECIFICATION Spec
CONSTANTS
    tardy = tardy
    steady = steady
    fast = fast
    Upstream = {tardy, steady, fast}
    Duration <- Durations
    ListLimit = 2
    Unit = 4
    Lookback = 2
    MaximumGap = 1
    MinimumResponses = 1
    Threshold = 2
    FirstTime = 3
    MaxTime = 6
    MaxResponses = 3
    MaxRuns = 3
INVARIANTS
    PooledIsTrue
    VerdictIsTrue
    HistorySuffices
CHECK_DEADLOCK FALSE
