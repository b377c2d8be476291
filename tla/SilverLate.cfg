SPECIFICATION Spec
CONSTANTS
    e1 = e1
    e2 = e2
    e3 = e3
    EventIds = {e1, e2, e3}
    NoId = NoId
    CriticalRules <- Rules
    Readings <- SpreadReadings
    Skewed = {}
    FirstHorizon = 7
    LastHorizon = 7
    WatermarkDelay = 2
    MaxLateness = 4
    MaxBronze = 3
    MaxRuns = 2
    MaxBackfills = 0
    MaxExpired = 0
    MaxReplays = 0
VIEW WithoutCounters
INVARIANT RowsConserved
CHECK_DEADLOCK FALSE
