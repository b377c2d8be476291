SPECIFICATION LiveSpec
CONSTANTS
    e1 = e1
    e2 = e2
    e3 = e3
    EventIds = {e1, e2, e3}
    NoId = NoId
    CriticalRules <- Rules
    Readings <- CloseReadings
    Skewed = {}
    FirstHorizon = 7
    LastHorizon = 7
    WatermarkDelay = 2
    MaxLateness = 1
    MaxBronze = 3
    MaxRuns = 2
    MaxBackfills = 1
    MaxExpired = 1
    MaxReplays = 0
INVARIANTS
    RowsConserved
    IInv
PROPERTIES
    EveryEventDecided
CHECK_DEADLOCK FALSE
