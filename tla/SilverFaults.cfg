SPECIFICATION Spec
CONSTANTS
    e1 = e1
    e2 = e2
    e3 = e3
    EventIds = {e1, e2, e3}
    NoId = NoId
    CriticalRules <- Rules
    Readings <- SpreadReadings
    Skewed <- SlightlyAhead
    FirstHorizon = 6
    LastHorizon = 7
    WatermarkDelay = 2
    MaxLateness = 5
    MaxBronze = 3
    MaxRuns = 3
    MaxBackfills = 1
    MaxExpired = 0
    MaxReplays = 1
VIEW WithoutCounters
INVARIANTS
    TypeOK
    OneRowPerEvent
    MergeNeverAborts
    RepeatsSuppressed
    BothOnlyAhead
PROPERTIES
    ReplayAddsNothing
    OneVerdict
CHECK_DEADLOCK FALSE
