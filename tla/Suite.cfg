SPECIFICATION SuiteSpec
CONSTANTS
    e1 = e1
    e2 = e2
    e3 = e3
    EventIds = {e1, e2, e3}
    NoId = NoId
    CriticalRules <- Rules
    Readings <- SuiteReadings
    Skewed = {}
    FirstHorizon = 7
    LastHorizon = 7
    WatermarkDelay = 2
    MaxLateness = 5
    MaxBronze = 3
    MaxRuns = 2
    MaxBackfills = 0
    MaxExpired = 0
    MaxReplays = 1
    Tolerance = 0
VIEW WithBalances
INVARIANTS
    SuiteTypeOK
    SuiteInv
    QuietSuitePasses
    ExclusiveAnswer
PROPERTIES
    ConservationAlarm
    ConservationAnswer
    ReplayAlarm
CHECK_DEADLOCK FALSE
