SPECIFICATION LiveSpec
CONSTANTS
    Facts = {"fact_vehicle_daily", "fact_trip"}
    TripFacts = {"fact_trip"}
    Trips = {1, 2}
    Lookback = 3
    Staleness = 0
    Retries = 1
    MaxLag = 1
    MaxSpan = 1
    MaxGap = 1
    MaxRows = 3
    MaxClock = 4
    MaxFailures = 2
INVARIANTS
    TypeOK
    ReportsWholeRun
    DInv
PROPERTIES
    BuildsAsFullRefresh
    RunEnds
CHECK_DEADLOCK FALSE
