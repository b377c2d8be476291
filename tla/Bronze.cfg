SPECIFICATION LiveSpec
CONSTANTS
    Retention = 2
    RetainLast = 1
    MaxRewrites = 1
    MaxOutage = 1
    MaxQuiet = 1
    MaxRecords = 2
    MaxSnapshots = 3
    MaxClock = 3
    MaxFailures = 1
    MaxResets = 1
INVARIANTS
    TypeOK
    BInv
    PositionRetained
    CopiedOnce
    NoGaps
PROPERTIES
    ReadsAsFeed
    FlowsOn
CHECK_DEADLOCK FALSE
