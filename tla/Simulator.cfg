SPECIFICATION LiveSpec
CONSTANTS
    v1 = v1
    v2 = v2
    NoEvent = NoEvent
    NoKind = NoKind
    None = None
    Null = Null
    Text = Text
    Blank = Blank
    Day = 1
    Ancient = 0
    Speeds = {1}
    Routes = {1, 2}
    Rests = {3}
    Capacity = 2
    Consumption = 1
    Fleet <- MCFleet
    HotVehicle = v2
    HotMultiplier = 2
    TICK = 2
    Delays = {1, 3}
    Kinds = {"unparseable_speed", "null_vehicle_id"}
    Ticks = 2
    QueueCapacity = 2
    MaxFailures = 1
INVARIANTS
    TypeOK
    ManifestTrue
    NeverMiscounted
    OneReadingPerId
    TripCoherent
    NothingOverdue
    RulesTellThem
    RunInv
PROPERTIES
    Terminates
CHECK_DEADLOCK FALSE
