SPECIFICATION Spec
CONSTANTS
    Data <- MCData
    Noise <- MCNoise
    Hours = {8, 9}
    MaxRecent = 1
    MaxHistory = 1
    MaxReceived = 2
    Operators = {o1, o2}
    o1 = o1
    o2 = o2
    Statuses = {"NEW", "CONFIRMED"}
    InitialStatus = "NEW"
    MaxLogs = 2
    Pool <- MCPool
    HistoryFilters <- MCHistoryFilters
    SortFields = {"occurredAt", "zone", "status"}
    SortOrders = {"asc", "desc"}
    HistoryLimit = 1
    Reviews = {"NEW", "CONFIRMED"}
    Hour = 4
    Day = 8
    Offset = 4
    WeekDays = 3
    FirstDay <- MCFirstDay
    HourlyUpTo = 1
    DailyUpTo = 3
    WeeksShown = 2
    MonthsShown = 2
    Tables <- MCTables
    EventIds = {1}
    Inputs <- MCInputs
    Nows <- MCNows
    Zones = {"z1"}
    Dates = {0, 1, 2}
    SeriesOf <- MCSeriesOf
    Shifts <- MCShifts
    MaxChoices = 3
    Filters = {"f1", "f2"}
    MaxPage = 3
    MaxLoads = 3
    Events = {"a", "b", "c"}
    ListLength = 2
    MaxReloads = 4
    StoredAlarms <- MCStoredAlarms
    OtherAlarms = {"x"}
    RecentLimit = 1
    VisibleLimit = 2
    LongestDelay = 2
    MaxLoading = 2
    MaxFaults = 1
    MaxVisits = 2
    MaxPushes = 1
    Tracks = {"t1"}
    Delay = 2
    MaxTime = 4
    MaxRuns = 3
    MaxTicks = 6
    Nothing = Nothing
    Cameras = {"camera-1", "camera-2"}
    Default = "camera-1"
    Vehicles = {"v1", "v2"}
    Confirm = 2
    MaxEvents = 1
    MaxGeneration = 2
    MaxSaves = 1
INVARIANTS OnlySoundPacketsCount AuditExplainsStatus HistoryIsReadToTheEnd ChartPartitionsRange PagesShowWhatIsAskedFor AlarmsEscalateAndEnd StreamStatusIsTrue VisionShowsWhatIsSet
CHECK_DEADLOCK FALSE
