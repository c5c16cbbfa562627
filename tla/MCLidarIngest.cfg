CONSTANTS
    pc1 = pc1
    pc2 = pc2
    z1 = z1
    z2 = z2
    t1 = t1
    t2 = t2
    Sources = {pc1, pc2}
    Zones = {z1, z2}
    ZoneOf <- OneZoneEach
    TrackIds = {t1, t2}
    Snapshots <- MixedSnapshots
    InactiveTimeout = 1
    MaxRequests = 3
    MaxRestarts = 1
SPECIFICATION Spec
INVARIANTS
    OneOpenIncidentPerZone
    StatsMatchRecords
    AlarmsHaveIncidents
PROPERTIES
    AlarmLeavesIncidentOpen
    TimesNeverGoBack
    NoRepeatedAlarm
    QueueIsSerial
CHECK_DEADLOCK FALSE
