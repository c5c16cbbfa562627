CONSTANTS
    pc1 = pc1
    pc2 = pc2
    z1 = z1
    z2 = z2
    t1 = t1
    t2 = t2
    Sources = {pc1, pc2}
    Zones = {z1, z2}
    ZoneOf <- SharedZone
    TrackIds = {t1, t2}
    Snapshots <- AlarmAndEnd
    InactiveTimeout = 1
    MaxRequests = 3
    MaxRestarts = 0
SPECIFICATION Spec
PROPERTIES
    AlarmLeavesIncidentOpen
CHECK_DEADLOCK FALSE
