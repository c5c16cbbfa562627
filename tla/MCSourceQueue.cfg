CONSTANTS
    Sources = {pc1, pc2}
    MaxRequests = 4
    pc1 = pc1
    pc2 = pc2
SPECIFICATION FairSpec
INVARIANTS
    OneAtATimeInOrder
    NoLeakedEntry
PROPERTIES
    EveryRequestSettles
    ImplementsSerialQueue
CHECK_DEADLOCK FALSE
