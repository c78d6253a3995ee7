SPECIFICATION FairSpec
CONSTANTS
    r1 = r1
    b1 = b1
    b2 = b2
    NoCall = NoCall
    Calls <- MCCalls
    Prio <- MCPrio
    Capacities <- MCCapacities
    MaxConcurrent = 1
    InitCapacity = 1
    MaxStops = 2
INVARIANTS
    InFlightBound
    NoSlotLost
    StrandedBound
    HpCounts
    BoundedOvertaking
    BurstBound
PROPERTIES
    Resolved
CHECK_DEADLOCK FALSE
