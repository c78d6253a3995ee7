SPECIFICATION Spec
CONSTANTS
    r1 = r1
    b1 = b1
    b2 = b2
    NoCall = NoCall
    Calls <- MCCalls
    Prio <- MCPrio
    Capacities <- MCCapacities
    MaxConcurrent = 1
    InitCapacity = 1
    MaxStops = 1
PROPERTIES
    StopCancelsPending
CHECK_DEADLOCK FALSE
