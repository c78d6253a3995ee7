SPECIFICATION FairSpec
CONSTANTS
    w1 = w1
    w2 = w2
    Nobody = Nobody
    Gone = Gone
    Workers <- MCWorkers
    MaxLapses = 1
    MaxFaults = 2
    MaxRestarts = 1
    MaxRelinquishes = 1
INVARIANTS
    OneScheduler
    SchedulerKnown
PROPERTIES
    OthersKeepOut
    StepsDown
    Reelected
