SPECIFICATION FairSpec
CONSTANTS
    w1 = w1
    w2 = w2
    Nobody = Nobody
    Gone = Gone
    Workers <- MCWorkers
    MaxLapses = 0
    MaxFaults = 0
    MaxRestarts = 0
    MaxRelinquishes = 0
PROPERTIES
    LostLeaderStops
