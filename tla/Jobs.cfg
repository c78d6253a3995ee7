SPECIFICATION Spec
CONSTANTS
    w1 = w1
    w2 = w2
    Workers = {w1, w2}
    Kinds <- MCKinds
    Units = 4
    Limit = 2
    MaxTasks = 2
    MaxMishaps = 1
    Collectors <- MCCollectors
    Items = 25
    StreakLimit = 10
SYMMETRY Interchangeable
INVARIANTS
    JobsAreExclusive
    JobsAreRecorded
    BreakerHolds
    GivesUp
PROPERTIES
    OthersKeepProgress
\* Every task ends and every collection is through, or gives up.
CHECK_DEADLOCK FALSE
