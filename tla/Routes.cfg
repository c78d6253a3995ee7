SPECIFICATION SrSpec
CONSTANTS
    k1 = k1
    p1 = p1
    Processes = {p1}
    Keys = {k1}
    NoKey = NoKey
    NoRouter = NoRouter
    EnvKey = NoKey
    EnvKeys <- MCNoKeys
    Rows <- MCRows
    Limit = 1
    Window = 1
    Horizon = 0
    MaxUpdates = 1
    MaxLosses = 0
    EnvProviders = {}
INVARIANTS
    RoutesFollowKeys
CHECK_DEADLOCK FALSE
