SPECIFICATION Spec
CONSTANTS
    k1 = k1
    k2 = k2
    p1 = p1
    ta = ta
    tb = tb
    Processes = {p1}
    Keys = {k1, k2}
    NoKey = NoKey
    NoRouter = NoRouter
    EnvKey = NoKey
    EnvKeys <- MCNoKeys
    Rows <- MCRows
    Limit = 2
    Window = 2
    Horizon = 2
    MaxUpdates = 1
    MaxLosses = 1
    EnvProviders = {"tiingo", "tushare"}
    Jobs = {j1, j2, j3}
    Threads = 2
    MaxPools = 2
    MaxTurns = 1
    Tabs = {ta, tb}
    ApiCalls <- MCApiCalls
    MaxTokens = 2
    MaxFaults = 1
    Ids = {i1}
    News = {n1, n2}
    MaxRecords = 3
    ChunkSize = 2
    MaxTries = 2
    a6 = a6
    b6 = b6
    a4 = a4
    Width = 3
    PoolSize = 1
    PrefixArgs <- MCPrefixes
    V6 = {a6, b6}
    V4 = {a4}
    MaxChunks = 2
    BufferSize = 2
INVARIANTS
    KeyBudget
    EveryProviderHadItsChance
    NeverRefusedItsOwn
    RetryConverges
    StreamsAreWhole
    RotatedFirst
PROPERTIES
    HungPoolIsReplaced
CHECK_DEADLOCK FALSE
