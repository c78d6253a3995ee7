SPECIFICATION UpSpec
CONSTANTS
    Providers = {"yfinance"}
    UpSymbols = {1, 2, 3, 4, 5, 6, 7, 8, 9, 10, 11, 12}
    Requests <- MCSessions
    ShardCap = 8
    ConnLimit = 10
    KeyCounts = {0}
    MaxAsks = 3
    MaxCollectors = 1
    MaxUpMishaps = 0
INVARIANTS
    WithinConnection
CHECK_DEADLOCK FALSE
