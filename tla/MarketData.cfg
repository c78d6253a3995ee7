SPECIFICATION Spec
CONSTANTS
    sx = sx
    sy = sy
    sz = sz
    r1 = r1
    r2 = r2
    r3 = r3
    p1 = p1
    p2 = p2
    b1 = b1
    b2 = b2
    Providers = {"yfinance", "finnhub"}
    UpSymbols = {1, 2, 3}
    Requests <- MCRequests
    ShardCap = 2
    ConnLimit = 3
    KeyCounts = {0, 2}
    MaxAsks = 3
    MaxCollectors = 2
    MaxUpMishaps = 2
    Symbols = {sx, sy, sz}
    Pages <- MCPages
    MaxSubs = 2
    DefaultSubs = 3
    MaxSessions = 2
    MaxPages = 2
    MaxTicks = 2
    MaxGaps = 1
    Callers = {r1, r2, r3}
    Processes = {p1, p2}
    MaxStale = 1
    MaxFaults = 2
    Lists <- MCLists
    Readers = {r1, r2}
    Builders = {b1, b2}
    MaxChanges = 3
    MaxFailures = 1
INVARIANTS
    SymbolsArePlaced
    InSync
    SessionsAreForgotten
    PageIsFollowed
    TornOnlyByOverlap
    FetchedOnce
    InvalidationHolds
PROPERTIES
    InOrder
    StaleListsGo
\* The browser may stop, every request ends and nobody need ask for a list again.
CHECK_DEADLOCK FALSE
