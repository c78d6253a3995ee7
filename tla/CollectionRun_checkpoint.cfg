SPECIFICATION Spec
CONSTANTS
    s1 = s1
    s2 = s2
    c1 = c1
    c2 = c2
    w1 = w1
    w2 = w2
    Free = Free
    Ghost = Ghost
    Symbols <- MCSymbols
    Stored <- MCStored
    Runs <- MCRuns
    Workers <- MCWorkers
    Home <- MCHome
    BatchSize = 1
    MaxMishaps = 0
PROPERTIES
    DroppedOnSuccess
CHECK_DEADLOCK FALSE
