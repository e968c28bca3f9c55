CONSTANTS
    t1 = t1
    t2 = t2
    n1 = n1
    Threads <- MCThreads
    Nodes <- MCNodes
    Rates <- MCRates
    Period = 2
    DEFAULT_RATE_PER_MIN = 2
    DefaultArg = 0
    MaxClock = 3
    MaxCalls = 4
SPECIFICATION Spec
SYMMETRY Symmetry
INVARIANTS
    TypeOK
    Budget
    NeverStarved
    CountersBalance
CHECK_DEADLOCK FALSE
