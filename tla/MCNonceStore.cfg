CONSTANTS
    t1 = t1
    t2 = t2
    x1 = x1
    Threads <- MCThreads
    Persisters <- MCThreads
    Nonces <- MCNonces
    TtlArg = 3
    DefaultTtl = 4
    MaxSkew = 1
    MaxClock = 5
    MaxCalls = 4
    MaxCrashes = 1
SPECIFICATION Spec
INVARIANTS
    TypeOK
    CountersBalance
PROPERTIES
    NoEarlyReplay
    ReuseIsCounted
CHECK_DEADLOCK FALSE
