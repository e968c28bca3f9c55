CONSTANTS
    Keys <- MCKeys
    NoKey = NoKey
    MaxI64 = 3
    Shells = {s1, s2}
    Ttls <- MCTtls
    Alpns = {"/snappipe/0", "/snappipe/tunnel/0"}
    DEFAULT_ALPN = "/snappipe/0"
    MaxCommands = 3
    MaxClock = 1
SYMMETRY Sym
SPECIFICATION Spec
INVARIANTS
    TypeOK
    KeyFilesAgree
    VerifiedIsValid
    TunnelIsAuthorised
CHECK_DEADLOCK FALSE
