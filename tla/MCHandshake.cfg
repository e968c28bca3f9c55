CONSTANTS
    c1 = c1
    c2 = c2
    op = op
    peer = peer
    NoKey = NoKey
    MaxI64 = 5
    Malformed = Malformed
    NoTicket = NoTicket
    Keys <- MCKeys
    Conns <- BothConns
    Verifying <- OneConn
    Tickets <- MCTickets
    IssuerKey = op
    ExpectedSubject = peer
    ServerOpens = FALSE
    MaxClock = 1
SPECIFICATION FairSpec
INVARIANTS
    TypeOK
    SuccessIsAuthorised
    FreshWhenSent
PROPERTY
    ClientEnds
CHECK_DEADLOCK FALSE
