CONSTANTS
    c1 = c1
    c2 = c2
    op = op
    peer = peer
    NoKey = NoKey
    MaxI64 = 5
    Malformed = Malformed
    NoTicket = NoTicket
    Keys <- MCKeys
    Conns <- OneConn
    Verifying <- OneConn
    Tickets <- MCTickets
    IssuerKey = op
    ExpectedSubject = peer
    ServerOpens = TRUE
    MaxClock = 1
SPECIFICATION FairSpec
CHECK_DEADLOCK FALSE
PROPERTY
    ClientEnds
