CONSTANTS
    s1 = s1
    s2 = s2
    n1 = n1
    Streams <- MCStreams
    Nodes <- MCNodes
    peer_node <- MCPeerNode
    Rates = {0, 1, 3}
    DEFAULT_RATE_PER_MIN = 2
    Period = 2
    QuicStreams <- OneStream
    MaxClock = 2
    MaxChunks = 2
    MaxEdits = 2
SPECIFICATION Spec
INVARIANTS
    TypeOK
    RelayBudget
    LogsAreHonest
CHECK_DEADLOCK FALSE
