CONSTANTS
    Conns = {c1, c2}
    MaxStreams = 2
SPECIFICATION LoopsSpec
INVARIANTS
    LoopsTypeOK
    AtMostOneMore
PROPERTIES
    HandlersEnd
    CancelIsSeen
    ArrivalsAreServed
CHECK_DEADLOCK FALSE
