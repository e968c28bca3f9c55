CONSTANTS
    Up = 3
    Down = 1
    Window = 1
    Buffer = 1
    MaxChunks <- MCChunks
SPECIFICATION Spec
CHECK_DEADLOCK FALSE
INVARIANT TypeOK
PROPERTIES
    IsPipe
    ChunksArrive
    BridgesReturn
    EveryConnectionDialled
