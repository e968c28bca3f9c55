CONSTANTS
    Paths <- MCPaths
    Parent <- MCParent
    Keep <- MCKeep
    Trees <- MCTrees
    Sizes = {1}
    Second = 4
    Epochs <- MCEpochs
    MaxChanges = 2
    MaxWalks = 2
    MaxRounds = 2
SPECIFICATION SyncSpec
INVARIANTS
    SyncTypeOK
    WalkIsComplete
    FailuresHaveCause
    NoPhantomChange
    EditsAreSeen
    ReplayConverges
PROPERTY
    WalksReturn
CHECK_DEADLOCK FALSE
