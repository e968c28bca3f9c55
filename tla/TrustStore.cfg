CONSTANTS
    Nodes = {1, 2}
    Names = {"plain", "padded", "broken"}
    Rates = {5}
    Savers = {s1, s2}
    MaxEdits = 3
    MaxSaves = 3
    MaxCrashes = 2
SPECIFICATION Spec
INVARIANTS
    TypeOK
    RevokedStaysOut
    SavedLoads
PROPERTY
    SavedComesBack
CHECK_DEADLOCK FALSE
