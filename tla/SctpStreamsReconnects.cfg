SPECIFICATION Spec
CONSTANTS
    Endpoints = {a, b}
    Sids = {s1, s2, s3}
    InitiallyConnected = FALSE
    SetupMayFail = TRUE
    MaxOutEntries = 1
    MaxInEntries = 2
    MaxAdds = 3
    MaxDisconnects = 1
    MaxKept = 1
    MaxCollisions = 2
PROPERTY KeepsLifecycle
CHECK_DEADLOCK FALSE
SYMMETRY Symmetry
