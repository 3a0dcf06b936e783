SPECIFICATION FairSpec
CONSTANTS
    Endpoints = {"a", "b"}
    Sids = {1, 2}
    InitiallyConnected = TRUE
    SetupMayFail = FALSE
    MaxOutEntries = 2
    MaxInEntries = 2
    MaxAdds = 3
    MaxDisconnects = 0
    MaxKept = 1
    MaxCollisions = 2
INVARIANT ResetsGoOn
PROPERTY ImplementsLifecycle
CHECK_DEADLOCK FALSE
