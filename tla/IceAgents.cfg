SPECIFICATION Spec
CONSTANTS
    Conns = {1, 2}
    InitialRoles <- Agreed
    CONNECTION_WRITE_CONNECT_FAILURES = 1
    MaxPings = 1
    MaxFaults = 1
INVARIANTS
    IceTypeOK
    BestIsLive
    WritableFollows
    NominationIsTaken
