SPECIFICATION FairSpec
CONSTANTS
    Conns = {1, 2}
    InitialRoles <- Clash
    CONNECTION_WRITE_CONNECT_FAILURES = 1
    MaxPings = 1
    MaxFaults = 0
PROPERTIES
    RolesSettle
    AgreeOnBest
