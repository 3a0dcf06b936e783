SPECIFICATION Spec
CONSTANTS
    PacketMaximums <- Levels
    Routes = {1, 2}
    RBufLen = 4
    SBufLen = 6
    ConnectLen = 1
    UseNagling = TRUE
    AckDelay = TRUE
    XmitLimit = 4
    ConnectLimit = 5
    SeqSpace = 1000
    Connecting = {"a"}
    ReadLen = 4
    Workloads <- Mixed
INVARIANTS
    StreamIsPrefix
    SendListTiles
    WindowIsKept
    NeverStuck
CHECK_DEADLOCK FALSE
