SPECIFICATION Spec
CONSTANTS
    DataChannelType = "DCT_SCTP"
    Roles = {"kOpener", "kAcker", "kNone"}
    Sizes = {1}
    kMaxQueuedReceivedDataBytes = 2
    kMaxQueuedSendDataBytes = 2
    AllocResults = {TRUE}
    MaxSends = 2
    MaxArrivals = 1
INVARIANT ClosedIsFinal
CHECK_DEADLOCK FALSE
