SPECIFICATION Spec
CONSTANTS
    DataChannelType = "DCT_RTP"
    Roles = {"kOpener"}
    Sizes = {1, 2}
    kMaxQueuedReceivedDataBytes = 2
    kMaxQueuedSendDataBytes = 2
    AllocResults = {TRUE}
    MaxSends = 2
    MaxArrivals = 3
INVARIANT ClosedIsFinal
CHECK_DEADLOCK FALSE
