SPECIFICATION FairSpec
CONSTANTS
    DataChannelType = "DCT_SCTP"
    Roles = {"kOpener", "kAcker", "kNone"}
    Sizes = {1, 2}
    kMaxQueuedReceivedDataBytes = 2
    kMaxQueuedSendDataBytes = 2
    AllocResults = {TRUE}
    MaxSends = 3
    MaxArrivals = 2
INVARIANTS
    TypeOK
    QueuesAreBounded
    SentInOrder
    DeliveredInOrder
    ControlSentOnce
    OrderedUntilReply
    LiveIsReachable
PROPERTIES
    ClosedSendsNoData
    EventuallyOpens
    QueuedDataDrains
    RemoteCloseArrives
CHECK_DEADLOCK FALSE
