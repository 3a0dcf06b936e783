SPECIFICATION FairSpec
CONSTANTS
    Threads = {"a", "b", "c"}
    CanSend <- Topology
    CanPost <- Posting
    Handlers = {"h"}
    Quitting = {"b"}
    Delays = {0, 1}
    TimeMod = 16
    StartTime = 15
    Workloads <- Mixed
INVARIANTS
    NoLostWakeup
    UnansweredIsHeld
    CallsInAreFromCallee
    DispatchedInOrder
    DelayedIsNotEarly
    ClearedIsGone
PROPERTIES
    WaitsEnd
    QueuedIsServed
CHECK_DEADLOCK FALSE
