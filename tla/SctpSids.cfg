SPECIFICATION Spec
CONSTANTS
    kMaxSctpSid = 5
    InvalidConfigs = {FALSE}
    EngineCloses = TRUE
    MaxChannels = 4
    MaxLastId = 9
INVARIANTS SidsAreUnique NoFreeSidIsMissed
CHECK_DEADLOCK FALSE
