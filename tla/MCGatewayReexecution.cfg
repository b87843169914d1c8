SPECIFICATION FairSpec
CONSTANTS
    NRequests = 1
    SessionOf <- OneSession
    Desktop = {}
    Stages <- AcceptOnly
    MaxEpoch = 2
    MayCancel = FALSE
    MayFail = FALSE
PROPERTIES
    RecoveredIsReexecuted
CHECK_DEADLOCK FALSE
