SPECIFICATION FairSpec
CONSTANTS
    NRequests = 1
    SessionOf <- OneSession
    Desktop = {}
    Stages <- AcceptOnly
    MaxEpoch = 1
    MayCancel = TRUE
    MayFail = FALSE
PROPERTIES
    CancelledIntentSettles
CHECK_DEADLOCK FALSE
