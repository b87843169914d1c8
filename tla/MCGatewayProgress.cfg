SPECIFICATION FairSpec
CONSTANTS
    NRequests = 2
    SessionOf <- TwoSessions
    Desktop = {2}
    Stages <- AcceptOnly
    MaxEpoch = 1
    MayCancel = FALSE
    MayFail = TRUE
PROPERTIES
    HeadEventuallyClaimed
    IntentEventuallyFinalized
CHECK_DEADLOCK FALSE
