SPECIFICATION FairSpec
CONSTANTS
    NRequests = 2
    SessionOf <- OneSession
    Desktop = {2}
    Stages <- AcceptOnly
    MaxEpoch = 1
    MayCancel = TRUE
    MayFail = FALSE
PROPERTIES
    HeadEventuallyClaimed
CHECK_DEADLOCK FALSE
