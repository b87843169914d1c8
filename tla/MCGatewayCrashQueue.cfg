SPECIFICATION FairSpec
CONSTANTS
    NRequests = 2
    SessionOf <- OneSession
    Desktop = {2}
    Stages <- AcceptOnly
    MaxEpoch = 2
    MayCancel = FALSE
    MayFail = FALSE
PROPERTIES
    HeadEventuallyClaimed
CHECK_DEADLOCK FALSE
