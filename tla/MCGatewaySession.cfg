SPECIFICATION Spec
CONSTANTS
    NRequests = 2
    SessionOf <- OneSession
    Desktop = {2}
    Stages <- AcceptOnly
    MaxEpoch = 2
    MayCancel = TRUE
    MayFail = FALSE
INVARIANTS
    SessionOrder
CHECK_DEADLOCK FALSE
