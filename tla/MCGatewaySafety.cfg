SPECIFICATION WorkerFairSpec
CONSTANTS
    NRequests = 1
    SessionOf <- OneSession
    Desktop = {}
    Stages <- AllStages
    MaxEpoch = 3
    MayCancel = TRUE
    MayFail = TRUE
INVARIANTS
    TablesAgree
    AtMostOneSend
    VerdictIsTrue
    AmbiguityStaysOpen
    ReleasedIsSettled
PROPERTIES
    NoRevival
    StrandedHeadRetired
CHECK_DEADLOCK FALSE
