SPECIFICATION FairSpec
CONSTANTS
    a = a
    b = b
    NMessages = 5
    Withheld = {2}
    Malformed = {4}
    Session = {a, b}
    SessionOf <- MCSessionOf
    None = None
    MayRedeliver = TRUE
    MaxCrashes = 1
INVARIANTS
    AckedIsRegistered
    OneRequestEach
    OrderedAcrossBatches
    LedgersAgree
PROPERTIES
    EveryRecordAcknowledged
    CatchesUp
