SPECIFICATION Spec
CONSTANTS
    s1 = s1
    Scope = {s1}
    None = None
    LeaseTtl = 1
    RenewWindow = 1
    ClockSkew = 1
    MaxTime = 4
    MaxEpoch = 2
    Embedded = FALSE
    MaySleep = TRUE
INVARIANTS
    ScanPasses
    SoleOwner
    NoForeignOperation
