SPECIFICATION FairSpec
CONSTANTS
    s1 = s1
    Scope = {s1}
    None = None
    LeaseTtl = 2
    RenewWindow = 1
    ClockSkew = 0
    MaxTime = 4
    MaxEpoch = 2
    Embedded = TRUE
    MaySleep = FALSE
PROPERTIES
    ServedOrBlocked
