SPECIFICATION FairSpec
CONSTANTS
    x = x
    c = c
    u = u
    y = y
    s = s
    Effect = {y, c, s, u}
    KindOf <- MCKindOf
    ParentOf <- MCParentOf
    MaxFence = 1
    MaxCrashes = 1
    MaxReconciled = 1
    Reconcilable = {c, s}
INVARIANTS
    LedgerConsistent
    ZeroTrafficIsQuiet
    ResultIsTrue
PROPERTIES
    PermitsDrain
    ImplementsBoundary
CHECK_DEADLOCK FALSE
