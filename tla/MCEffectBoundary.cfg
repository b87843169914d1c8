SPECIFICATION Spec
CONSTANTS
    x = x
    c = c
    u = u
    y = y
    s = s
    Effect = {x, c, u}
    KindOf <- MCKindOf
    ParentOf <- MCParentOf
    MaxFence = 1
    MaxCrashes = 1
    MaxReconciled = 1
    Reconcilable = {x, c, u}
PROPERTIES
    ImplementsBoundary
CHECK_DEADLOCK FALSE
