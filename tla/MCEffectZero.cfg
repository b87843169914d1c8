SPECIFICATION Spec
CONSTANTS
    x = x
    c = c
    u = u
    y = y
    s = s
    Effect = {x, c, u, y, s}
    KindOf <- MCKindOf
    ParentOf <- MCParentOf
    MaxFence = 1
    MaxCrashes = 0
    MaxReconciled = 0
    Reconcilable = {}
INVARIANTS
    ZeroTrafficIsReconciled
CHECK_DEADLOCK FALSE
