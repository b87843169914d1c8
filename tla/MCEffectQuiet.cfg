SPECIFICATION Spec
CONSTANTS
    x = x
    c = c
    u = u
    y = y
    s = s
    Effect = {x, c}
    KindOf <- MCKindOf
    ParentOf <- MCParentOf
    MaxFence = 1
    MaxCrashes = 0
    MaxReconciled = 1
    Reconcilable = {x, c}
INVARIANTS
    ContractIsQuiet
CHECK_DEADLOCK FALSE
