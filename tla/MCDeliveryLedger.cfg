CONSTANTS
    e1 = e1
    e2 = e2
    t1 = t1
    t2 = t2
    t3 = t3
    r1 = r1
    r2 = r2
    Effect = {e1, e2}
    Ticket = {t1, t2, t3}
    Run = {r1, r2}
    EffectOf <- MCEffectOf
    RunOf <- MCRunOf
    GenOf <- MCGenOf
    Times = {1, 2}
    NoTicket = NoTicket
    NoReceipt = NoReceipt
SPECIFICATION Spec
INVARIANTS
    TablesValid
    VerifyRows
    AtMostOneStart
PROPERTIES
    FenceMonotone
    SettledIsFinal
    ImplementsBoundary
