SPECIFICATION FairSpec
CONSTANTS
    e1 = e1
    t1 = t1
    r1 = r1
    Effect = {e1}
    Ticket = {t1}
    Run = {r1}
    EffectOf <- MCEffectOf
    RunOf <- MCRunOf
    GenOf <- MCGenOf
    Times = {1, 2}
    NoTicket = NoTicket
    NoReceipt = NoReceipt
    NCalls = 2
    TicketOf <- MCTicketOf
    Segments <- MCSegments
    Closing <- MCClosing
    RateRetries = 1
    MaxRestarts = 2
    MayStepBack = FALSE
INVARIANTS
    SentInOrder
    LedgerIsTruthful
PROPERTIES
    AnswerIsTruthful
    EveryCallEnds
