SPECIFICATION Spec
CONSTANTS
    Entity = {"r", "d"}
    MachineOf <- MCMachineOf
    Generation = 1
    Times = {1, 2}
    OutboxId = {"o"}
    EventId <- Ids
    Event <- MCEvent
    NoSnapshot = NoSnapshot
    NoEvent = NoEvent
INVARIANTS
    TypeOK
    FullEventChain
    RowsFollowEvents
    ClaimIsEvidenced
PROPERTIES
    OnlyForward
