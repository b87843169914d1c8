SPECIFICATION Spec
CONSTANTS
    Entity = {"r", "x", "a"}
    MachineOf <- PulledMachineOf
    Generation = 1
    Times = {2}
    OutboxId = {"o"}
    EventId <- Ids
    Event <- PulledEvent
    NoSnapshot = NoSnapshot
    NoEvent = NoEvent
INVARIANTS
    ClaimIsEvidenced
