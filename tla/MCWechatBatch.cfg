SPECIFICATION Spec
CONSTANTS
    a = a
    b = b
    NMessages = 3
    Withheld = {}
    Malformed = {}
    Session = {a}
    SessionOf <- MCSessionOf3
    None = None
    MayRedeliver = FALSE
    MaxCrashes = 1
INVARIANTS
    PolledIsPersisted
