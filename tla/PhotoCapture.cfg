CONSTANTS
    Size = 2
    Pad = Pad
    Budget = 2
    EventBuffer = 2
    MaxCalls = 2
SPECIFICATION Spec
INVARIANTS
    OwnPhoto
    AbortHasCause
PROPERTY CallReturns
CHECK_DEADLOCK FALSE
