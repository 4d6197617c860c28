CONSTANTS
    EventBuffer = 3
    Reads <- MCReads
    Burst <- MCBurst
    Budget = 1
    MaxPushes = 1
SPECIFICATION Spec
INVARIANTS
    RefusalCostsTheBudget
PROPERTIES
    MissingHasCause
    DropIsNotLost
CHECK_DEADLOCK FALSE
