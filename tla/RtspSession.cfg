CONSTANTS
    MaxRequests = 6
    MaxEnds = 2
    Fallible = TRUE
SPECIFICATION Spec
INVARIANTS
    PlayIsSetUp
PROPERTIES
    NoEventLost
    LoopEnds
CHECK_DEADLOCK FALSE
