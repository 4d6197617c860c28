CONSTANTS
    MaxRequests = 3
    MaxEnds = 1
    Fallible = FALSE
SPECIFICATION Spec
INVARIANT TeardownCloses
CHECK_DEADLOCK FALSE
