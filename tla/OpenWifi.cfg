CONSTANTS
    EventBuffer = 2
    WifiBudget = 2
    MaxOpens = 3
SPECIFICATION WifiSpec
INVARIANT OwnService
PROPERTY OpenEnds
CHECK_DEADLOCK FALSE
