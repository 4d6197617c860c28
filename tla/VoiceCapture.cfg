CONSTANTS
    EndCauses = {"DeviceSignalled"}
    MaxPackets = 3
    IdleGap = 2
    HardCap = 4
    RepeatGap = 1
    EventBuffer = 2
    MaxFrames = 3
    MaxCalls = 2
SPECIFICATION Spec
INVARIANTS
    OkClosesMic
PROPERTIES
    NotCutShort
    CallReturns
CHECK_DEADLOCK FALSE
