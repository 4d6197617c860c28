CONSTANTS
    SeqSpace = 18
    Window = 3
    None = None
    Packets <- MCPackets
    Pictures <- MCPictures
    FirstNumber = 14
    MaxFaults = 3
SPECIFICATION Spec
INVARIANTS
    Conservation
    LossIsExact
    OnePicture
    CleanPictureComesOut
PROPERTY DamageIsCounted
CHECK_DEADLOCK FALSE
