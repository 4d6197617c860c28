SPECIFICATION DeviceSpec
CONSTANTS
    EndCauses = {"DeviceSignalled", "CloseCommandSent", "IdleTimeout", "Disconnected"}
    MaxPackets = 3
    None = None
    Units <- MCUnits
    Durations = {60, 180}
    Actions = {"NextTrack"}
    Percents = {100, 42}
    Junk <- MCJunk
    MaxStimuli = 2
    MaxFaults = 1
    AirBound = 1
INVARIANTS
    SyncedMeansIt
    WriteBackStaysLegal
    ReadingsAreDevices
    CallerKnowsCapture
PROPERTIES
    BurstCompletes
CHECK_DEADLOCK FALSE
