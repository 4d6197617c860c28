CONSTANTS
    Names <- MCNames
    Bytes <- MCBytes
    Kib = 2
    SizeKib <- MCSizeKib
    MaxSyncs = 2
SPECIFICATION Spec
INVARIANTS
    CleanSyncSaved
PROPERTIES
    LostOnlyToItsNamesake
    SyncEnds
CHECK_DEADLOCK FALSE
