CONSTANTS
    Base = 4
    Magic <- MCMagic
    FileTrailer <- MCTrailer
    MinLengthField = 2
    MaxLengthField = 3
    ControlPieces <- MCControlPieces
    BrokenPieces <- MCBrokenPieces
    FilePieces <- MCFilePieces
    MaxPieces = 3
SPECIFICATION StreamSpec
INVARIANTS
    EveryFrameOnce
