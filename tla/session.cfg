CONSTANTS
    ChanCap = 2
    Terminates = TRUE
    MaxChunks = 4
    MaxCallbacks = 2
SPECIFICATION SessionSpec
CHECK_DEADLOCK FALSE
INVARIANTS
    SessionTypeOK
    Lossless
    EndOfStreamTerminates
PROPERTIES
    TerminatedIsFinal
    RespondingEnds
    StreamEndIsTold
