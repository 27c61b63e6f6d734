CONSTANTS
    ChanCap = 2
    Terminates = FALSE
    MaxChunks = 4
    MaxCallbacks = 2
SPECIFICATION SessionSpec
CHECK_DEADLOCK FALSE
INVARIANTS
    PumpExitTerminates
