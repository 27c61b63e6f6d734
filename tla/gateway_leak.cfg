CONSTANTS
    ChanCap = 2
    Terminates = FALSE
    MaxChunks = 4
    MaxCallbacks = 1
SPECIFICATION Spec
CHECK_DEADLOCK FALSE
PROPERTIES
    NoGoroutineLeak
