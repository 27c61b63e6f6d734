CONSTANTS
    MaxConsecutiveFailures = 1
    MaxSplits = 1
    MaxReply = 2
    Mode = "all"
    OldLogs <- ColdLog
    ColdRepeats = 1
    WarmRuns = 1
    Passes = 1
    ColdTurns = 2
    WarmupTurns = 1
    PassTurns = 1
SPECIFICATION Spec
CHECK_DEADLOCK FALSE
INVARIANTS
    TypeOK
    OwnMeasurements
    StackOwned
PROPERTIES
    RunEnds
