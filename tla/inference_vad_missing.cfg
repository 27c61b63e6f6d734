CONSTANTS
    VADLoads = FALSE
    HistoryMax = 1
    MaxProfiles = 1
    MaxUtterances = 2
    MaxSentences = 2
    MaxChunks = 2
SPECIFICATION Spec
CHECK_DEADLOCK FALSE
PROPERTIES
    CallReleased
