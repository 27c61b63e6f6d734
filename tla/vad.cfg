CONSTANTS
    MinSpeechFrames = 3
    MinSilenceFrames = 2
    MaxUtteranceFrames = 6
    LookbackFrames = 2
    MaxDipFrames = 1
    Calls <- AllCalls
    MaxFrames = 11
SPECIFICATION Spec
CHECK_DEADLOCK FALSE
INVARIANTS
    TypeOK
    Debounced
    SpeechCaptured
    InOrder
    OnlyOpenUtterances
    Gapless
    SpeechNotRepeated
    PauseCloses
    MemoryCeiling
