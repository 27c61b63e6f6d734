CONSTANTS
    MinSpeechFrames = 2
    MinSilenceFrames = 2
    MaxUtteranceFrames = 6
    LookbackFrames = 2
    MaxDipFrames = 0
    Calls <- NoCalls
    MaxFrames = 12
SPECIFICATION Spec
CHECK_DEADLOCK FALSE
INVARIANTS
    NoBleeding
