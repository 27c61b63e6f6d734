CONSTANTS
    TargetSR = 40
    FrameSize = 3
    ResampleChunkMs = 100
    DefaultRate = 30
    Rates <- DeclaredRates
    MaxPacket = 7
    MaxSamples = 30
SPECIFICATION Spec
CHECK_DEADLOCK FALSE
INVARIANTS
    TypeOK
    StreamIntact
    LagBounded
    ClockKept
