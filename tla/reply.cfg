CONSTANTS
    MinChunkLength = 2
    ChunkSize = 4
    TTSRate = 8
    HistoryMax = 2
    Wavs <- PiperWavs
    MaxUtterances = 2
    MaxText <- TextLengths
    MaxToken = 4
    MaxSentences = 3
    MaxChunks = 2
SPECIFICATION Spec
CHECK_DEADLOCK FALSE
INVARIANTS
    TypeOK
    CutByTextAlone
    BenchTruthful
    TempFilesRemoved
PROPERTIES
    ImplementsWorker
