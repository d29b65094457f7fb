SPECIFICATION Spec
CONSTANTS
    Requests = {r1}
    EventCap = 2
    AudioCap = 1
    MediaCap = 1
    CommandCap = 2
    ErrorCap = 1
    MaxRuns = 2
    WavServed = TRUE
    ErrorResponse = ErrorResponse
INVARIANTS
    TypeOK
    HistoryFaithful
    AudioReachesTranscriber
    CleanupOwnsFile
PROPERTY
    PipelineOrder
CHECK_DEADLOCK FALSE
