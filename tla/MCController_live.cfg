SPECIFICATION FairSpec
CONSTANTS
    Requests = {}
    EventCap = 1
    AudioCap = 1
    MediaCap = 1
    CommandCap = 1
    ErrorCap = 1
    MaxRuns = 1
    WavServed = TRUE
    ErrorResponse = ErrorResponse
PROPERTIES
    HandlerReturns
    StopHonoured
    ShutdownStops
CHECK_DEADLOCK FALSE
