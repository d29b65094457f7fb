SPECIFICATION Spec
CONSTANTS
    Requests = {r1}
    EventCap = 1
    AudioCap = 1
    MediaCap = 1
    CommandCap = 1
    ErrorCap = 1
    MaxRuns = 1
    WavServed = FALSE
    ErrorResponse = ErrorResponse
INVARIANT SavedAudioIsServed
CHECK_DEADLOCK FALSE
