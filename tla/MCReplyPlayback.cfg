SPECIFICATION Spec
CONSTANTS
    MessageCap = 3
    MediaCap = 1
    CommandCap = 1
    MaxReplies = 2
    MaxPresses = 1
    MaxReports = 1
    MaxBreaks = 1
INVARIANTS
    FetchFindsFile
    NoOrphanFiles
    OneCommandPerPress
CHECK_DEADLOCK FALSE
