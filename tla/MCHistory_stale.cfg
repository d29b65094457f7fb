SPECIFICATION Spec
CONSTANTS
    Main = main
    Summarizers = {s1}
    Inodes = {i1, i2, i3, i4}
    NoInode = NoInode
    WritesFail = FALSE
    BufferSize = 2
    SummarizeEvery = 2
    MaxMessages = 3
INVARIANT AddedMessagesSurvive
CHECK_DEADLOCK FALSE
