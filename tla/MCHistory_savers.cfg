SPECIFICATION FairSpec
CONSTANTS
    Main = main
    Summarizers = {s1, s2}
    Inodes = {i1, i2, i3, i4}
    NoInode = NoInode
    WritesFail = TRUE
    BufferSize = 2
    SummarizeEvery = 2
    MaxMessages = 4
INVARIANTS
    TypeOK
    NewestMessages
    FileWhole
    EvictedAreSummarized
PROPERTIES
    DurableStore
    SaversFinish
CHECK_DEADLOCK FALSE
