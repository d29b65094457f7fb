SPECIFICATION Spec
CONSTANTS
    Conns = {c1, c2, c3}
    None = None
    Energy = {10, 60, 200}
    LearningFrames = 2
    MinSilenceFrames = 2
    UpdateEvery = 4
    RatioTenths = 25
    MinThreshold = 50
    MaxSessions = 3
    MaxChunks = 6
INVARIANTS
    TypeOK
    OneSessionPerConnection
    AnsweredConnectionsClose
    ClientIsOpen
    FlowKept
    SpeechIsNotSilence
    SilenceEndsUtterance
SYMMETRY Symmetry
CHECK_DEADLOCK FALSE
