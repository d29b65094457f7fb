SPECIFICATION FairSpec
CONSTANTS
    Conns = {c1, c2}
    None = None
    CommandCap = 1
    EventCap = 1
    MessageCap = 1
    MaxCommands = 1
    MaxMessages = 1
PROPERTIES
    Reconnects
    GoroutinesEnd
CHECK_DEADLOCK FALSE
