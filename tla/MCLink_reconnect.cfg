SPECIFICATION Spec
CONSTANTS
    Conns = {c1, c2}
    None = None
    CommandCap = 2
    EventCap = 1
    MessageCap = 1
    MaxCommands = 3
    MaxMessages = 3
SYMMETRY Symmetry
INVARIANTS
    LinkIsServed
    LinkIsSubscribed
PROPERTIES
    CommandOrder
    ConnectionsUsed
CHECK_DEADLOCK FALSE
