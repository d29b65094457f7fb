SPECIFICATION FairSpec
CONSTANTS
    MessageCap = 2
    MaxSent = 5
INVARIANTS
    NoSendAfterClose
    ConnectedWasAnswered
PROPERTIES
    IsConnection
    CloseReturns
    LossReported
CHECK_DEADLOCK FALSE
