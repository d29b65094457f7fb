SPECIFICATION FairSpec
CONSTANTS
    ArpTable = TRUE
    MaxCalls = 2
INVARIANTS
    ModelInformed
    RouterFailureExplained
    ClosedInOrder
PROPERTIES
    MainReturns
    TurnReturns
CHECK_DEADLOCK FALSE
