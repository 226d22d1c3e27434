CONSTANTS
    MaxItems = 3
    MaxLost = 0
    LimitStart <- Starts
    LimitItems <- Counts
SPECIFICATION Spec
CHECK_DEADLOCK FALSE
INVARIANTS
    ResultsFit
