CONSTANTS
    MaxItems = 4
    MaxLost = 1
    LimitStart <- Starts
    LimitItems <- Counts
SPECIFICATION Spec
\* A search is one request; the run ends with its answer.
CHECK_DEADLOCK FALSE
INVARIANTS
    TypeOK
    ResultsAreWindow
    CountIsTotal
    OverrunAtMostOne
