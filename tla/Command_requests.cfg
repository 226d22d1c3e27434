CONSTANTS
    BUFLEN = 29
    Key <- Keys
    Value <- Values
    Pattern <- Patterns
    Counter <- Counters
    Method <- Methods
    DefaultMethod = 10
    NullSafe = {1}
    Minimum <- Minima
    LimitStart <- Starts
    LimitItems <- Limits
    Cut = {2, 8}
    AnyOrder = FALSE
    MaxLost = 1
    NULL = NULL
SPECIFICATION MCSpec
INVARIANTS
    TypeOK
    ParametersIntact
    OnlyWholeRequests
    RepliesWellFormed
    OverrunByAnswersOnly
PROPERTIES
    ImplementsStore
