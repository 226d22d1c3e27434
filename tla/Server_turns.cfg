CONSTANTS
    Conn = {c1, c2, c3}
    MAX_CLIENT_NUMBER = 2
    MaxSession = 3
    MaxRequests = 0
    WellBehaved = FALSE
    NULL = NULL
SPECIFICATION FairSpec
PROPERTIES
    StopsAfterSignal
    ServedInTurn
