CONSTANTS
    Conn = {c1, c2}
    MAX_CLIENT_NUMBER = 1
    MaxSession = 2
    MaxRequests = 2
    WellBehaved = TRUE
    NULL = NULL
SPECIFICATION Spec
INVARIANTS
    DisconnectSurvived
