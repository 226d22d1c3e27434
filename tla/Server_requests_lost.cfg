CONSTANTS
    Conn = {c1}
    MAX_CLIENT_NUMBER = 1
    MaxSession = 1
    MaxRequests = 1
    WellBehaved = TRUE
    NULL = NULL
SPECIFICATION FairClients
PROPERTIES
    RequestsAnswered
