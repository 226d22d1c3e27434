CONSTANTS
    Conn = {c1, c2, c3}
    MAX_CLIENT_NUMBER = 2
    MaxSession = 3
    MaxRequests = 2
    WellBehaved = FALSE
    NULL = NULL
SYMMETRY AnyClient
SPECIFICATION Spec
INVARIANTS
    TypeOK
    SlotsMatchSockets
    ReadinessIsCurrent
    RepliesInOrder
PROPERTIES
    ImplementsAdmission
