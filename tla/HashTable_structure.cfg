CONSTANTS
    x1 = x1  x2 = x2  x3 = x3  x4 = x4
    NULL = NULL
    Item = {x1, x2, x3}
    Key <- Mixed
    Value = {v1}
    Method = {9, 10}
    DefaultMethod = 10
    Hash <- Hashes
    CapacityMin = 2
    CapacityMax = 4
    RequestedCapacity <- Requests
    MemoryFails = TRUE
SPECIFICATION FairSpec
INVARIANTS
    TypeOK
    NoSharing
    NoDangling
    NoCycle
    CountExact
    LoadBound
    ArrayBounds
PROPERTIES
    CommandsReturn
    MoveConserves
    ResizeDirection
    ImplementsLossyStore
