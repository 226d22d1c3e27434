CONSTANTS
    x1 = x1  x2 = x2  x3 = x3  x4 = x4
    NULL = NULL
    Item = {x1, x2, x3, x4}
    Key <- Orderly
    Value = {v1, v2}
    Method = {10}
    DefaultMethod = 10
    Hash <- Hashes
    CapacityMin = 4
    CapacityMax = 8
    RequestedCapacity <- Requests
    MemoryFails = FALSE
SYMMETRY AnyOrder
SPECIFICATION Spec
INVARIANTS
    UniqueKeys
    ItemsFindable
    MarksCurrent
PROPERTIES
    ImplementsMap
