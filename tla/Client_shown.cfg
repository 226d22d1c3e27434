CONSTANTS
    MaxLate = 1
    NULL = NULL
SPECIFICATION MCSpec
PROPERTIES
    ShownIsOwn
