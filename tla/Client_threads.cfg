CONSTANTS
    MaxLate = 1
    NULL = NULL
SPECIFICATION FairMCSpec
INVARIANTS
    TypeOK
    CountersUnique
    NeverBothWaiting
PROPERTIES
    CommandEnds
