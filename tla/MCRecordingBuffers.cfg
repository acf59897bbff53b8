SPECIFICATION Spec
CONSTANTS
    NumBuffers = 2
    Full = 2
    MaxBlock = 3
    MaxSeq = 3
    MaxStarts = 2
    Word = 1
    InOrder = TRUE
INVARIANTS
    TypeOK
    CopyAlone
PROPERTIES
    NothingOverwritten
    FullIsDelivered
CHECK_DEADLOCK FALSE
