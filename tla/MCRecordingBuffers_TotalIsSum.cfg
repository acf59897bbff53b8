SPECIFICATION Spec
CONSTANTS
    NumBuffers = 2
    Full = 2
    MaxBlock = 3
    MaxSeq = 3
    MaxStarts = 1
    Word = 16
    InOrder = TRUE
INVARIANTS
    TotalIsSum
CHECK_DEADLOCK FALSE
