SPECIFICATION Spec
CONSTANTS
    Module = {m1, m2}
    MaxThread = 3
    Late = {1}
INVARIANTS
    TypeOK
    CallsRegistered
    DeletedIsReleased
    ReleasedIsDead
    OnlyCurrent
PROPERTIES
    CallsEnd
