SPECIFICATION Spec
CONSTANT Garbage <- MCGarbage
INVARIANTS
    TypeOK
    IdleHoldsOnlyLeaks
    NoOrphanCamera
    CameraServesCall
    SocketsHaveChannels
    CallbacksHaveTargets
PROPERTIES
    ImplementsContract
    HangUpCompletes
