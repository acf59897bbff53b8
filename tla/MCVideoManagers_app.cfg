SPECIFICATION Spec
CONSTANTS
    Thread = {t1}
    Channel = {c1, c2}
    CaptureId = {d1, d2}
    MaxEncoder = 3
    MaxCapturer = 2
    WritersFirst = FALSE
    None = None
INVARIANTS
    CallbacksAlive
    OneProvider
SYMMETRY Symmetry
