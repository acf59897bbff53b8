SPECIFICATION Spec
CONSTANTS
    Thread = {t1, t2}
    Channel = {c1, c2}
    CaptureId = {d1}
    MaxEncoder = 2
    MaxCapturer = 2
    WritersFirst = FALSE
    None = None
INVARIANTS
    TypeOK
    PointersAlive
    EncodersOwned
SYMMETRY Symmetry
