SPECIFICATION Spec
CONSTANTS
    Thread = {t1, t2, t3}
    Channel = {c1}
    CaptureId = {d1}
    MaxEncoder = 1
    MaxCapturer = 1
    WritersFirst = TRUE
    None = None
PROPERTY
    CallsReturn
