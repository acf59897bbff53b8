SPECIFICATION Spec
CONSTANTS
    Channel = {c1, c2, c3}
    None = None
    MaxModule = 3
INVARIANTS
    TypeOK
    UnitRuns
    EngineWorks
    NoChannelNoUnit
PROPERTIES
    LastOneOut
    OnlyResetSilences
