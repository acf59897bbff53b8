SPECIFICATION Spec
CONSTANTS
    Channel = {c1, c2}
    None = None
    MaxModule = 2
PROPERTIES
    ReadyKeepsUnit
