SPECIFICATION Spec
CONSTANTS
    main = main
    other = other
    network = network
    NoThread = NoThread
    Thread <- MCThread
    Api <- MCApi
    Socket <- MCSocket
    Audio <- MCAudio
    MaxId = 1
INVARIANTS
    TypeOK
    CountIsOwners
    OwnersAlive
    DeleteAlone
PROPERTIES
    DestroyedIsDeleted
    ImplementsLifetime
