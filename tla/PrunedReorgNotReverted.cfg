CONSTANTS
    g = g
    a1 = a1
    a2 = a2
    a3 = a3
    b1 = b1
    outside = outside
    Block <- MCBlock
    Genesis = g
    Parent <- MCParent
    Height <- MCHeight
    Strength <- MCStrength
    InternalValid <- MCBlock
    HeaderValid <- MCHeaderValid
    BodyValid <- MCBodyValid
    OrphanStorageCapacity = 2
    PruningHorizon = 1
    PruningInterval = 0
    PruneBatch = 1
    CleanupOrphansAtStartup = FALSE
    LookBack = 2
    BadBlockKeep = 0
    MaxRequests = 1
SPECIFICATION AddBlockSpec
PROPERTIES
    ErrorsRevert
