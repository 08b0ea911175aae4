CONSTANTS
    g = g
    a1 = a1
    a2 = a2
    a3 = a3
    b1 = b1
    outside = outside
    Block <- MCBlock
    Genesis = g
    Parent <- MCParent
    Height <- MCHeight
    Strength <- MCStrength
    InternalValid <- MCBlock
    HeaderValid <- MCHeaderValid
    BodyValid <- MCForkInvalid
    OrphanStorageCapacity = 1
    PruningHorizon = 1
    PruningInterval = 0
    PruneBatch = 1
    CleanupOrphansAtStartup = TRUE
    LookBack = 2
    BadBlockKeep = 0
    MaxRequests = 1
SPECIFICATION Spec
INVARIANTS
    HeadersFormChain

    
