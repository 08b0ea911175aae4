CONSTANTS
    g = g
    a1 = a1
    a2 = a2
    a3 = a3
    b2 = b2
    b3 = b3
    outside = outside
    Block <- MCBlock
    Genesis = g
    Parent <- MCParent
    Height <- MCHeight
    Strength <- MCStrength
    InternalValid <- MCBlock
    HeaderValid <- MCHeaderValid
    BodyValid <- MCBodyValid
    OrphanStorageCapacity = 9
    PruningHorizon = 0
    PruningInterval = 0
    PruneBatch = 1
    CleanupOrphansAtStartup = FALSE
    LookBack = 2
    BadBlockKeep = 0
    MaxRequests = 1
SPECIFICATION LiveSpec
INVARIANTS
    SeenOrphansLeadToTips
PROPERTIES
    Convergence
