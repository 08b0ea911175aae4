CONSTANTS
    g = g
    a1 = a1
    a2 = a2
    b1 = b1
    b2 = b2
    b3 = b3
    c2 = c2
    outside = outside
    Block <- MCBlock
    Genesis = g
    Parent <- MCParent
    Height <- MCHeight
    Strength <- MCStrength
    InternalValid <- MCBlock
    HeaderValid <- MCHeaderValid
    BodyValid <- MCBodyValid
    OrphanStorageCapacity = 3
    PruningHorizon = 0
    PruningInterval = 0
    PruneBatch = 1
    CleanupOrphansAtStartup = FALSE
    LookBack = 2
    BadBlockKeep = 0
    MaxRequests = 1
SPECIFICATION CrashSpec
INVARIANTS
    BestChainValid
    OrphanTablesAgree
    OrphansOffChain
PROPERTIES
    SelectsChain
