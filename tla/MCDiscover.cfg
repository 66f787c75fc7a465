SPECIFICATION DiscoverSpec
CONSTANTS
    x = x
    Nodes = {n0, n1, n2, n3}
    Self = n0
    Meshes = {m1, m2}
    OwnMesh = AnyMesh
    AnyMesh = AnyMesh
    Ads <- MCAds
    ExpireAfter = 3
    EventBuffer = 2
    MaxTickAge = 0
CHECK_DEADLOCK FALSE
PROPERTY SearchEnds
INVARIANTS
    OnlyLatePassedOver
    MissExplained
