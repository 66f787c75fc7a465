SPECIFICATION Spec
CONSTANTS
    a = a
    b = b
    x = x
    y = y
    Nodes = {n0, n1}
    Self = n0
    Meshes = {m1, m2}
    OwnMesh = m1
    AnyMesh = AnyMesh
    Ads <- MCReorderedAds
    ExpireAfter = 2
    EventBuffer = 2
    MaxTickAge = 1
CHECK_DEADLOCK FALSE
INVARIANT
    DialersInformed
