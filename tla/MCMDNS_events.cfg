SPECIFICATION Spec
CONSTANTS
    a = a
    b = b
    x = x
    y = y
    Nodes = {n0, n1, n2}
    Self = n0
    Meshes = {m1, m2}
    OwnMesh = m1
    AnyMesh = AnyMesh
    Ads <- MCAds
    ExpireAfter = 1
    EventBuffer = 1
    MaxTickAge = 1
CHECK_DEADLOCK FALSE
INVARIANTS
    EventsMirrorPeers
PROPERTIES
    ExpiryIsDue
    SilentPeersLeave
    StopTerminates
