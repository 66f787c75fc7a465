SPECIFICATION Spec
CONSTANTS
    Runs = {r1, r2, r3}
    MaxActive = 2
    Names = {n1}
    NoName = NoName
    MeshCA = MeshCA
    Absent = Absent
    Torn = Torn
SYMMETRY Symmetry
CHECK_DEADLOCK FALSE
INVARIANTS
    OneSetOfCredentials
    NodeIDBound
    CodeWastedOnlyAfterFailure
PROPERTIES
    IdentityPreserved
    ForceRepairs
