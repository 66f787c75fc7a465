SPECIFICATION Spec
CONSTANTS
    Runs = {r1, r2}
    MaxActive = 1
    Names = {n1}
    NoName = NoName
    MeshCA = MeshCA
    Absent = Absent
    Torn = Torn
CHECK_DEADLOCK FALSE
INVARIANT
    NodeIDNeverChanges
