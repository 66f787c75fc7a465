SPECIFICATION Spec
CONSTANTS
    ValidNames = {"n", "a", "m"}
    NoPrincipal = NoPrincipal
    CACertTTL = 3
    Backdate = 1
    Clients = {c1}
    Mesh = "home"
    NodeName = "n"
    AdminName = "a"
    MemberName = "m"
    NodeTTL = 1
    AdminTTL = 2
    Durations = {1, 3}
    Width = 8
    CodeTTL = 2
    MaxCodeTTL = 4
    MaxInits = 2
    Horizon = 4
INVARIANT PrintedIsGranted
CHECK_DEADLOCK FALSE
