SPECIFICATION PairingSpec
CONSTANTS
    j1 = j1
    j2 = j2
    Admin = Admin
    Codes = {c1}
    SessionIDs = {j1, j2}
    Callers = {j1, j2, Admin}
    Joiners = {j1, j2}
    MaxSessions = 2
    MaxFailures = 2
    FailureWindow = 1
    CodeTTL = 1
    SessionTTL = 1
    MaxCodeTTL = 1
    TTLRequests = {0}
    NoCode = NoCode
    ValidNames = {"n1", "n2", "coordinator"}
    NoPrincipal = NoPrincipal
    CACertTTL = 2
    Backdate = 1
    NodeID <- OwnNames
    Addrs <- BothAddrs
    Generations = {1, 2}
    Mesh = "home"
    Coordinator = "coordinator"
    NodeTTL = 1
INVARIANTS
    JoinedCanTalk
    HonestAnswerAccepted
PROPERTIES
    JoinReturns
    ImplementsEnrolment
