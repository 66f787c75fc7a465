SPECIFICATION Spec
CONSTANTS
    Codes = {c1}
    SessionIDs = {s1, s2}
    Callers = {g1, g2}
    MaxSessions = 1
    MaxFailures = 2
    FailureWindow = 1
    CodeTTL = 1
    SessionTTL = 1
    MaxCodeTTL = 1
    TTLRequests = {0, 2}
    NoCode = NoCode
INVARIANT
    GuessesWithinLimit
