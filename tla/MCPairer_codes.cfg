SPECIFICATION Spec
CONSTANTS
    Codes = {c1, c2}
    SessionIDs = {s1, s2, s3}
    Callers = {g1, g2}
    MaxSessions = 2
    MaxFailures = 1
    FailureWindow = 1
    CodeTTL = 1
    SessionTTL = 1
    MaxCodeTTL = 1
    TTLRequests = {0, 2}
    NoCode = NoCode
INVARIANTS
    SingleUse
    OneAttemptPerSession
    RateLimitSlack
PROPERTIES
    CodeLossExplained
    MatchedWasLive
    ImplementsLedger
    CallsReturn
    RefusalsLift
