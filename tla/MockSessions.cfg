CONSTANTS
    r1 = r1
    r2 = r2
    s1 = s1
    s2 = s2
    s3 = s3
    Request <- TwoRequests
    Session <- ThreeSessions
    NoSession = NoSession
    MaxId <- OneLarge
    MaxResources = 1
    MaxSessions = 1
SPECIFICATION MockFairSpec
INVARIANTS
    MockInvariant
    ResourceOvershoot
    SessionOvershoot
PROPERTIES
    SessionRequestsEnd
