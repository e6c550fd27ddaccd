CONSTANTS
    r1 = r1
    s1 = s1
    Request <- OneRequest
    Session <- OneSession
    NoSession = NoSession
    MaxId <- ThreeIds
    MaxResources = 2
    MaxSessions = 1
SPECIFICATION IdsSpec
PROPERTIES
    AllocatedIdsIncrease
