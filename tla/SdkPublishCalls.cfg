SPECIFICATION PublishSpec
CONSTANTS
    p1 = p1
    p2 = p2
    a = a
    r1 = r1
    r2 = r2
    r3 = r3
    Publisher <- TwoPublishers
    Release <- OneRelease
    Run <- ThreeRuns
    NoRun = NoRun
    NoRelease = NoRelease
    MaxCounter = 2
    MaxClaimAttempts = 2
INVARIANTS
    PublishInvariant
    UploadsExclusive
    PublishedIsOwn
    AlreadyPublishedExists
    NumbersFollowReleases
PROPERTIES
    CallsReturn
CHECK_DEADLOCK FALSE
