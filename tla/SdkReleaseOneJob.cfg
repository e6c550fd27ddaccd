CONSTANTS
    w1 = w1
    w2 = w2
    k1 = k1
    npm = npm
    r1 = r1
    r2 = r2
    Worker <- TwoWorkers
    Event <- OneEvent
    Ecosystem <- OnePackage
    Token <- ThreeTokens
    Counter <- TwoCounters
    Settings <- BothOrDry
    NoToken = NoToken
    NoCounter = NoCounter
    MaxAttempts = 2
    BatchSize = 1
    MaxRetries = 1
    MaxSubChanges = 1
    MaxFaults = 1
    Run <- TwoRuns
    NoRun = NoRun
    NoRelease = NoRelease
    MaxCounter = 1
    MaxClaimAttempts = 2
SPECIFICATION ReleaseSpec
INVARIANTS
    ReleaseInvariant
    OnlyPeopleRepublish
PROPERTIES
    RegenImplemented
    BranchStraysOnlyLate
SYMMETRY SymmetricAll
CONSTRAINT OneTrouble
