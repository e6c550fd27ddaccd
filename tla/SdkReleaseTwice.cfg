CONSTANTS
    w1 = w1
    w2 = w2
    k1 = k1
    npm = npm
    r1 = r1
    r2 = r2
    Worker <- OneWorker
    Event <- OneEvent
    Ecosystem <- OnePackage
    Token <- ThreeTokens
    Counter <- TwoCounters
    Settings <- Registry
    NoToken = NoToken
    NoCounter = NoCounter
    MaxAttempts = 2
    BatchSize = 1
    MaxRetries = 0
    MaxSubChanges = 1
    MaxFaults = 0
    Run <- TwoRuns
    NoRun = NoRun
    NoRelease = NoRelease
    MaxCounter = 1
    MaxClaimAttempts = 2
SPECIFICATION ReleaseSpec
INVARIANTS
    OneVersionPerPublish
