CONSTANTS
    w1 = w1
    w2 = w2
    k1 = k1
    k2 = k2
    npm = npm
    Worker <- OneWorker
    Event <- TwoEvents
    Ecosystem <- OnePackage
    Token <- FiveTokens
    Counter <- OneCounter
    Settings <- RegistryOnly
    NoToken = NoToken
    NoCounter = NoCounter
    MaxAttempts = 2
    BatchSize = 2
    MaxRetries = 1
    MaxSubChanges = 1
    MaxFaults = 1
SPECIFICATION RegenFairSpec
INVARIANTS
    NothingOvertaken
PROPERTIES
    JobsEnd
