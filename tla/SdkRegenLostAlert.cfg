CONSTANTS
    w1 = w1
    w2 = w2
    k1 = k1
    k2 = k2
    npm = npm
    Worker <- OneWorker
    Event <- OneEvent
    Ecosystem <- OnePackage
    Token <- FourTokens
    Counter <- OneCounter
    Settings <- GitOnly
    NoToken = NoToken
    NoCounter = NoCounter
    MaxAttempts = 2
    BatchSize = 1
    MaxRetries = 1
    MaxSubChanges = 1
    MaxFaults = 1
SPECIFICATION RegenSpec
INVARIANTS
    DeadLettersAlerted
