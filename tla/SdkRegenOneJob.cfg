CONSTANTS
    w1 = w1
    w2 = w2
    k1 = k1
    k2 = k2
    npm = npm
    Worker <- TwoWorkers
    Event <- OneEvent
    Ecosystem <- OnePackage
    Token <- FourTokens
    Counter <- OneCounter
    Settings <- DryAndReal
    NoToken = NoToken
    NoCounter = NoCounter
    MaxAttempts = 2
    BatchSize = 1
    MaxRetries = 1
    MaxSubChanges = 2
    MaxFaults = 1
SPECIFICATION RegenSpec
INVARIANTS
    RegenInvariant
    SucceededDidEverything
    DeadLettersAlertedUnlessFault
PROPERTIES
    LifecycleImplemented
    PublishedIsRemembered
SYMMETRY SymmetricWorkers
CONSTRAINT RetriedOnce
