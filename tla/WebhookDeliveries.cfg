CONSTANTS
    w1 = w1
    w2 = w2
    hook = hook
    export = export
    Worker <- TwoWorkers
    Push <- OnlyHook
    Direct <- NoneDirect
    Export <- OneExport
    NoDelivery = NoDelivery
    MaxAttempts = 2
    Batch = 1
    MaxFaults = 1
    MaxLate = 1
    MaxToggles = 1
SPECIFICATION WebhookFairSpec
INVARIANTS
    WebhookInvariant
    KeptApart
    PushBudget
    ExportOverrun
PROPERTIES
    PushOutcomeIsFinal
    ExportOutcomeIsFinalUnlessLate
    DeliveriesEnd
