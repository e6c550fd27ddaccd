SPECIFICATION QuotaSpec
CONSTANTS
    p1 = p1
    p2 = p2
    c1 = c1
    c2 = c2
    c3 = c3
    c4 = c4
    free = free
    paced = paced
    open = open
    Process <- TwoProcesses
    NoProcess = NoProcess
    Call <- ThreeCalls
    NoCall = NoCall
    Tier <- ThreeTiers
    NoTier = NoTier
    FreeTier = free
    Daily <- DailyOf
    Rate <- RateOf
    DayLength = 2
    LimitsTtl = 1
    UsageTtl = 1
    MaxTime = 2
    ChangeTimes <- OnceAtOne
SYMMETRY SymmetricAll
CONSTRAINT Licenses
INVARIANTS
    QuotaInvariant
    RefusedOnlyWhenSpent
    OwnCallsCapped
    RateKept
    TierAppliesInTime
CHECK_DEADLOCK FALSE
