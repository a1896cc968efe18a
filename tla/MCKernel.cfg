CONSTANTS
    Signals <- DispatchedSignals
    ValidatedSignals <- FromGraphCapability
    Accounts = {a1}
    LoopWaitsForBoot = FALSE
    BootTTL = 6
    DegradedTTL = 12
    RecoveryTTL = 6
    AgeCap = 26
SPECIFICATION Spec
INVARIANTS TypeOK FreezeIsWatched FreezeIsBounded FailedBootNeverServes
PROPERTIES IsRuntimeFreeze FreezeEnds
