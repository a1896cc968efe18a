CONSTANTS
    Signals <- DispatchedSignals
    ValidatedSignals <- FromGraphCapability
    Accounts = {a1, a2}
    LoopWaitsForBoot = TRUE
    BootTTL = 6
    DegradedTTL = 12
    RecoveryTTL = 6
    AgeCap = 26
SPECIFICATION Spec
INVARIANT InsightsFailureIsPending
