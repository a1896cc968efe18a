CONSTANTS
    Cycles = {c1, c2}
    Requests <- NoEvents
    Signals <- NoEvents
    MaxIntents = 2
    MaxPending = 2
    MaxRewinds = 0
    MaxBuffered = 1
    EscalatedAt = 3
    DegradedAt = 6
SPECIFICATION FairSpec
PROPERTIES EveryIntentIsProcessed
