CONSTANTS
    Cycles = {c1, c2}
    Requests <- EachRequest
    Signals <- OtherCauses
    MaxIntents = 2
    MaxPending = 1
    MaxRewinds = 1
    MaxBuffered = 1
    EscalatedAt = 1
    DegradedAt = 2
SPECIFICATION FairSpec
INVARIANTS TypeOK OneCycleAtATime NothingPassedBy
PROPERTIES IsIntentConsumer CycleEnds
