CONSTANTS
    Intents = {"null", "comment"}
    Strands = {s1, s2, s3}
    MaxRetries = 2
    MaxLate = 1
    Faults = {"freeze", "refuse", "die", "rate_limit", "stub"}
SYMMETRY Interchangeable
SPECIFICATION Spec
INVARIANTS TypeOK OverrunOnlyByLateReads HandleIsLive
PROPERTIES IsRetryChains
