CONSTANTS
    Intents = {"null"}
    Strands = {s1, s2}
    MaxRetries = 2
    MaxLate = 1
    Faults = {}
SPECIFICATION Spec
INVARIANT CancelStopsRetries
