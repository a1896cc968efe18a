CONSTANTS
    Domains = {"graph-capability", "dedup"}
    Strangers = {"nobody"}
    Invocations = {"credential", "quota", "check-dedup"}
SPECIFICATION Spec
INVARIANTS TypeOK GateFollowsWorkers DeliveredIsCanonical
PROPERTIES StuckIsForever
