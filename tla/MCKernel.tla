------------------------------- MODULE MCKernel -------------------------------
(* Bounds of the kernel's model: the signals that src/ dispatches, the TTLs *)
(* of STATE_TTL_MS in 10-second ticks.                                      *)
EXTENDS ConstitutionalKernel

DispatchedSignals ==
    {"BACKPRESSURE_DETECTED", "BACKPRESSURE_CLEARED", "CAPABILITY_DEGRADED",
     "RECONCILIATION_DRIFT_DETECTED", "RECONCILIATION_CLEARED"}

FromGraphCapability == {"CAPABILITY_DEGRADED"}
=============================================================================
