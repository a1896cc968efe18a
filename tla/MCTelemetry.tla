----------------------------- MODULE MCTelemetry -----------------------------
(* Bounds of the telemetry coordination model: the requests (one of the    *)
(* three events that wind a retry down, they are handled alike) and the    *)
(* global events of other domains.                                         *)
EXTENDS TelemetryCoordination

EachRequest == (CoordinationEvents \ WindDowns) \cup {"INGRESS_RESOLVED"}
NoEvents == {}
OtherCauses == {"RECONCILIATION_DRIFT_DETECTED", "RECONCILIATION_CLEARED"}
=============================================================================
