------------------------------ MODULE MCPersist ------------------------------
(* Small instances of the data plane: limits of one, so that starvation and  *)
(* backpressure are reached with two requests.                               *)
EXTENDS PersistTelemetry
=============================================================================
