-------------------------------- MODULE MCGate --------------------------------
(* Three concurrent invocations: two of one Promise.all and one of another  *)
(* domain.                                                                  *)
EXTENDS CanonicalGate
=============================================================================
