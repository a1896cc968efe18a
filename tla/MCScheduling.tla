----------------------------- MODULE MCScheduling -----------------------------
(* Three cadence cycles that overlap, a caller that flushes or queries while*)
(* they run, and two metrics, so that one is recorded during the flush of   *)
(* the other.                                                               *)
EXTENDS Scheduling
=============================================================================
