------------------------------- MODULE MCRetry -------------------------------
(* Three strands, so that two handlers of one intent can overlap while a    *)
(* third retry of it, or one of another intent, is pending or running.      *)
EXTENDS RetryCadence, TLC

Interchangeable == Permutations(Strands)
=============================================================================
