------------------------------ MODULE MCWebview ------------------------------
(* Five entries read two at a time, and a pump that gives up at the third   *)
(* failed attempt.                                                          *)
EXTENDS WebviewStream
=============================================================================
