----------------------------- MODULE MCCapability -----------------------------
(* One account, overlapping calls, and the observations that its substrates  *)
(* make: token retrieved or lost, token validated, scopes granted or revoked.*)
EXTENDS GraphCapability

Only(s, v) == [t \in Slots |-> IF t = s THEN v ELSE "none"]

MCEnvelopes ==
    {Only("pat", "good"), Only("pat", "bad"), Only("uat", "good"),
     Only("detection", "good"), Only("detection", "weak"),
     Only("scope", "good"), Only("scope", "weak")}

(* A webhook event; the quota worker, which names no scopes, in and out of   *)
(* its lockout.                                                              *)
Quota(v) == [t \in Slots |-> IF t = "detection" THEN v
                             ELSE IF t = "scope" THEN "weak" ELSE "none"]

MCUndated == {Only("detection", "good"), Quota("good"), Quota("weak")}
=============================================================================
