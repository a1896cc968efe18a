----------------------------- MODULE RetryChains -----------------------------
(***************************************************************************)
(* What the engagement FSM promises about the retries of an intent, as     *)
(* long as nothing else reports about the intent while a retry of it is on *)
(* its way: every retry answers one failure, retries follow one another,   *)
(* and no more than Budget of them start before the chain is given up or   *)
(* has its success.                                                        *)
(***************************************************************************)
EXTENDS Naturals

CONSTANTS
    Intents,    \* what is retried
    Budget      \* retries in a row

VARIABLES
    stage,      \* of each chain: none (nothing on its way), handling (of a
                \* failure), pending, running, or mixed: no longer one chain
    retries     \* of each chain: retries started in a row

vars == <<stage, retries>>

Init ==
    /\ stage = [i \in Intents |-> "none"]
    /\ retries = [i \in Intents |-> 0]

(* The chain of i gets to a stage, with n retries so far.                  *)
Becomes(i, place, n) ==
    /\ stage' = [stage EXCEPT ![i] = place]
    /\ retries' = [retries EXCEPT ![i] = n]

(* A failure that may be retried, the first or that of a retry.            *)
Fail(i) ==
    /\ stage[i] \in {"none", "running"}
    /\ retries[i] < Budget
    /\ Becomes(i, "handling", retries[i])

Schedule(i) ==
    /\ stage[i] = "handling"
    /\ Becomes(i, "pending", retries[i])

Retry(i) ==
    /\ stage[i] = "pending"
    /\ Becomes(i, "running", retries[i] + 1)

(* A success, a permanent failure, or a failure with the budget gone.      *)
End(i) ==
    /\ stage[i] \in {"none", "running"}
    /\ Becomes(i, "none", 0)

(* The failure or the outcome of the retry is lost; the budget used is not.*)
Drop(i) ==
    /\ stage[i] \in {"handling", "running"}
    /\ Becomes(i, "none", retries[i])

(* Somebody else reports about i meanwhile.                                *)
Entangle(i) ==
    /\ stage[i] \in {"handling", "pending", "running"}
    /\ Becomes(i, "mixed", 0)

Next ==
    \E i \in Intents :
        Fail(i) \/ Schedule(i) \/ Retry(i) \/ End(i) \/ Drop(i) \/ Entangle(i)

Spec == Init /\ [][Next]_vars
=============================================================================
