--------------------------- MODULE GlobalLifecycle ---------------------------
(***************************************************************************)
(* The global runtime lifecycle of the constitutional kernel, as pure      *)
(* operators: the states, what each global event targets, the states its   *)
(* guard accepts, the general guards, and the veto that the global state   *)
(* puts on the transitions of the domain FSMs.                             *)
(*                                                                         *)
(* Translated from control-plane/governance/constitutional-kernel.js.      *)
(***************************************************************************)
EXTENDS Naturals

States == {"BOOTING", "HEALTHY", "DEGRADED", "RECOVERY", "HALTED", "DEAD"}

(* Events whose guard accepts them in DEGRADED too: dispatched there they  *)
(* materialise DEGRADED again and restart the time spent in it.            *)
ReentrantEvents ==
    {"RETRY_PRESSURE_DETECTED", "SIGNAL_DESYNC_DETECTED", "CAPABILITY_DEGRADED"}

DegradingEvents ==
    ReentrantEvents \cup {"BACKPRESSURE_DETECTED", "RECONCILIATION_DRIFT_DETECTED"}

ClearingEvents ==
    {"BACKPRESSURE_CLEARED", "PRESSURE_CLEARED", "RECONCILIATION_CLEARED"}

(* Dispatched by the kernel alone, from its boot sequence and watchdog.    *)
KernelEvents ==
    {"BOOT_COMPLETE", "FATAL_ERROR", "RECOVERY_INITIATED", "RECOVERY_COMPLETE"}

LifecycleEvents == DegradingEvents \cup ClearingEvents \cup KernelEvents

(* Events whose target is null or a function that returns null.            *)
RecordedEvents ==
    {"DB_WRITE_FAILED", "INGRESS_STATE_CHANGED", "TRANSITION_WRITER_HEALTH_CHANGED",
     "RETRY_CADENCE_REQUEST", "RETRY_CADENCE_CLEAR",
     "CK_INSIGHTS_FAILURE_OBSERVED", "CK_CAPABILITY_CHECK_RESULT",
     "TOKEN_REFRESH_RESULT", "CAPABILITY_AUTH_FAILURE", "CAPABILITY_RECOVERED"}

(* Faulty variants: a halt whose target is null but materialised all the   *)
(* same, a map without guards.                                             *)
TargetNullHalt(e) == IF e = "FATAL_ERROR" THEN "NULL" ELSE "HEALTHY"
GuardedFromAnywhere(e) == States

(* GLOBAL_TRANSITION_MAP[e].target                                         *)
Target(e) ==
    CASE e \in DegradingEvents         -> "DEGRADED"
      [] e = "FATAL_ERROR"             -> "HALTED"
      [] e = "RECOVERY_INITIATED"      -> "RECOVERY"
      [] OTHER                         -> "HEALTHY"

(* GLOBAL_TRANSITION_MAP[e].guard, as the set of states it lets through.   *)
GuardedFrom(e) ==
    CASE e \in ReentrantEvents         -> {"HEALTHY", "DEGRADED"}
      [] e \in DegradingEvents \ ReentrantEvents -> {"HEALTHY"}
      [] e \in ClearingEvents          -> {"DEGRADED"}
      [] e = "RECOVERY_INITIATED"      -> {"DEGRADED"}
      [] e = "RECOVERY_COMPLETE"       -> {"RECOVERY"}
      [] OTHER                         -> States

(* runGeneralGuards: DEAD admits nothing, HALTED only a restart, RECOVERY  *)
(* only its own completion, a halt or a restart.                           *)
GeneralGuard(s, t) ==
    /\ s # "DEAD"
    /\ s = "HALTED" => t = "BOOTING"
    /\ s = "RECOVERY" => t \in {"HEALTHY", "HALTED", "BOOTING"}

(* Does dispatching e in state s materialise a state and run the event's   *)
(* buildActions?  A null target returns before the guard and before        *)
(* buildActions, so a recorded event does neither.                         *)
Materialises(s, e) ==
    /\ e \in LifecycleEvents
    /\ s \in GuardedFrom(e)
    /\ GeneralGuard(s, Target(e))

(* The global state after dispatch(e) in state s.                          *)
StateAfter(s, e) == IF Materialises(s, e) THEN Target(e) ELSE s

(* validateDomainTransition, but for the membrane authority of the event.  *)
FrozenStates == {"DEGRADED", "RECOVERY"}

DomainMayMove(s, d) ==
    /\ s \notin {"DEAD", "HALTED"}
    /\ s \in FrozenStates => d \in {"scheduling", "reconciliation"}
=============================================================================
