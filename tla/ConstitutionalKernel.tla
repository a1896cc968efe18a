------------------------- MODULE ConstitutionalKernel -------------------------
(***************************************************************************)
(* The constitutional kernel's own state machine: the global lifecycle,    *)
(* driven by the signals of the domains, by the boot sequence of the       *)
(* orchestrator and by the watchdog, and the bookkeeping of insights       *)
(* failures that waits for a capability decision.                          *)
(*                                                                         *)
(* Time is counted in periods of the watchdog interval (10 s): a Tick is   *)
(* one period going by, whether or not the watchdog is running.  A state   *)
(* is entered somewhere inside a period, so on its n-th tick its elapsed   *)
(* time lies in ((n-1) * 10 s, n * 10 s]: at n = TTL the watchdog may act, *)
(* at n > TTL it must.                                                     *)
(***************************************************************************)
EXTENDS GlobalLifecycle

CONSTANTS
    Signals,            \* lifecycle events the domains dispatch
    ValidatedSignals,   \* those dispatched in the same turn as a validated
                        \* transition of the graph-capability domain
    Accounts,           \* business accounts with insights polling
    LoopWaitsForBoot,   \* TRUE: startLoop only after BOOT_COMPLETE, as the
                        \* orchestrator does; FALSE: at any time
    BootTTL, DegradedTTL, RecoveryTTL,  \* STATE_TTL_MS, in ticks
    AgeCap              \* ages above it are not told apart

ASSUME SignalsAssumption ==
    /\ Signals \subseteq LifecycleEvents \ KernelEvents
    /\ ValidatedSignals \subseteq Signals

ASSUME LoopAssumption == LoopWaitsForBoot \in BOOLEAN

ASSUME TTLAssumption ==
    /\ BootTTL \in Nat \ {0}
    /\ DegradedTTL \in Nat \ {0}
    /\ RecoveryTTL \in Nat \ {0}
    /\ AgeCap \in Nat
    /\ AgeCap > BootTTL + DegradedTTL + RecoveryTTL + 1

VARIABLES
    state,      \* _currentState
    age,        \* ticks since _stateEnteredAt, in the states with a TTL
    loop,       \* is the watchdog interval installed (_watchdogInterval)
    boot,       \* startAllWorkers: "running", "done" or "failed"
    pending,    \* accounts in _pendingInsightsFailures
    reported,   \* history: failures the kernel accepted, still undecided
    frozen      \* history: ticks since the last state that was not frozen

vars == <<state, age, loop, boot, pending, reported, frozen>>

-----------------------------------------------------------------------------
(* Faulty variants: one TTL for every state, a watchdog that does not know *)
(* how a recovery completes.                                               *)
TTLShared(s) == RecoveryTTL
WatchdogEventNoCompletion(s) ==
    IF s = "BOOTING" THEN "FATAL_ERROR" ELSE "RECOVERY_INITIATED"

TTL(s) == CASE s = "BOOTING"  -> BootTTL
            [] s = "DEGRADED" -> DegradedTTL
            [] OTHER          -> RecoveryTTL

HasTTL(s) == s \in {"BOOTING", "DEGRADED", "RECOVERY"}

Older(n) == IF n < AgeCap THEN n + 1 ELSE n

Init ==
    /\ state = "BOOTING"
    /\ age = 0
    /\ loop = FALSE
    /\ boot = "running"
    /\ pending = {}
    /\ reported = {}
    /\ frozen = 0

(* dispatch() of a global event: null target, guard, general guards, then  *)
(* the new state and the time it was entered.  What a frozen state left    *)
(* behind is forgotten once the state is no longer frozen.                 *)
Dispatch(e) ==
    /\ state' = StateAfter(state, e)
    /\ age' = IF Materialises(state, e) THEN 0 ELSE age
    /\ frozen' = IF StateAfter(state, e) \in FrozenStates THEN frozen ELSE 0

(* A signal of a domain: telemetry and reconciliation dispatch theirs      *)
(* after an await, at any time; graph-capability in the turn in which the  *)
(* kernel validated the transition that raises it.                         *)
Signal(e) ==
    /\ e \in ValidatedSignals => DomainMayMove(state, "graph-capability")
    /\ Dispatch(e)
    /\ UNCHANGED <<loop, boot, pending, reported>>

-----------------------------------------------------------------------------
(* startAllWorkers reaches its end: BOOT_COMPLETE, then startLoop.         *)
BootCompletes ==
    /\ boot = "running"
    /\ boot' = "done"
    /\ Dispatch("BOOT_COMPLETE")
    /\ loop' = TRUE
    /\ UNCHANGED <<pending, reported>>

(* A step of startAllWorkers throws; server.js logs it and goes on.        *)
BootFails ==
    /\ boot = "running"
    /\ boot' = "failed"
    /\ UNCHANGED <<state, age, loop, pending, reported, frozen>>

(* rehydrate(), called by startAllWorkers and safe to call again: an empty *)
(* ledger changes nothing; otherwise the state becomes the one the ledger  *)
(* holds, which is BOOTING because no writer appends governance entries,   *)
(* entered when the last domain entry was written, maybe long ago.         *)
Rehydrate ==
    /\ boot = "running"
    /\ state' = "BOOTING"
    /\ age' \in {0, AgeCap}
    /\ frozen' = 0
    /\ UNCHANGED <<loop, boot, pending, reported>>

(* startLoop() by a caller that does not wait for the end of the boot.     *)
StartLoopEarly ==
    /\ ~LoopWaitsForBoot
    /\ ~loop
    /\ loop' = TRUE
    /\ UNCHANGED <<state, age, boot, pending, reported, frozen>>

(* _watchdogTick: the event it dispatches for a state past its TTL.        *)
WatchdogEvent(s) ==
    CASE s = "BOOTING"  -> "FATAL_ERROR"
      [] s = "DEGRADED" -> "RECOVERY_INITIATED"
      [] s = "RECOVERY" -> "RECOVERY_COMPLETE"

MayFire(s, n) == HasTTL(s) /\ n >= TTL(s)
MustFire(s, n) == HasTTL(s) /\ n > TTL(s)

Aged(n) == IF HasTTL(state) THEN Older(n) ELSE n

TickFires ==
    /\ loop
    /\ MayFire(state, Aged(age))
    /\ state' = StateAfter(state, WatchdogEvent(state))
    /\ age' = IF Materialises(state, WatchdogEvent(state)) THEN 0 ELSE Aged(age)
    /\ frozen' = IF state' \in FrozenStates THEN Older(frozen) ELSE 0

TickPasses ==
    /\ ~(loop /\ MustFire(state, Aged(age)))
    /\ age' = Aged(age)
    /\ frozen' = IF state \in FrozenStates THEN Older(frozen) ELSE 0
    /\ UNCHANGED state

Tick ==
    /\ TickFires \/ TickPasses
    /\ UNCHANGED <<loop, boot, pending, reported>>

-----------------------------------------------------------------------------
(* CK_INSIGHTS_FAILURE_OBSERVED: dispatch answers allowed, and the         *)
(* handler that stores the failure and asks graph-capability for its       *)
(* verdict runs only if the event materialises.                            *)
ReportInsightsFailure(a) ==
    /\ reported' = reported \cup {a}
    /\ pending' = IF Materialises(state, "CK_INSIGHTS_FAILURE_OBSERVED")
                  THEN pending \cup {a} ELSE pending
    /\ Dispatch("CK_INSIGHTS_FAILURE_OBSERVED")
    /\ UNCHANGED <<loop, boot>>

(* TOKEN_REFRESH_RESULT, or a CK_CAPABILITY_CHECK_RESULT that decides: the *)
(* handler takes the failure out and dispatches a retry or a deferral.     *)
DecideInsightsFailure(a, e) ==
    /\ reported' = reported \ {a}
    /\ pending' = IF Materialises(state, e) THEN pending \ {a} ELSE pending
    /\ Dispatch(e)
    /\ UNCHANGED <<loop, boot>>

Next ==
    \/ \E e \in Signals : Signal(e)
    \/ BootCompletes
    \/ BootFails
    \/ Rehydrate
    \/ StartLoopEarly
    \/ Tick
    \/ \E a \in Accounts : ReportInsightsFailure(a)
    \/ \E a \in Accounts, e \in {"TOKEN_REFRESH_RESULT", "CK_CAPABILITY_CHECK_RESULT"} :
           DecideInsightsFailure(a, e)

(* setInterval keeps calling the watchdog while the process lives.         *)
Spec == Init /\ [][Next]_vars /\ WF_vars(Tick)

-----------------------------------------------------------------------------
(* Every variable has its type.                                            *)
TypeOK ==
    /\ state \in States
    /\ age \in 0..AgeCap
    /\ loop \in BOOLEAN
    /\ boot \in {"running", "done", "failed"}
    /\ pending \subseteq Accounts
    /\ reported \subseteq Accounts
    /\ frozen \in 0..AgeCap

(* A freeze is always watched: in a state that blocks the domains the      *)
(* watchdog is running, so there is someone to end it.                     *)
FreezeIsWatched == state \in FrozenStates => loop

(* The strengthening that makes FreezeIsWatched inductive: the runtime     *)
(* leaves BOOTING and HALTED only by completing its boot, which starts the *)
(* watchdog.                                                               *)
WatchInv ==
    /\ boot = "done" => loop
    /\ state \notin {"BOOTING", "HALTED"} => boot = "done"
    /\ state # "DEAD"

(* "HALTED can only transition to BOOTING": no signal, no watchdog and no  *)
(* late BOOT_COMPLETE moves a halted runtime, only a rehydration does, and *)
(* none happens once the boot is over.                                     *)
HaltedIsLockedDown ==
    [][state = "HALTED" => \/ state' = "HALTED"
                           \/ state' = "BOOTING" /\ boot = "running"]_vars

(* The runtime enters RECOVERY only out of a DEGRADED state that lasted    *)
(* its whole TTL without being restarted, never on a signal.               *)
RecoveryIsEarned ==
    [][state # "RECOVERY" /\ state' = "RECOVERY"
         => state = "DEGRADED" /\ age + 1 >= DegradedTTL]_vars

(* A boot that failed never opens the runtime, and nothing ends the wait   *)
(* but a watchdog that somebody has started all the same.                  *)
FailedBootNeverServes ==
    boot = "failed" => state = "BOOTING" \/ (state = "HALTED" /\ loop)

(* With the signals the domains dispatch, no sequence of degradations,     *)
(* clearings and recoveries blocks the domains for longer than one         *)
(* DEGRADED and one RECOVERY TTL (one tick more for the phase).            *)
FreezeIsBounded ==
    /\ state = "DEGRADED" => frozen <= DegradedTTL
    /\ state = "RECOVERY" => frozen <= DegradedTTL + RecoveryTTL + 1

(* The strengthening that makes FreezeIsBounded inductive: while DEGRADED  *)
(* the freeze is as old as the state, and RECOVERY started at most one     *)
(* tick after the TTL of DEGRADED.                                         *)
FreezeInv ==
    /\ state \notin FrozenStates => frozen = 0
    /\ state = "DEGRADED" => frozen = age /\ age <= DegradedTTL
    /\ state = "RECOVERY" => age <= RecoveryTTL /\ frozen <= DegradedTTL + 1 + age

(* The strengthening that the refinement below needs: a freeze is at least *)
(* as old as its state, and a RECOVERY came after a whole DEGRADED.        *)
LastInv ==
    /\ state \notin FrozenStates => frozen = 0
    /\ state = "DEGRADED" => frozen >= age
    /\ state = "RECOVERY" => frozen = AgeCap \/ frozen >= DegradedTTL + age

(* The kernel keeps its promise to the domains: whatever they signal, the  *)
(* runtime freezes and thaws as RuntimeFreeze says; a freeze that outlasts *)
(* DEGRADED keeps both TTLs, and neither a signal, a late BOOT_COMPLETE    *)
(* nor the watchdog moves a halted runtime.                                *)
Mode == CASE state = "BOOTING"  -> "starting"
          [] state = "HEALTHY"  -> "open"
          [] state = "DEGRADED" -> "degraded"
          [] state = "RECOVERY" -> "recovering"
          [] OTHER              -> "halted"

Freezing == INSTANCE RuntimeFreeze WITH
    MinDegraded <- DegradedTTL, MinRecovery <- RecoveryTTL,
    mode <- Mode, lasted <- frozen, booting <- boot = "running"
IsRuntimeFreeze == Freezing!Spec

(* Every freeze ends in a healthy runtime.                                 *)
FreezeEnds == state \in FrozenStates ~> state = "HEALTHY"

(* "We store the pending context so the result handler can decide": an     *)
(* accepted insights failure waits in _pendingInsightsFailures until the   *)
(* result for its account arrives.                                         *)
InsightsFailureIsPending == reported \subseteq pending
=============================================================================
