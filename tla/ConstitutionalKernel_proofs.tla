--------------------- MODULE ConstitutionalKernel_proofs ---------------------
(***************************************************************************)
(* Proofs about the constitutional kernel, for every set of signals and    *)
(* every TTL.                                                              *)
(***************************************************************************)
EXTENDS ConstitutionalKernel, TLAPS

USE DEF States, FrozenStates

-----------------------------------------------------------------------------
(* What dispatch leaves in _currentState is a state of the registry.       *)
LEMMA StateAfterIsState ==
    ASSUME NEW s \in States, NEW e
    PROVE  StateAfter(s, e) \in States
BY DEF StateAfter, Target

(* The counters stay within the cap.                                       *)
LEMMA OlderType ==
    ASSUME NEW n \in 0..AgeCap
    PROVE  /\ Older(n) \in 0..AgeCap
           /\ Older(n) <= n + 1
           /\ n < AgeCap => Older(n) = n + 1
BY TTLAssumption DEF Older

(* The type invariant is inductive.                                        *)
THEOREM TypeCorrect == Spec => []TypeOK
<1>1. Init => TypeOK
  <2>1. 0 \in 0..AgeCap
    BY TTLAssumption
  <2> QED
    BY <2>1, Zenon DEF Init, TypeOK
<1>2. TypeOK /\ [Next]_vars => TypeOK'
  <2> SUFFICES ASSUME TypeOK, [Next]_vars
               PROVE  TypeOK'
    OBVIOUS
  <2> USE DEF TypeOK
  <2>0. 0 \in 0..AgeCap /\ AgeCap \in 0..AgeCap
    BY TTLAssumption
  <2>1. ASSUME NEW e, Dispatch(e)
        PROVE  state' \in States /\ age' \in 0..AgeCap /\ frozen' \in 0..AgeCap
    BY <2>0, <2>1, StateAfterIsState DEF Dispatch
  <2>2. ASSUME NEW e \in Signals, Signal(e) PROVE TypeOK'
    BY <2>1, <2>2 DEF Signal
  <2>3. CASE BootCompletes
    BY <2>1, <2>3 DEF BootCompletes
  <2>4. CASE BootFails
    BY <2>4 DEF BootFails
  <2>5. CASE Rehydrate
    BY <2>0, <2>5 DEF Rehydrate
  <2>6. CASE StartLoopEarly
    BY <2>6 DEF StartLoopEarly
  <2>7. CASE Tick
    <3>1. Aged(age) \in 0..AgeCap
      BY OlderType DEF Aged
    <3>2. CASE TickFires
      BY <2>0, <2>7, <3>1, <3>2, StateAfterIsState, OlderType DEF TickFires, Tick
    <3>3. CASE TickPasses
      BY <2>0, <2>7, <3>1, <3>3, OlderType DEF TickPasses, Tick
    <3> QED
      BY <2>7, <3>2, <3>3 DEF Tick
  <2>8. ASSUME NEW a \in Accounts, ReportInsightsFailure(a) PROVE TypeOK'
    BY <2>1, <2>8 DEF ReportInsightsFailure
  <2>9. ASSUME NEW a \in Accounts, NEW e, DecideInsightsFailure(a, e)
        PROVE  TypeOK'
    BY <2>1, <2>9 DEF DecideInsightsFailure
  <2>10. CASE UNCHANGED vars
    BY <2>10 DEF vars
  <2> QED
    BY <2>2, <2>3, <2>4, <2>5, <2>6, <2>7, <2>8, <2>9, <2>10 DEF Next
<1> QED
  BY <1>1, <1>2, PTL DEF Spec

-----------------------------------------------------------------------------
(* The domains' signals are never the kernel's own events.                 *)
LEMMA SignalsAreNotKernelEvents ==
    ASSUME NEW e \in Signals
    PROVE  e \in DegradingEvents \cup ClearingEvents
BY SignalsAssumption DEF LifecycleEvents

(* A signal never takes the runtime out of BOOTING or HALTED, nor into     *)
(* them or RECOVERY: its guard and the general guards stop it.             *)
LEMMA SignalEffect ==
    ASSUME NEW e \in Signals, NEW s \in States
    PROVE  /\ Materialises(s, e) => s \in {"HEALTHY", "DEGRADED"}
           /\ Materialises(s, e) => StateAfter(s, e) \in {"HEALTHY", "DEGRADED"}
           /\ ~Materialises(s, e) => StateAfter(s, e) = s
<1>1. e \in DegradingEvents \cup ClearingEvents
  BY SignalsAreNotKernelEvents
<1>2. CASE e \in DegradingEvents
  BY <1>2 DEF Materialises, StateAfter, Target, GuardedFrom, DegradingEvents,
              ReentrantEvents
<1>3. CASE e \in ClearingEvents
  BY <1>3 DEF Materialises, StateAfter, Target, GuardedFrom, DegradingEvents,
              ReentrantEvents, ClearingEvents
<1> QED
  BY <1>1, <1>2, <1>3

(* What the kernel's own events do, and that recorded events do nothing.   *)
LEMMA KernelEventEffect ==
    /\ \A s \in States : StateAfter(s, "BOOT_COMPLETE") =
           IF s \in {"HALTED", "DEAD"} THEN s ELSE "HEALTHY"
    /\ StateAfter("BOOTING", "FATAL_ERROR") = "HALTED"
    /\ StateAfter("DEGRADED", "RECOVERY_INITIATED") = "RECOVERY"
    /\ StateAfter("RECOVERY", "RECOVERY_COMPLETE") = "HEALTHY"
    /\ Materialises("BOOTING", "FATAL_ERROR")
    /\ Materialises("DEGRADED", "RECOVERY_INITIATED")
    /\ Materialises("RECOVERY", "RECOVERY_COMPLETE")
BY DEF StateAfter, Materialises, Target, GuardedFrom, GeneralGuard, LifecycleEvents,
       KernelEvents, DegradingEvents, ReentrantEvents, ClearingEvents

LEMMA RecordedEventEffect ==
    ASSUME NEW e \in RecordedEvents, NEW s
    PROVE  ~Materialises(s, e) /\ StateAfter(s, e) = s
BY DEF StateAfter, Materialises, RecordedEvents, LifecycleEvents, KernelEvents,
       DegradingEvents, ReentrantEvents, ClearingEvents

(* What a firing watchdog does in each state that has a TTL.               *)
LEMMA TickFiresEffect ==
    ASSUME TypeOK, TickFires
    PROVE  /\ loop
           /\ age' = 0
           /\ \/ state = "BOOTING"  /\ state' = "HALTED"
              \/ state = "DEGRADED" /\ state' = "RECOVERY" /\ Older(age) >= DegradedTTL
              \/ state = "RECOVERY" /\ state' = "HEALTHY"
<1>1. loop /\ HasTTL(state)
  BY DEF TickFires, MayFire
<1>2. CASE state = "BOOTING"
  BY <1>1, <1>2, KernelEventEffect DEF TickFires, WatchdogEvent
<1>3. CASE state = "DEGRADED"
  <2>1. Older(age) >= DegradedTTL
    BY <1>1, <1>3 DEF TickFires, MayFire, Aged, TTL
  <2> QED
    BY <1>1, <1>3, <2>1, KernelEventEffect DEF TickFires, WatchdogEvent
<1>4. CASE state = "RECOVERY"
  BY <1>1, <1>4, KernelEventEffect DEF TickFires, WatchdogEvent
<1> QED
  BY <1>1, <1>2, <1>3, <1>4 DEF HasTTL

-----------------------------------------------------------------------------
(* No freeze goes unwatched, whatever the signals and however the boot is  *)
(* ordered with the watchdog: a frozen state implies a completed boot, and *)
(* completing the boot starts the loop.                                    *)
LEMMA WatchStep ==
    ASSUME TypeOK, WatchInv, [Next]_vars
    PROVE  WatchInv'
<1> USE DEF WatchInv
<1>1. ASSUME NEW e \in Signals, Signal(e) PROVE WatchInv'
  BY <1>1, SignalEffect DEF Signal, Dispatch, TypeOK
<1>2. CASE BootCompletes
  BY <1>2, KernelEventEffect DEF BootCompletes, Dispatch, TypeOK
<1>3. CASE BootFails
  BY <1>3 DEF BootFails
<1>4. CASE Rehydrate
  BY <1>4 DEF Rehydrate
<1>5. CASE StartLoopEarly
  BY <1>5 DEF StartLoopEarly
<1>6. CASE Tick
  <2>1. CASE TickFires
    BY <1>6, <2>1, TickFiresEffect DEF Tick
  <2>2. CASE TickPasses
    BY <1>6, <2>2 DEF Tick, TickPasses
  <2> QED
    BY <1>6, <2>1, <2>2 DEF Tick
<1>7. ASSUME NEW a \in Accounts, ReportInsightsFailure(a) PROVE WatchInv'
  <2>1. state' = state
    BY <1>7, RecordedEventEffect DEF ReportInsightsFailure, Dispatch, RecordedEvents
  <2> QED
    BY <1>7, <2>1 DEF ReportInsightsFailure
<1>8. ASSUME NEW a \in Accounts,
             NEW e \in {"TOKEN_REFRESH_RESULT", "CK_CAPABILITY_CHECK_RESULT"},
             DecideInsightsFailure(a, e)
      PROVE  WatchInv'
  <2>1. state' = state
    BY <1>8, RecordedEventEffect DEF DecideInsightsFailure, Dispatch, RecordedEvents
  <2> QED
    BY <1>8, <2>1 DEF DecideInsightsFailure
<1>9. CASE UNCHANGED vars
  BY <1>9 DEF vars
<1> QED
  BY <1>1, <1>2, <1>3, <1>4, <1>5, <1>6, <1>7, <1>8, <1>9 DEF Next

(* A runtime that blocks its domains has its watchdog installed.           *)
THEOREM FreezeWatched == Spec => []FreezeIsWatched
<1>1. Init => WatchInv
  BY DEF Init, WatchInv
<1>2. TypeOK /\ WatchInv /\ [Next]_vars => WatchInv'
  BY WatchStep
<1>3. WatchInv => FreezeIsWatched
  BY DEF WatchInv, FreezeIsWatched
<1> QED
  BY <1>1, <1>2, <1>3, TypeCorrect, PTL DEF Spec

-----------------------------------------------------------------------------
(* A halted runtime is locked down: the signals and the watchdog leave it  *)
(* alone, a late BOOT_COMPLETE is refused, and only a rehydration of a     *)
(* boot still running sets it back.                                        *)
THEOREM HaltedLockedDown == Spec => HaltedIsLockedDown
<1>1. TypeOK /\ [Next]_vars
        => (state = "HALTED" => \/ state' = "HALTED"
                                \/ state' = "BOOTING" /\ boot = "running")
  <2> SUFFICES ASSUME TypeOK, [Next]_vars, state = "HALTED", state' # "HALTED"
               PROVE  state' = "BOOTING" /\ boot = "running"
    OBVIOUS
  <2>1. ASSUME NEW e \in Signals, Signal(e) PROVE FALSE
    BY <2>1, SignalEffect DEF Signal, Dispatch, TypeOK
  <2>2. CASE BootCompletes
    BY <2>2, KernelEventEffect DEF BootCompletes, Dispatch, TypeOK
  <2>3. CASE BootFails
    BY <2>3 DEF BootFails
  <2>4. CASE Rehydrate
    BY <2>4 DEF Rehydrate
  <2>5. CASE StartLoopEarly
    BY <2>5 DEF StartLoopEarly
  <2>6. CASE Tick
    <3>1. CASE TickFires
      BY <3>1, TickFiresEffect
    <3>2. CASE TickPasses
      BY <3>2 DEF TickPasses
    <3> QED
      BY <2>6, <3>1, <3>2 DEF Tick
  <2>7. ASSUME NEW a \in Accounts, ReportInsightsFailure(a) PROVE FALSE
    BY <2>7, RecordedEventEffect DEF ReportInsightsFailure, Dispatch, RecordedEvents
  <2>8. ASSUME NEW a \in Accounts,
               NEW e \in {"TOKEN_REFRESH_RESULT", "CK_CAPABILITY_CHECK_RESULT"},
               DecideInsightsFailure(a, e)
        PROVE  FALSE
    BY <2>8, RecordedEventEffect DEF DecideInsightsFailure, Dispatch, RecordedEvents
  <2>9. CASE UNCHANGED vars
    BY <2>9 DEF vars
  <2> QED
    BY <2>1, <2>2, <2>3, <2>4, <2>5, <2>6, <2>7, <2>8, <2>9 DEF Next
<1> QED
  BY <1>1, TypeCorrect, PTL DEF Spec, HaltedIsLockedDown

(* Recovery is earned: of all steps only a firing watchdog enters RECOVERY,*)
(* and it does so from a DEGRADED state past its TTL.                      *)
THEOREM RecoveryEarned == Spec => RecoveryIsEarned
<1>1. TypeOK /\ [Next]_vars
        => (state # "RECOVERY" /\ state' = "RECOVERY"
              => state = "DEGRADED" /\ age + 1 >= DegradedTTL)
  <2> SUFFICES ASSUME TypeOK, [Next]_vars, state # "RECOVERY", state' = "RECOVERY"
               PROVE  state = "DEGRADED" /\ age + 1 >= DegradedTTL
    OBVIOUS
  <2>1. ASSUME NEW e \in Signals, Signal(e) PROVE FALSE
    BY <2>1, SignalEffect DEF Signal, Dispatch, TypeOK
  <2>2. CASE BootCompletes
    BY <2>2, KernelEventEffect DEF BootCompletes, Dispatch, TypeOK
  <2>3. CASE BootFails
    BY <2>3 DEF BootFails
  <2>4. CASE Rehydrate
    BY <2>4 DEF Rehydrate
  <2>5. CASE StartLoopEarly
    BY <2>5 DEF StartLoopEarly
  <2>6. CASE Tick
    <3>1. CASE TickFires
      <4>1. state = "DEGRADED" /\ Older(age) >= DegradedTTL
        BY <3>1, TickFiresEffect
      <4>2. age \in 0..AgeCap /\ Older(age) \in 0..AgeCap /\ Older(age) <= age + 1
        BY OlderType DEF TypeOK
      <4> QED
        BY <4>1, <4>2, TTLAssumption
    <3>2. CASE TickPasses
      BY <3>2 DEF TickPasses
    <3> QED
      BY <2>6, <3>1, <3>2 DEF Tick
  <2>7. ASSUME NEW a \in Accounts, ReportInsightsFailure(a) PROVE FALSE
    BY <2>7, RecordedEventEffect DEF ReportInsightsFailure, Dispatch, RecordedEvents
  <2>8. ASSUME NEW a \in Accounts,
               NEW e \in {"TOKEN_REFRESH_RESULT", "CK_CAPABILITY_CHECK_RESULT"},
               DecideInsightsFailure(a, e)
        PROVE  FALSE
    BY <2>8, RecordedEventEffect DEF DecideInsightsFailure, Dispatch, RecordedEvents
  <2>9. CASE UNCHANGED vars
    BY <2>9 DEF vars
  <2> QED
    BY <2>1, <2>2, <2>3, <2>4, <2>5, <2>6, <2>7, <2>8, <2>9 DEF Next
<1> QED
  BY <1>1, TypeCorrect, PTL DEF Spec, RecoveryIsEarned

-----------------------------------------------------------------------------
(* The freeze is bounded when every signal that may restart the time spent *)
(* in DEGRADED is dispatched under validation, as graph-capability does.   *)
ReentryIsValidated == Signals \cap ReentrantEvents \subseteq ValidatedSignals

(* Under that condition a signal only enters DEGRADED from HEALTHY and     *)
(* only leaves it to HEALTHY.                                              *)
LEMMA SignalCannotReenter ==
    ASSUME ReentryIsValidated, TypeOK, NEW e \in Signals, Signal(e)
    PROVE  \/ UNCHANGED <<state, age>> /\ (state \in FrozenStates => UNCHANGED frozen)
                                        /\ (state \notin FrozenStates => frozen' = 0)
           \/ state = "HEALTHY" /\ state' = "DEGRADED" /\ age' = 0 /\ frozen' = frozen
           \/ state = "DEGRADED" /\ state' = "HEALTHY" /\ frozen' = 0
<1>1. CASE ~Materialises(state, e)
  BY <1>1, SignalEffect DEF Signal, Dispatch, TypeOK
<1>2. CASE Materialises(state, e) /\ e \in ReentrantEvents
  <2>1. DomainMayMove(state, "graph-capability")
    BY <1>2 DEF ReentryIsValidated, Signal
  <2>2. state = "HEALTHY"
    BY <1>2, <2>1, SignalEffect DEF DomainMayMove, TypeOK
  <2>3. StateAfter(state, e) = "DEGRADED"
    BY <1>2 DEF StateAfter, Target, DegradingEvents, ReentrantEvents
  <2> QED
    BY <1>2, <2>2, <2>3 DEF Signal, Dispatch
<1>3. CASE Materialises(state, e) /\ e \in DegradingEvents \ ReentrantEvents
  <2>1. state = "HEALTHY"
    BY <1>3 DEF Materialises, GuardedFrom, DegradingEvents, ReentrantEvents, ClearingEvents
  <2>2. StateAfter(state, e) = "DEGRADED"
    BY <1>3 DEF StateAfter, Target, DegradingEvents, ReentrantEvents
  <2> QED
    BY <1>3, <2>1, <2>2 DEF Signal, Dispatch
<1>4. CASE Materialises(state, e) /\ e \in ClearingEvents
  <2>1. state = "DEGRADED"
    BY <1>4 DEF Materialises, GuardedFrom, ClearingEvents, DegradingEvents, ReentrantEvents
  <2>2. StateAfter(state, e) = "HEALTHY"
    BY <1>4 DEF StateAfter, Target, ClearingEvents, DegradingEvents, ReentrantEvents
  <2> QED
    BY <1>4, <2>1, <2>2 DEF Signal, Dispatch
<1> QED
  BY <1>1, <1>2, <1>3, <1>4, SignalsAreNotKernelEvents

LEMMA FreezeStep ==
    ASSUME ReentryIsValidated, TypeOK, WatchInv, FreezeInv, [Next]_vars
    PROVE  FreezeInv'
<1> USE DEF FreezeInv
<1>0. /\ DegradedTTL \in Nat /\ RecoveryTTL \in Nat /\ AgeCap \in Nat
      /\ AgeCap > DegradedTTL + RecoveryTTL + 1
      /\ DegradedTTL > 0 /\ RecoveryTTL > 0
      /\ age \in 0..AgeCap /\ frozen \in 0..AgeCap
  BY TTLAssumption DEF TypeOK
<1>1. ASSUME NEW e \in Signals, Signal(e) PROVE FreezeInv'
  BY <1>0, <1>1, SignalCannotReenter
<1>2. CASE BootCompletes
  <2>1. \/ state' = "HEALTHY"
        \/ state' = "HALTED"
    BY <1>2, KernelEventEffect DEF BootCompletes, Dispatch, TypeOK, WatchInv
  <2>2. frozen' = 0
    BY <1>2, <2>1 DEF BootCompletes, Dispatch
  <2> QED
    BY <2>1, <2>2
<1>3. CASE BootFails
  BY <1>3 DEF BootFails
<1>4. CASE Rehydrate
  BY <1>4 DEF Rehydrate
<1>5. CASE StartLoopEarly
  BY <1>5 DEF StartLoopEarly
<1>6. CASE Tick
  <2>1. CASE TickFires
    <3>1. /\ Older(frozen) \in 0..AgeCap /\ Older(frozen) <= frozen + 1
      BY <1>0, OlderType
    <3>2. CASE state = "DEGRADED"
      <4>1. state' = "RECOVERY" /\ age' = 0
        BY <2>1, <3>2, TickFiresEffect
      <4>2. frozen' = Older(frozen)
        BY <2>1, <4>1 DEF TickFires
      <4> QED
        BY <1>0, <3>1, <3>2, <4>1, <4>2
    <3>3. CASE state # "DEGRADED"
      <4>1. state' \in {"HEALTHY", "HALTED"}
        BY <2>1, <3>3, TickFiresEffect
      <4>2. frozen' = 0
        BY <2>1, <4>1 DEF TickFires
      <4> QED
        BY <4>1, <4>2
    <3> QED
      BY <3>2, <3>3
  <2>2. CASE TickPasses
    <3>1. state' = state
      BY <2>2 DEF TickPasses
    <3>2. CASE state \notin FrozenStates
      BY <2>2, <3>1, <3>2 DEF TickPasses
    <3>3. CASE state \in FrozenStates
      <4>1. loop /\ HasTTL(state)
        BY <3>3 DEF WatchInv, HasTTL
      <4>2. age' = Older(age) /\ frozen' = Older(frozen)
        BY <2>2, <3>3, <4>1 DEF TickPasses, Aged
      <4>3. ~(Older(age) > TTL(state))
        BY <2>2, <4>1 DEF TickPasses, MustFire, Aged
      <4>4. /\ Older(age) \in 0..AgeCap /\ Older(frozen) \in 0..AgeCap
            /\ Older(frozen) <= frozen + 1
            /\ age < AgeCap => Older(age) = age + 1
        BY <1>0, OlderType
      <4>5. CASE state = "DEGRADED"
        BY <1>0, <3>1, <4>2, <4>3, <4>4, <4>5 DEF TTL
      <4>6. CASE state = "RECOVERY"
        BY <1>0, <3>1, <4>2, <4>3, <4>4, <4>6 DEF TTL
      <4> QED
        BY <3>3, <4>5, <4>6
    <3> QED
      BY <3>2, <3>3
  <2> QED
    BY <1>6, <2>1, <2>2 DEF Tick
<1>7. ASSUME NEW e \in RecordedEvents, Dispatch(e) PROVE FreezeInv'
  <2>1. state' = state /\ age' = age
    BY <1>7, RecordedEventEffect DEF Dispatch
  <2>2. frozen' = IF state \in FrozenStates THEN frozen ELSE 0
    BY <1>7, RecordedEventEffect DEF Dispatch
  <2> QED
    BY <2>1, <2>2
<1>8. ASSUME NEW a \in Accounts, ReportInsightsFailure(a) PROVE FreezeInv'
  BY <1>7, <1>8 DEF ReportInsightsFailure, RecordedEvents
<1>9. ASSUME NEW a \in Accounts,
             NEW e \in {"TOKEN_REFRESH_RESULT", "CK_CAPABILITY_CHECK_RESULT"},
             DecideInsightsFailure(a, e)
      PROVE  FreezeInv'
  BY <1>7, <1>9 DEF DecideInsightsFailure, RecordedEvents
<1>10. CASE UNCHANGED vars
  BY <1>10 DEF vars
<1> QED
  BY <1>1, <1>2, <1>3, <1>4, <1>5, <1>6, <1>8, <1>9, <1>10 DEF Next

(* A freeze lasts at most both TTLs and a tick, if every signal that       *)
(* DEGRADED accepts again comes from a domain that the freeze blocks.      *)
THEOREM FreezeBounded ==
    ASSUME ReentryIsValidated
    PROVE  Spec => []FreezeIsBounded
<1>1. Init => WatchInv /\ FreezeInv
  BY DEF Init, WatchInv, FreezeInv
<1>2. TypeOK /\ WatchInv /\ FreezeInv /\ [Next]_vars => WatchInv' /\ FreezeInv'
  BY WatchStep, FreezeStep
<1>3. TypeOK /\ FreezeInv => FreezeIsBounded
  BY TTLAssumption DEF TypeOK, FreezeInv, FreezeIsBounded
<1> QED
  BY <1>1, <1>2, <1>3, TypeCorrect, PTL DEF Spec

-----------------------------------------------------------------------------
(* Everything a signal can do, whether or not it is validated: nothing, or *)
(* enter, re-enter or leave DEGRADED.                                      *)
LEMMA SignalMoves ==
    ASSUME TypeOK, NEW e \in Signals, Signal(e)
    PROVE  /\ UNCHANGED <<loop, boot, pending, reported>>
           /\ \/ UNCHANGED <<state, age>>
              \/ /\ state \in {"HEALTHY", "DEGRADED"}
                 /\ state' \in {"HEALTHY", "DEGRADED"}
                 /\ age' = 0
           /\ frozen' = IF state' \in FrozenStates THEN frozen ELSE 0
BY SignalEffect DEF Signal, Dispatch, TypeOK

(* Recorded events leave the runtime alone.                                *)
LEMMA RecordedMoves ==
    ASSUME NEW e \in RecordedEvents, Dispatch(e)
    PROVE  /\ UNCHANGED <<state, age>>
           /\ frozen' = IF state \in FrozenStates THEN frozen ELSE 0
BY RecordedEventEffect DEF Dispatch

(* A freeze is as old as the state that makes it, whatever restarts the    *)
(* state: the part of the argument that needs no validated signals.        *)
LEMMA LastStep ==
    ASSUME TypeOK, WatchInv, LastInv, [Next]_vars
    PROVE  LastInv'
<1> USE DEF LastInv
<1>0. /\ DegradedTTL \in Nat /\ RecoveryTTL \in Nat /\ AgeCap \in Nat
      /\ age \in 0..AgeCap /\ frozen \in 0..AgeCap
  BY TTLAssumption DEF TypeOK
<1>1. ASSUME NEW e \in Signals, Signal(e) PROVE LastInv'
  BY <1>0, <1>1, SignalMoves
<1>2. CASE BootCompletes
  <2>1. state' \in {"HEALTHY", "HALTED"}
    BY <1>2, KernelEventEffect DEF BootCompletes, Dispatch, TypeOK, WatchInv
  <2> QED
    BY <1>2, <2>1 DEF BootCompletes, Dispatch
<1>3. CASE BootFails
  BY <1>3 DEF BootFails
<1>4. CASE Rehydrate
  BY <1>4 DEF Rehydrate
<1>5. CASE StartLoopEarly
  BY <1>5 DEF StartLoopEarly
<1>6. CASE Tick
  <2>0. /\ Older(frozen) \in 0..AgeCap /\ Older(age) \in 0..AgeCap
        /\ Older(age) <= age + 1
        /\ frozen < AgeCap => Older(frozen) = frozen + 1
        /\ frozen = AgeCap => Older(frozen) = AgeCap
    BY <1>0, OlderType DEF Older
  <2>1. CASE TickFires
    <3>1. CASE state = "DEGRADED"
      <4>1. state' = "RECOVERY" /\ age' = 0 /\ Older(age) >= DegradedTTL
        BY <2>1, <3>1, TickFiresEffect
      <4>2. frozen' = Older(frozen)
        BY <2>1, <4>1 DEF TickFires
      <4>3. frozen' = AgeCap \/ frozen' >= DegradedTTL
        BY <1>0, <2>0, <3>1, <4>1, <4>2
      <4> QED
        BY <1>0, <4>1, <4>3
    <3>2. CASE state # "DEGRADED"
      <4>1. state' \in {"HEALTHY", "HALTED"}
        BY <2>1, <3>2, TickFiresEffect
      <4> QED
        BY <2>1, <4>1 DEF TickFires
    <3> QED
      BY <3>1, <3>2
  <2>2. CASE TickPasses
    <3>1. state' = state
      BY <2>2 DEF TickPasses
    <3>2. CASE state \notin FrozenStates
      BY <2>2, <3>1, <3>2 DEF TickPasses
    <3>3. CASE state \in FrozenStates
      <4>1. age' = Older(age) /\ frozen' = Older(frozen)
        BY <2>2, <3>3 DEF TickPasses, Aged, HasTTL
      <4>2. CASE state = "DEGRADED"
        BY <1>0, <2>0, <3>1, <4>1, <4>2
      <4>3. CASE state = "RECOVERY"
        <5>1. CASE frozen = AgeCap
          BY <2>0, <3>1, <4>1, <4>3, <5>1
        <5>2. CASE frozen < AgeCap /\ frozen >= DegradedTTL + age
          BY <1>0, <2>0, <3>1, <4>1, <4>3, <5>2
        <5> QED
          BY <1>0, <4>3, <5>1, <5>2
      <4> QED
        BY <3>3, <4>2, <4>3
    <3> QED
      BY <3>2, <3>3
  <2> QED
    BY <1>6, <2>1, <2>2 DEF Tick
<1>7. ASSUME NEW a \in Accounts, ReportInsightsFailure(a) PROVE LastInv'
  BY <1>7, RecordedMoves DEF ReportInsightsFailure, RecordedEvents
<1>8. ASSUME NEW a \in Accounts,
             NEW e \in {"TOKEN_REFRESH_RESULT", "CK_CAPABILITY_CHECK_RESULT"},
             DecideInsightsFailure(a, e)
      PROVE  LastInv'
  BY <1>8, RecordedMoves DEF DecideInsightsFailure, RecordedEvents
<1>9. CASE UNCHANGED vars
  BY <1>9 DEF vars
<1> QED
  BY <1>1, <1>2, <1>3, <1>4, <1>5, <1>6, <1>7, <1>8, <1>9 DEF Next

(* The step of a freezing runtime under a tick.                            *)
LEMMA TickFreezes ==
    ASSUME TypeOK, WatchInv, LastInv, Tick
    PROVE  [Freezing!Next]_(Freezing!freezeVars)
<1> USE DEF Mode
<1>0. /\ DegradedTTL \in Nat /\ RecoveryTTL \in Nat /\ AgeCap \in Nat
      /\ AgeCap > DegradedTTL + RecoveryTTL + 1
      /\ age \in 0..AgeCap /\ frozen \in 0..AgeCap
  BY TTLAssumption DEF TypeOK
<1>1. /\ Older(frozen) \in {frozen, frozen + 1} /\ Older(age) <= age + 1
      /\ Older(frozen) \in 0..AgeCap /\ Older(age) \in 0..AgeCap
      /\ frozen < AgeCap => Older(frozen) = frozen + 1
  BY <1>0, OlderType DEF Older
<1>2. UNCHANGED boot
  BY DEF Tick
<1>3. CASE TickFires /\ state = "BOOTING"
  <2>1. state' = "HALTED" /\ frozen' = 0 /\ frozen = 0
    BY <1>3, TickFiresEffect DEF TickFires, LastInv
  <2>2. Freezing!Halt
    BY <1>2, <1>3, <2>1 DEF Freezing!Halt
  <2> QED
    BY <2>2 DEF Freezing!Next
<1>4. CASE TickFires /\ state = "DEGRADED"
  <2>1. state' = "RECOVERY" /\ Older(age) >= DegradedTTL
    BY <1>4, TickFiresEffect
  <2>2. frozen' = Older(frozen)
    BY <1>4, <2>1 DEF TickFires
  <2>3. frozen' >= DegradedTTL
    BY <1>0, <1>1, <1>4, <2>1, <2>2 DEF LastInv
  <2>4. Freezing!Recover
    BY <1>1, <1>2, <1>4, <2>1, <2>2, <2>3 DEF Freezing!Recover
  <2> QED
    BY <2>4 DEF Freezing!Next
<1>5. CASE TickFires /\ state = "RECOVERY"
  <2>1. state' = "HEALTHY"
    BY <1>5, TickFiresEffect
  <2>2. frozen' = 0
    BY <1>5, <2>1 DEF TickFires
  <2>3. Older(age) >= RecoveryTTL
    BY <1>5 DEF TickFires, MayFire, Aged, HasTTL, TTL
  <2>4. frozen + 1 >= DegradedTTL + RecoveryTTL
    BY <1>0, <1>1, <1>5, <2>3 DEF LastInv
  <2>5. Freezing!Recovered
    BY <1>2, <1>5, <2>1, <2>2, <2>4 DEF Freezing!Recovered
  <2> QED
    BY <2>5 DEF Freezing!Next
<1>6. CASE TickPasses
  <2>1. state' = state
    BY <1>6 DEF TickPasses
  <2>2. CASE state \notin FrozenStates
    BY <1>2, <1>6, <2>1, <2>2 DEF TickPasses, LastInv, Freezing!freezeVars
  <2>3. CASE state \in FrozenStates /\ frozen' = frozen
    BY <1>2, <2>1, <2>3 DEF Freezing!freezeVars
  <2>4. CASE state \in FrozenStates /\ frozen' = frozen + 1
    <3>1. Freezing!Last
      BY <1>2, <2>1, <2>4 DEF Freezing!Last
    <3> QED
      BY <3>1 DEF Freezing!Next
  <2> QED
    BY <1>1, <1>6, <2>2, <2>3, <2>4 DEF TickPasses
<1> QED
  BY <1>3, <1>4, <1>5, <1>6, TickFiresEffect DEF Tick

(* Every step of the kernel is a step of the promised freeze, or none.     *)
LEMMA FreezingStep ==
    ASSUME TypeOK, WatchInv, LastInv, [Next]_vars
    PROVE  [Freezing!Next]_(Freezing!freezeVars)
<1> USE DEF Mode
<1>1. ASSUME NEW e \in Signals, Signal(e)
      PROVE  [Freezing!Next]_(Freezing!freezeVars)
  <2>1. CASE state' = state
    BY <1>1, <2>1, SignalMoves DEF Freezing!freezeVars, LastInv
  <2>2. CASE state = "HEALTHY" /\ state' = "DEGRADED"
    <3>1. Freezing!Freeze
      BY <1>1, <2>2, SignalMoves DEF Freezing!Freeze
    <3> QED
      BY <3>1 DEF Freezing!Next
  <2>3. CASE state = "DEGRADED" /\ state' = "HEALTHY"
    <3>1. Freezing!Thaw
      BY <1>1, <2>3, SignalMoves DEF Freezing!Thaw
    <3> QED
      BY <3>1 DEF Freezing!Next
  <2> QED
    BY <1>1, <2>1, <2>2, <2>3, SignalMoves
<1>2. CASE BootCompletes
  <2>0. boot' = "done" /\ boot = "running" /\ state \in {"BOOTING", "HALTED"}
    BY <1>2 DEF BootCompletes, WatchInv
  <2>1. CASE state = "BOOTING"
    <3>1. state' = "HEALTHY" /\ frozen' = 0 /\ frozen = 0
      BY <1>2, <2>1, KernelEventEffect DEF BootCompletes, Dispatch, LastInv
    <3>2. Freezing!Open
      BY <2>0, <2>1, <3>1 DEF Freezing!Open
    <3> QED
      BY <3>2 DEF Freezing!Next
  <2>2. CASE state = "HALTED"
    <3>1. state' = "HALTED" /\ frozen' = 0 /\ frozen = 0
      BY <1>2, <2>2, KernelEventEffect DEF BootCompletes, Dispatch, LastInv
    <3>2. Freezing!Abandon
      BY <2>0, <2>2, <3>1 DEF Freezing!Abandon
    <3> QED
      BY <3>2 DEF Freezing!Next
  <2> QED
    BY <2>0, <2>1, <2>2
<1>3. CASE BootFails
  <2>1. Freezing!Abandon
    BY <1>3 DEF BootFails, Freezing!Abandon
  <2> QED
    BY <2>1 DEF Freezing!Next
<1>4. CASE Rehydrate
  <2>0. boot = "running" /\ boot' = boot /\ state' = "BOOTING" /\ frozen' = 0
    BY <1>4 DEF Rehydrate
  <2>1. state \in {"BOOTING", "HALTED"} /\ frozen = 0
    BY <2>0 DEF WatchInv, LastInv
  <2>2. CASE state = "BOOTING"
    BY <2>0, <2>1, <2>2 DEF Freezing!freezeVars
  <2>3. CASE state = "HALTED"
    <3>1. Freezing!Restart
      BY <2>0, <2>1, <2>3 DEF Freezing!Restart
    <3> QED
      BY <3>1 DEF Freezing!Next
  <2> QED
    BY <2>1, <2>2, <2>3
<1>5. CASE StartLoopEarly
  BY <1>5 DEF StartLoopEarly, Freezing!freezeVars
<1>6. CASE Tick
  BY <1>6, TickFreezes
<1>7. ASSUME NEW a \in Accounts, ReportInsightsFailure(a)
      PROVE  UNCHANGED Freezing!freezeVars
  BY <1>7, RecordedMoves
     DEF ReportInsightsFailure, RecordedEvents, Freezing!freezeVars, LastInv
<1>8. ASSUME NEW a \in Accounts,
             NEW e \in {"TOKEN_REFRESH_RESULT", "CK_CAPABILITY_CHECK_RESULT"},
             DecideInsightsFailure(a, e)
      PROVE  UNCHANGED Freezing!freezeVars
  BY <1>8, RecordedMoves
     DEF DecideInsightsFailure, RecordedEvents, Freezing!freezeVars, LastInv
<1>9. CASE UNCHANGED vars
  BY <1>9 DEF vars, Freezing!freezeVars
<1> QED
  BY <1>1, <1>2, <1>3, <1>4, <1>5, <1>6, <1>7, <1>8, <1>9 DEF Next

(* For any signals and any TTLs the kernel implements the freeze it        *)
(* promises the domains: freezes come and go by degradation and recovery   *)
(* alone, each recovery in its time, and a halt is final but for a boot.   *)
THEOREM Freezes == Spec => IsRuntimeFreeze
<1>1. Init => WatchInv /\ LastInv /\ Freezing!Init
  BY TTLAssumption DEF Init, WatchInv, LastInv, Freezing!Init, Mode
<1>2. TypeOK /\ WatchInv /\ LastInv /\ [Next]_vars
        => WatchInv' /\ LastInv' /\ [Freezing!Next]_(Freezing!freezeVars)
  BY WatchStep, LastStep, FreezingStep
<1> QED
  BY <1>1, <1>2, TypeCorrect, PTL DEF Spec, IsRuntimeFreeze, Freezing!Spec

-----------------------------------------------------------------------------
(* A boot that failed never opens the runtime, for any signals: only the   *)
(* end of a boot leaves BOOTING for HEALTHY, and a halt takes a watchdog.  *)
LoopedHalt == state = "HALTED" => loop

LEMMA LoopedHaltStep ==
    ASSUME TypeOK, LoopedHalt, [Next]_vars
    PROVE  LoopedHalt'
<1> USE DEF LoopedHalt
<1>1. ASSUME NEW e \in Signals, Signal(e) PROVE LoopedHalt'
  BY <1>1, SignalMoves
<1>2. CASE BootCompletes
  BY <1>2 DEF BootCompletes
<1>3. CASE Tick
  BY <1>3, TickFiresEffect DEF Tick, TickPasses
<1>4. CASE BootFails \/ Rehydrate \/ StartLoopEarly
  BY <1>4 DEF BootFails, Rehydrate, StartLoopEarly
<1>5. ASSUME NEW a \in Accounts, ReportInsightsFailure(a) PROVE LoopedHalt'
  BY <1>5, RecordedMoves DEF ReportInsightsFailure, RecordedEvents
<1>6. ASSUME NEW a \in Accounts,
             NEW e \in {"TOKEN_REFRESH_RESULT", "CK_CAPABILITY_CHECK_RESULT"},
             DecideInsightsFailure(a, e)
      PROVE  LoopedHalt'
  BY <1>6, RecordedMoves DEF DecideInsightsFailure, RecordedEvents
<1>7. CASE UNCHANGED vars
  BY <1>7 DEF vars
<1> QED
  BY <1>1, <1>2, <1>3, <1>4, <1>5, <1>6, <1>7 DEF Next

(* After a boot that failed, the runtime never gets to serve: it stays in  *)
(* BOOTING or, once its watchdog runs, is halted.                          *)
THEOREM FailedBootServesNot == Spec => []FailedBootNeverServes
<1>1. Init => WatchInv /\ LoopedHalt
  BY DEF Init, WatchInv, LoopedHalt
<1>2. TypeOK /\ WatchInv /\ LoopedHalt /\ [Next]_vars => WatchInv' /\ LoopedHalt'
  BY WatchStep, LoopedHaltStep
<1>3. WatchInv /\ LoopedHalt => FailedBootNeverServes
  BY DEF WatchInv, LoopedHalt, FailedBootNeverServes
<1> QED
  BY <1>1, <1>2, <1>3, TypeCorrect, PTL DEF Spec

(* With the watchdog started last, as the orchestrator does, a boot that   *)
(* fails leaves the runtime in BOOTING for ever: nobody watches its TTL,   *)
(* no signal is accepted, and BOOTING vetoes no transition of a domain.    *)
FailedBootHangs == boot = "failed" => state = "BOOTING" /\ ~loop

(* That is so wherever nobody starts the watchdog before the boot is done. *)
THEOREM FailedBootIsUnwatched ==
    ASSUME LoopWaitsForBoot
    PROVE  Spec => []FailedBootHangs
<1> DEFINE Watching == loop => boot = "done"
<1>1. Init => Watching
  BY DEF Init
<1>2. TypeOK /\ Watching /\ [Next]_vars => Watching'
  <2> SUFFICES ASSUME TypeOK, Watching, [Next]_vars
               PROVE  Watching'
    OBVIOUS
  <2>1. ASSUME NEW e \in Signals, Signal(e) PROVE Watching'
    BY <2>1 DEF Signal
  <2>2. CASE BootCompletes \/ BootFails \/ Rehydrate \/ StartLoopEarly \/ Tick
    BY <2>2 DEF BootCompletes, BootFails, Rehydrate, StartLoopEarly, Tick
  <2>3. ASSUME NEW a \in Accounts, ReportInsightsFailure(a) PROVE Watching'
    BY <2>3 DEF ReportInsightsFailure
  <2>4. ASSUME NEW a \in Accounts, NEW e, DecideInsightsFailure(a, e)
        PROVE  Watching'
    BY <2>4 DEF DecideInsightsFailure
  <2>5. CASE UNCHANGED vars
    BY <2>5 DEF vars
  <2> QED
    BY <2>1, <2>2, <2>3, <2>4, <2>5 DEF Next
<1>3. Watching /\ FailedBootNeverServes => FailedBootHangs
  BY DEF FailedBootNeverServes, FailedBootHangs
<1> QED
  BY <1>1, <1>2, <1>3, TypeCorrect, FailedBootServesNot, PTL DEF Spec

-----------------------------------------------------------------------------
(* The handlers of the insights failures never run: whatever is reported   *)
(* and decided, and in whatever state, the map of pending failures stays   *)
(* empty, because an event with a null target returns before them.         *)
NoFailureIsStored == pending = {}

(* No accepted insights failure is ever stored.                            *)
THEOREM FailuresAreForgotten == Spec => []NoFailureIsStored
<1> USE DEF NoFailureIsStored
<1>1. Init => NoFailureIsStored
  BY DEF Init
<1>2. NoFailureIsStored /\ [Next]_vars => NoFailureIsStored'
  <2> SUFFICES ASSUME NoFailureIsStored, [Next]_vars
               PROVE  NoFailureIsStored'
    OBVIOUS
  <2>1. ASSUME NEW e \in Signals, Signal(e) PROVE NoFailureIsStored'
    BY <2>1 DEF Signal
  <2>2. CASE BootCompletes \/ BootFails \/ Rehydrate \/ StartLoopEarly \/ Tick
    BY <2>2 DEF BootCompletes, BootFails, Rehydrate, StartLoopEarly, Tick
  <2>3. ASSUME NEW a \in Accounts, ReportInsightsFailure(a)
        PROVE  NoFailureIsStored'
    BY <2>3, RecordedEventEffect DEF ReportInsightsFailure, RecordedEvents
  <2>4. ASSUME NEW a \in Accounts,
               NEW e \in {"TOKEN_REFRESH_RESULT", "CK_CAPABILITY_CHECK_RESULT"},
               DecideInsightsFailure(a, e)
        PROVE  NoFailureIsStored'
    BY <2>4, RecordedEventEffect DEF DecideInsightsFailure, RecordedEvents
  <2>5. CASE UNCHANGED vars
    BY <2>5 DEF vars
  <2> QED
    BY <2>1, <2>2, <2>3, <2>4, <2>5 DEF Next
<1> QED
  BY <1>1, <1>2, PTL DEF Spec
=============================================================================
