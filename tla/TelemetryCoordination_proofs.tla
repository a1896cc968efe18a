--------------------- MODULE TelemetryCoordination_proofs ---------------------
(***************************************************************************)
(* Proofs about the telemetry coordination FSM, for every number of        *)
(* cycles, intents, outages and restarts and every threshold.              *)
(***************************************************************************)
EXTENDS TelemetryCoordination, TLAPS

(* What the kernel's dispatch leaves is a state of its registry.           *)
LEMMA StateAfterIsState ==
    ASSUME NEW s \in States, NEW e
    PROVE  StateAfter(s, e) \in States
BY DEF StateAfter, Target, States

LEMMA GlobalAfterIsState ==
    ASSUME global \in States, NEW b
    PROVE  GlobalAfter(b) \in States
<1> DEFINE pressed == StateAfter(global, "BACKPRESSURE_DETECTED")
<1>1. pressed \in States
  BY StateAfterIsState
<1>2. StateAfter(pressed, "BACKPRESSURE_CLEARED") \in States
  BY <1>1, StateAfterIsState
<1> HIDE DEF pressed
<1>3. GlobalAfter(b) \in {global, pressed, StateAfter(pressed, "BACKPRESSURE_CLEARED")}
  BY DEF GlobalAfter, pressed
<1> QED
  BY <1>1, <1>2, <1>3

LEMMA LevelStateIsLocal == \A n : LevelState(n) \in LocalStates
BY DEF LevelState, LocalStates, IngressStates

-----------------------------------------------------------------------------
(* The type invariant is inductive.                                        *)
THEOREM TypeCorrect == Spec => []TypeOK
<1> USE BoundsAssumption
<1>1. Init => TypeOK
  <2> SUFFICES ASSUME Init PROVE TypeOK
    OBVIOUS
  <2>1. size = 0 /\ MaxIntents \in Nat /\ MaxPending \in Nat /\ MaxRewinds \in Nat
    BY DEF Init
  <2>2. settled \in [Positions -> Nat]
    BY DEF Init
  <2>3. global \in States /\ local \in LocalStates
    BY DEF Init, States, LocalStates
  <2>4. /\ size \in 0..MaxIntents /\ invalid \subseteq 1..size /\ cursor \in 0..size
        /\ attempts \in 0..DegradedAt /\ gates \in 0..MaxPending /\ rewinds \in 0..MaxRewinds
    BY <2>1 DEF Init
  <2>5. /\ phase \in [Cycles -> {"idle", "reading", "read"}]
        /\ from \in [Cycles -> 0..size]
        /\ batch \in [Cycles -> SUBSET (1..size)]
    BY <2>4 DEF Init
  <2>6. inFlight \in BOOLEAN /\ trigger \in BOOLEAN /\ queued \in BOOLEAN
    BY DEF Init
  <2>7. awaited \subseteq CoordinationEvents \cup {Reactive}
    BY DEF Init
  <2> QED
    BY <2>2, <2>3, <2>4, <2>5, <2>6, <2>7, Zenon DEF TypeOK
<1>2. TypeOK /\ [Next]_vars => TypeOK'
  <2> SUFFICES ASSUME TypeOK, [Next]_vars
               PROVE  TypeOK'
    OBVIOUS
  <2> USE DEF TypeOK
  <2> USE DEF logVars, cycleVars, reactiveVars, retryVars
  <2>1. CASE WriteIntent
    <3>1. size' \in 0..MaxIntents /\ size <= size' /\ invalid' \subseteq 1..size'
      <4>1. CASE /\ size < MaxIntents
                 /\ size' = size + 1
                 /\ invalid' \in {invalid, invalid \cup {size + 1}}
        <5>1. 1..size \subseteq 1..size' /\ size + 1 \in 1..size'
          BY <4>1
        <5>2. invalid' \subseteq 1..size'
          BY <4>1, <5>1
        <5> QED
          BY <4>1, <5>2
      <4>2. CASE UNCHANGED logVars
        BY <4>2
      <4> QED
        BY <2>1, <4>1, <4>2 DEF WriteIntent
    <3>2. trigger' \in BOOLEAN /\ queued' \in BOOLEAN
      BY <2>1 DEF WriteIntent, Trigger
    <3>3. cursor \in 0..size' /\ from \in [Cycles -> 0..size']
      BY <3>1
    <3>4. batch \in [Cycles -> SUBSET (1..size')]
      <4>1. 1..size \subseteq 1..size'
        BY <3>1
      <4> QED
        BY <4>1
    <3> QED
      BY <2>1, <3>1, <3>2, <3>3, <3>4 DEF WriteIntent
  <2>2. CASE RunTrigger
    BY <2>2 DEF RunTrigger
  <2>3. ASSUME NEW e \in Requests, Request(e) PROVE TypeOK'
    BY <2>3, EventsAssumption DEF Request
  <2>4. ASSUME NEW e, Refuse(e) PROVE TypeOK'
    BY <2>4 DEF Refuse, Resumes
  <2>5. ASSUME NEW c \in Cycles, ProcessIntents(c) PROVE TypeOK'
    BY <2>5 DEF ProcessIntents, Accepts, Resumes, LocalStates
  <2>6. ASSUME NEW c \in Cycles, ReadIntents(c) PROVE TypeOK'
    <3>1. Unread(c) \subseteq 1..size
      BY DEF Unread, Positions
    <3>2. batch' \in [Cycles -> SUBSET (1..size)] /\ cursor' \in 0..size
      BY <2>6, <3>1 DEF ReadIntents
    <3>3. rewinds' \in 0..MaxRewinds
      BY <2>6 DEF ReadIntents
    <3> QED
      BY <2>6, <3>2, <3>3 DEF ReadIntents
  <2>7. ASSUME NEW c \in Cycles, FinishCycle(c) PROVE TypeOK'
    <3>1. global' \in States
      BY <2>7, GlobalAfterIsState DEF FinishCycle
    <3>2. settled' \in [Positions -> Nat]
      BY <2>7 DEF FinishCycle
    <3>3. /\ phase' \in [Cycles -> {"idle", "reading", "read"}]
          /\ from' \in [Cycles -> 0..size]
          /\ batch' \in [Cycles -> SUBSET (1..size)]
      BY <2>7 DEF FinishCycle
    <3>4. inFlight' \in BOOLEAN
      BY <2>7, Zenon DEF FinishCycle, HeldAfter
    <3>5. UNCHANGED <<size, invalid, cursor, trigger, queued, attempts, gates, local,
                      awaited, rewinds>>
      BY <2>7 DEF FinishCycle
    <3> QED
      BY <3>1, <3>2, <3>3, <3>4, <3>5
  <2>8. CASE Halt \/ Resume
    BY <2>8 DEF Halt, Resume, Accepts, Resumes, LocalStates
  <2>9. CASE RequestRetry
    BY <2>9, LevelStateIsLocal DEF RequestRetry, Accepts, Resumes
  <2>10. CASE GateAnswers
    BY <2>10 DEF GateAnswers
  <2>11. CASE ShowRetry
    BY <2>11 DEF ShowRetry, Accepts, Resumes, LocalStates
  <2>12. ASSUME NEW e \in WindDowns, WindDown(e) PROVE TypeOK'
    BY <2>12 DEF WindDown, Accepts, Resumes, LocalStates
  <2>13. ASSUME NEW e \in Signals, Signal(e) PROVE TypeOK'
    BY <2>13, StateAfterIsState DEF Signal
  <2>14. CASE Restart
    <3>1. global' \in States
      BY <2>14, StateAfterIsState DEF Restart
    <3>2. /\ phase' \in [Cycles -> {"idle", "reading", "read"}]
          /\ from' \in [Cycles -> 0..size]
          /\ batch' \in [Cycles -> SUBSET (1..size)]
      BY <2>14 DEF Restart
    <3>3. /\ cursor' = 0 /\ attempts' = 0 /\ gates' = 0 /\ awaited' = {}
          /\ rewinds < MaxRewinds /\ rewinds' = rewinds + 1
          /\ local' = "IDLE"
          /\ UNCHANGED <<size, invalid, settled>>
      BY <2>14 DEF Restart
    <3>4. inFlight' \in BOOLEAN /\ trigger' \in BOOLEAN /\ queued' \in BOOLEAN
      BY <2>14 DEF Restart
    <3>5. cursor' \in 0..size /\ rewinds' \in 0..MaxRewinds /\ attempts' \in 0..DegradedAt
          /\ gates' \in 0..MaxPending
      BY <3>3
    <3> QED
      BY <3>1, <3>2, <3>3, <3>4, <3>5 DEF LocalStates
  <2>15. CASE UNCHANGED vars
    BY <2>15 DEF vars
  <2> QED
    BY <2>1, <2>2, <2>3, <2>4, <2>5, <2>6, <2>7, <2>8, <2>9, <2>10, <2>11, <2>12,
       <2>13, <2>14, <2>15 DEF Next
<1> QED
  BY <1>1, <1>2, PTL DEF Spec

-----------------------------------------------------------------------------
(* A cycle's batch is behind the cursor and is gone when it ends; until it *)
(* has read, the cursor is where it found it.                              *)
CycleOwnsCursor ==
    \A c \in Cycles :
        /\ phase[c] = "reading" => from[c] = cursor
        /\ phase[c] # "read" => batch[c] = {}
        /\ \A i \in batch[c] : i <= cursor

(* Positions still to be settled in this pass of the cursor.               *)
Due(i) == i > cursor \/ \E c \in Cycles : i \in batch[c]

(* A due position has a settlement left.                                   *)
DueIsPaidFor ==
    \A i \in Positions :
        settled[i] <= 1 + rewinds /\ (Due(i) => settled[i] <= rewinds)

IInv == OneCycleAtATime /\ CycleOwnsCursor /\ NothingPassedBy /\ DueIsPaidFor

(* The steps that leave the cycles, the cursor and the history alone.      *)
LEMMA OtherSteps ==
    ASSUME IInv, UNCHANGED cycleVars, UNCHANGED rewinds
    PROVE  IInv'
BY DEF IInv, OneCycleAtATime, CycleOwnsCursor, NothingPassedBy, DueIsPaidFor, Due, cycleVars

(* A cycle starts only when none runs.                                     *)
LEMMA ProcessIntentsKeeps ==
    ASSUME TypeOK, IInv, NEW c \in Cycles, ProcessIntents(c)
    PROVE  IInv'
<1> USE DEF TypeOK
<1>1. ~inFlight /\ \A d \in Cycles : phase[d] = "idle"
  BY DEF ProcessIntents, Accepts, Guarded, MayProcess, IInv, OneCycleAtATime
<1>2. /\ phase' = [phase EXCEPT ![c] = "reading"]
      /\ from' = [from EXCEPT ![c] = cursor]
      /\ inFlight' = TRUE
      /\ UNCHANGED <<cursor, batch, settled, rewinds>>
  BY DEF ProcessIntents
<1>3. OneCycleAtATime'
  BY <1>1, <1>2 DEF OneCycleAtATime
<1>4. CycleOwnsCursor'
  BY <1>1, <1>2 DEF IInv, CycleOwnsCursor
<1>5. NothingPassedBy'
  BY <1>1, <1>2 DEF IInv, NothingPassedBy
<1>6. DueIsPaidFor'
  BY <1>2 DEF IInv, DueIsPaidFor, Due
<1> QED
  BY <1>3, <1>4, <1>5, <1>6 DEF IInv

(* A read hands the cycle what the cursor passes, or moves the cursor to 0 *)
(* and counts a rewind, or moves nothing.                                  *)
LEMMA ReadIntentsKeeps ==
    ASSUME TypeOK, IInv, NEW c \in Cycles, ReadIntents(c)
    PROVE  IInv'
<1> USE DEF TypeOK
<1>1. /\ phase[c] = "reading" /\ phase' = [phase EXCEPT ![c] = "read"]
      /\ UNCHANGED <<inFlight, from, settled, size>>
  BY DEF ReadIntents, logVars
<1>2. \A d \in Cycles : d # c => phase[d] = "idle"
  BY <1>1 DEF IInv, OneCycleAtATime
<1>3. from[c] = cursor /\ \A d \in Cycles : batch[d] = {}
  BY <1>1, <1>2 DEF IInv, CycleOwnsCursor
<1>4. OneCycleAtATime'
  BY <1>1, <1>2 DEF IInv, OneCycleAtATime
<1>5. CASE /\ batch' = [batch EXCEPT ![c] = Unread(c)]
           /\ cursor' = size
           /\ UNCHANGED rewinds
  <2>1. \A i : i \in batch'[c] <=> i \in Positions /\ cursor < i /\ i <= size
    BY <1>3, <1>5 DEF Unread
  <2>2. \A d \in Cycles : d # c => batch'[d] = {}
    BY <1>3, <1>5
  <2>3. CycleOwnsCursor'
    BY <1>1, <1>2, <1>5, <2>1, <2>2 DEF CycleOwnsCursor, Positions
  <2>4. NothingPassedBy'
    <3> SUFFICES ASSUME NEW i \in 1..cursor'
                 PROVE  settled[i] > 0 \/ (phase'[c] = "read" /\ i \in batch'[c])
      BY <1>1 DEF NothingPassedBy
    <3>1. CASE i <= cursor
      BY <1>3, <3>1 DEF IInv, NothingPassedBy
    <3>2. CASE cursor < i
      <4>1. i \in Positions /\ i <= size
        BY <1>5, BoundsAssumption DEF Positions
      <4>2. phase'[c] = "read"
        BY <1>1
      <4> QED
        BY <2>1, <3>2, <4>1, <4>2
    <3> QED
      BY <3>1, <3>2
  <2>5. DueIsPaidFor'
    <3> SUFFICES ASSUME NEW i \in Positions
                 PROVE  settled[i] <= 1 + rewinds /\ (Due(i)' => settled[i] <= rewinds)
      BY <1>1, <1>5 DEF DueIsPaidFor
    <3>1. Due(i)' => Due(i)
      BY <1>5, <2>1, <2>2 DEF Due, Positions
    <3> QED
      BY <3>1 DEF IInv, DueIsPaidFor
  <2> QED
    BY <1>4, <2>3, <2>4, <2>5 DEF IInv
<1>6. CASE rewinds' = rewinds + 1 /\ cursor' = 0 /\ UNCHANGED batch
  <2>1. CycleOwnsCursor'
    BY <1>1, <1>2, <1>3, <1>6 DEF CycleOwnsCursor
  <2>2. NothingPassedBy'
    BY <1>6 DEF NothingPassedBy
  <2>3. DueIsPaidFor'
    BY <1>1, <1>6 DEF IInv, DueIsPaidFor
  <2> QED
    BY <1>4, <2>1, <2>2, <2>3 DEF IInv
<1>7. CASE cursor' = from[c] /\ UNCHANGED <<batch, rewinds>>
  <2>1. UNCHANGED cursor
    BY <1>3, <1>7
  <2>2. CycleOwnsCursor'
    BY <1>1, <1>2, <1>3, <1>7, <2>1 DEF CycleOwnsCursor
  <2>3. NothingPassedBy'
    BY <1>1, <1>3, <1>7, <2>1 DEF IInv, NothingPassedBy
  <2>4. DueIsPaidFor'
    BY <1>1, <1>7, <2>1 DEF IInv, DueIsPaidFor, Due
  <2> QED
    BY <1>4, <2>2, <2>3, <2>4 DEF IInv
<1> QED
  BY <1>5, <1>6, <1>7 DEF ReadIntents

(* The end of a cycle settles its batch and nothing else.                  *)
LEMMA FinishCycleKeeps ==
    ASSUME TypeOK, IInv, NEW c \in Cycles, FinishCycle(c)
    PROVE  IInv'
<1> USE DEF TypeOK
<1>1. /\ phase[c] = "read" /\ phase' = [phase EXCEPT ![c] = "idle"]
      /\ batch' = [batch EXCEPT ![c] = {}]
      /\ inFlight' = FALSE
      /\ settled' = [i \in Positions |->
                        IF i \in batch[c] THEN settled[i] + 1 ELSE settled[i]]
      /\ UNCHANGED <<cursor, rewinds>>
  BY DEF FinishCycle, HeldAfter
<1>2. \A d \in Cycles : d # c => phase[d] = "idle"
  BY <1>1 DEF IInv, OneCycleAtATime
<1>3. \A d \in Cycles : d # c => batch[d] = {}
  BY <1>2 DEF IInv, CycleOwnsCursor
<1>4. \A d \in Cycles : phase'[d] = "idle" /\ batch'[d] = {}
  BY <1>1, <1>2, <1>3
<1>5. OneCycleAtATime'
  BY <1>1, <1>4 DEF OneCycleAtATime
<1>6. CycleOwnsCursor'
  BY <1>4 DEF CycleOwnsCursor
<1>7. NothingPassedBy'
  <2> SUFFICES ASSUME NEW i \in 1..cursor PROVE settled'[i] > 0
    BY <1>1 DEF NothingPassedBy
  <2>1. i \in Positions
    BY BoundsAssumption DEF Positions
  <2>2. settled[i] > 0 \/ i \in batch[c]
    BY <1>2, <2>1 DEF IInv, NothingPassedBy
  <2> QED
    BY <1>1, <2>1, <2>2
<1>8. DueIsPaidFor'
  <2> SUFFICES ASSUME NEW i \in Positions
               PROVE  settled'[i] <= 1 + rewinds /\ (i > cursor => settled'[i] <= rewinds)
    BY <1>1, <1>4 DEF DueIsPaidFor, Due
  <2>1. CASE i \in batch[c]
    <3>1. i <= cursor
      BY <2>1 DEF IInv, CycleOwnsCursor
    <3>2. settled[i] <= rewinds
      BY <2>1 DEF IInv, DueIsPaidFor, Due
    <3> QED
      BY <1>1, <2>1, <3>1, <3>2 DEF Positions
  <2>2. CASE i \notin batch[c]
    BY <1>1, <2>2 DEF IInv, DueIsPaidFor, Due
  <2> QED
    BY <2>1, <2>2
<1> QED
  BY <1>5, <1>6, <1>7, <1>8 DEF IInv

(* The strengthened invariant holds for ever.                              *)
LEMMA IInvHolds == Spec => []IInv
<1>1. Init => IInv
  BY DEF Init, IInv, OneCycleAtATime, CycleOwnsCursor, NothingPassedBy, DueIsPaidFor, Due
<1>2. TypeOK /\ IInv /\ [Next]_vars => IInv'
  <2> SUFFICES ASSUME TypeOK, IInv, [Next]_vars
               PROVE  IInv'
    OBVIOUS
  <2>1. CASE WriteIntent \/ RunTrigger \/ GateAnswers
    BY <2>1, OtherSteps DEF WriteIntent, RunTrigger, GateAnswers
  <2>2. ASSUME NEW e \in Requests, Request(e) PROVE IInv'
    BY <2>2, OtherSteps DEF Request
  <2>3. ASSUME NEW e, Refuse(e) PROVE IInv'
    BY <2>3, OtherSteps DEF Refuse
  <2>4. ASSUME NEW c \in Cycles, ProcessIntents(c) PROVE IInv'
    BY <2>4, ProcessIntentsKeeps
  <2>5. ASSUME NEW c \in Cycles, ReadIntents(c) PROVE IInv'
    BY <2>5, ReadIntentsKeeps
  <2>6. ASSUME NEW c \in Cycles, FinishCycle(c) PROVE IInv'
    BY <2>6, FinishCycleKeeps
  <2>7. CASE Halt \/ Resume \/ RequestRetry \/ ShowRetry
    BY <2>7, OtherSteps DEF Halt, Resume, RequestRetry, ShowRetry
  <2>8. ASSUME NEW e \in WindDowns, WindDown(e) PROVE IInv'
    BY <2>8, OtherSteps DEF WindDown
  <2>9. ASSUME NEW e \in Signals, Signal(e) PROVE IInv'
    BY <2>9, OtherSteps DEF Signal
  <2>10. CASE Restart
    <3>1. /\ cursor' = 0 /\ inFlight' = FALSE /\ rewinds' = rewinds + 1
          /\ UNCHANGED settled
          /\ phase' = [c \in Cycles |-> "idle"] /\ batch' = [c \in Cycles |-> {}]
      BY <2>10 DEF Restart
    <3>2. OneCycleAtATime' /\ CycleOwnsCursor' /\ NothingPassedBy'
      BY <3>1 DEF OneCycleAtATime, CycleOwnsCursor, NothingPassedBy
    <3>3. DueIsPaidFor'
      BY <3>1 DEF IInv, DueIsPaidFor, TypeOK
    <3> QED
      BY <3>2, <3>3 DEF IInv
  <2>11. CASE UNCHANGED vars
    BY <2>11, OtherSteps DEF vars
  <2> QED
    BY <2>1, <2>2, <2>3, <2>4, <2>5, <2>6, <2>7, <2>8, <2>9, <2>10, <2>11 DEF Next
<1> QED
  BY <1>1, <1>2, TypeCorrect, PTL DEF Spec

(* Coordination cycles never overlap, and the flag tells when one runs.    *)
THEOREM CyclesExclude == Spec => []OneCycleAtATime
BY IInvHolds, PTL DEF IInv

(* The cursor never passes an intent that is not settled or being settled. *)
THEOREM NoIntentIsPassedBy == Spec => []NothingPassedBy
BY IInvHolds, PTL DEF IInv

(* No intent is settled more often than the cursor has started over.       *)
THEOREM SettlementIsBounded == Spec => []SettledOncePerRewind
<1>1. IInv => SettledOncePerRewind
  BY DEF IInv, DueIsPaidFor, SettledOncePerRewind
<1> QED
  BY <1>1, IInvHolds, PTL

-----------------------------------------------------------------------------
(* The cycles implement one sequential consumer.                           *)

(* Which stage the cycles are in, seen from the only one that can run.     *)
LEMMA StageOfCycle ==
    ASSUME TypeOK, OneCycleAtATime, NEW c \in Cycles, phase[c] # "idle"
    PROVE  Stage = phase[c]
<1>1. phase[c] \in {"reading", "read"}
  BY DEF TypeOK
<1>2. \A d \in Cycles : phase[d] # "idle" => d = c
  BY DEF OneCycleAtATime
<1> QED
  BY <1>1, <1>2 DEF Stage

LEMMA StageOfNone ==
    ASSUME \A c \in Cycles : phase[c] = "idle"
    PROVE  Stage = "idle"
BY DEF Stage

(* What is in the hand is the batch of the cycle that has read.            *)
LEMMA HandOfCycle ==
    ASSUME NEW c \in Cycles, \A d \in Cycles : d # c => batch[d] = {}
    PROVE  Hand = batch[c]
BY DEF Hand

(* The steps that leave the cycles and the log alone.                      *)
LEMMA Unseen ==
    ASSUME UNCHANGED <<size, cycleVars, rewinds>>
    PROVE  UNCHANGED Consumer!vars
BY DEF Consumer!vars, Stage, Hand, cycleVars

LEMMA WriteStep ==
    ASSUME WriteIntent
    PROVE  Consumer!Append \/ UNCHANGED Consumer!vars
<1>1. UNCHANGED <<cursor, Stage, Hand, settled, rewinds>>
  BY DEF WriteIntent, cycleVars, Stage, Hand
<1>2. (size < MaxIntents /\ size' = size + 1) \/ UNCHANGED size
  BY DEF WriteIntent, logVars
<1> QED
  BY <1>1, <1>2 DEF Consumer!Append, Consumer!vars

LEMMA BeginStep ==
    ASSUME TypeOK, IInv, NEW c \in Cycles, ProcessIntents(c)
    PROVE  Consumer!Begin
<1>1. \A d \in Cycles : phase[d] = "idle"
  BY DEF ProcessIntents, Accepts, Guarded, MayProcess, IInv, OneCycleAtATime
<1>2. /\ phase' = [phase EXCEPT ![c] = "reading"]
      /\ UNCHANGED <<size, cursor, batch, settled, rewinds>>
  BY DEF ProcessIntents, logVars
<1>3. Stage = "idle"
  BY <1>1, StageOfNone
<1>4. Stage' = "reading"
  BY <1>1, <1>2 DEF Stage, TypeOK
<1>5. UNCHANGED Hand
  BY <1>2 DEF Hand
<1> QED
  BY <1>2, <1>3, <1>4, <1>5 DEF Consumer!Begin

LEMMA ReadStep ==
    ASSUME TypeOK, IInv, IInv', NEW c \in Cycles, ReadIntents(c)
    PROVE  Consumer!Take \/ Consumer!Miss \/ Consumer!Lose
<1>1. /\ phase[c] = "reading" /\ phase' = [phase EXCEPT ![c] = "read"]
      /\ UNCHANGED <<size, settled>>
  BY DEF ReadIntents, logVars
<1>2. \A d \in Cycles : d # c => phase[d] = "idle"
  BY <1>1 DEF IInv, OneCycleAtATime
<1>3. from[c] = cursor /\ \A d \in Cycles : batch[d] = {}
  BY <1>1, <1>2 DEF IInv, CycleOwnsCursor
<1>4. Stage = "reading"
  BY <1>1, StageOfCycle DEF IInv
<1>5. Stage' = "read"
  <2>1. phase'[c] = "read" /\ \A d \in Cycles : phase'[d] # "reading"
    BY <1>1, <1>2 DEF TypeOK
  <2> QED
    BY <2>1 DEF Stage
<1>6. CASE /\ batch' = [batch EXCEPT ![c] = Unread(c)]
           /\ cursor' = size
           /\ UNCHANGED rewinds
  <2>1. Unread(c) = (cursor + 1)..size
    BY <1>3, BoundsAssumption DEF Unread, Positions, TypeOK
  <2>2. batch'[c] = (cursor + 1)..size /\ \A d \in Cycles : d # c => batch'[d] = {}
    BY <1>3, <1>6, <2>1 DEF TypeOK
  <2>3. Hand' = (cursor + 1)..size
    BY <2>2 DEF Hand
  <2> QED
    BY <1>1, <1>4, <1>5, <1>6, <2>3 DEF Consumer!Take
<1>7. CASE rewinds' = rewinds + 1 /\ cursor' = 0 /\ UNCHANGED batch
  BY <1>1, <1>4, <1>5, <1>7 DEF Consumer!Lose, Hand
<1>8. CASE cursor' = from[c] /\ UNCHANGED <<batch, rewinds>>
  BY <1>1, <1>3, <1>4, <1>5, <1>8 DEF Consumer!Miss, Hand
<1> QED
  BY <1>6, <1>7, <1>8 DEF ReadIntents

LEMMA SettleStep ==
    ASSUME TypeOK, IInv, NEW c \in Cycles, FinishCycle(c)
    PROVE  Consumer!Settle
<1>1. /\ phase[c] = "read" /\ phase' = [phase EXCEPT ![c] = "idle"]
      /\ batch' = [batch EXCEPT ![c] = {}]
      /\ settled' = [i \in Positions |->
                        IF i \in batch[c] THEN settled[i] + 1 ELSE settled[i]]
      /\ UNCHANGED <<size, cursor, rewinds>>
  BY DEF FinishCycle, logVars
<1>2. \A d \in Cycles : d # c => phase[d] = "idle"
  BY <1>1 DEF IInv, OneCycleAtATime
<1>3. \A d \in Cycles : d # c => batch[d] = {}
  BY <1>2 DEF IInv, CycleOwnsCursor
<1>4. Stage = "read" /\ Hand = batch[c]
  BY <1>1, <1>3, StageOfCycle, HandOfCycle DEF IInv
<1>5. \A d \in Cycles : phase'[d] = "idle" /\ batch'[d] = {}
  BY <1>1, <1>2, <1>3 DEF TypeOK
<1>6. Stage' = "idle" /\ Hand' = {}
  BY <1>5 DEF Stage, Hand
<1> QED
  BY <1>1, <1>4, <1>6 DEF Consumer!Settle, Positions

LEMMA CrashStep ==
    ASSUME Restart
    PROVE  Consumer!Crash
<1>1. /\ cursor' = 0 /\ rewinds' = rewinds + 1
      /\ UNCHANGED <<size, settled>>
      /\ phase' = [c \in Cycles |-> "idle"] /\ batch' = [c \in Cycles |-> {}]
  BY DEF Restart, logVars
<1>2. Stage' = "idle" /\ Hand' = {}
  BY <1>1 DEF Stage, Hand
<1> QED
  BY <1>1, <1>2 DEF Consumer!Crash

(* The cycles are a sequential consumer of the partition: every step is    *)
(* one of the consumer's or one it does not see.                           *)
THEOREM ConsumesInOrder == Spec => IsIntentConsumer
<1>1. Init => Consumer!Init
  BY DEF Init, Consumer!Init, Stage, Hand, Positions
<1>2. TypeOK /\ IInv /\ IInv' /\ [Next]_vars => [Consumer!Next]_(Consumer!vars)
  <2> SUFFICES ASSUME TypeOK, IInv, IInv', [Next]_vars
               PROVE  Consumer!Next \/ UNCHANGED Consumer!vars
    OBVIOUS
  <2>1. CASE WriteIntent
    BY <2>1, WriteStep DEF Consumer!Next
  <2>2. CASE RunTrigger \/ GateAnswers \/ Halt \/ Resume \/ RequestRetry \/ ShowRetry
    BY <2>2, Unseen DEF RunTrigger, GateAnswers, Halt, Resume, RequestRetry, ShowRetry, logVars
  <2>3. ASSUME NEW e \in Requests, Request(e) PROVE UNCHANGED Consumer!vars
    BY <2>3, Unseen DEF Request, logVars
  <2>4. ASSUME NEW e, Refuse(e) PROVE UNCHANGED Consumer!vars
    BY <2>4, Unseen DEF Refuse, logVars
  <2>5. ASSUME NEW c \in Cycles, ProcessIntents(c) PROVE Consumer!Next
    BY <2>5, BeginStep DEF Consumer!Next
  <2>6. ASSUME NEW c \in Cycles, ReadIntents(c) PROVE Consumer!Next
    BY <2>6, ReadStep DEF Consumer!Next
  <2>7. ASSUME NEW c \in Cycles, FinishCycle(c) PROVE Consumer!Next
    BY <2>7, SettleStep DEF Consumer!Next
  <2>8. ASSUME NEW e \in WindDowns, WindDown(e) PROVE UNCHANGED Consumer!vars
    BY <2>8, Unseen DEF WindDown, logVars
  <2>9. ASSUME NEW e \in Signals, Signal(e) PROVE UNCHANGED Consumer!vars
    BY <2>9, Unseen DEF Signal, logVars
  <2>10. CASE Restart
    BY <2>10, CrashStep DEF Consumer!Next
  <2>11. CASE UNCHANGED vars
    BY <2>11, Unseen DEF vars, logVars
  <2> QED
    BY <2>1, <2>2, <2>3, <2>4, <2>5, <2>6, <2>7, <2>8, <2>9, <2>10, <2>11 DEF Next
<1> QED
  BY <1>1, <1>2, TypeCorrect, IInvHolds, PTL DEF Spec, IsIntentConsumer, Consumer!Spec
=============================================================================
