-------------------------- MODULE Scheduling_proofs --------------------------
(***************************************************************************)
(* Proofs about the scheduling FSM: types, that some cycle always carries  *)
(* the FSM on, and the write-behind log its metrics implement.             *)
(***************************************************************************)
EXTENDS Scheduling, TLAPS

(* The cadence steps keep the types.                                       *)
LEMMA TypeCycle ==
    ASSUME TypeOK, NEW c \in Chains, Tick(c) \/ CycleStep(c)
    PROVE  TypeOK'
<1> USE SchedulingAssumption DEF TypeOK, Strands, ChainSteps, CallerSteps, States, Flushing
<1>1. CASE Tick(c)
  BY <1>1 DEF Tick
<1>2. CASE CadenceTick(c)
  BY <1>2 DEF CadenceTick
<1>3. CASE LifecycleRefreshed(c)
  BY <1>3 DEF LifecycleRefreshed
<1>4. CASE SafetyCheckComplete(c)
  BY <1>4 DEF SafetyCheckComplete
<1>5. CASE WorkerMetricsReported(c)
  BY <1>5 DEF WorkerMetricsReported
<1>6. CASE Refused(c)
  BY <1>6 DEF Refused
<1>7. CASE WorkerDone(c)
  BY <1>7 DEF WorkerDone
<1>8. CASE WorkerFails(c)
  BY <1>8 DEF WorkerFails
<1> QED
  BY <1>1, <1>2, <1>3, <1>4, <1>5, <1>6, <1>7, <1>8, Zenon DEF CycleStep

(* The flushes, the queries and the records keep the types.                *)
LEMMA TypeLog ==
    ASSUME TypeOK, NEW s \in Strands,
           \/ FlushStep(s)
           \/ s \in Callers /\ (AskFlush(s) \/ AskMetrics(s) \/ QueryStep(s))
    PROVE  TypeOK'
<1> USE SchedulingAssumption DEF TypeOK, Strands, ChainSteps, CallerSteps, Flushing
<1>1. CASE Drained(s)
  BY <1>1 DEF Drained
<1>2. CASE DrainFails(s)
  BY <1>2 DEF DrainFails
<1>3. CASE s \in Callers /\ AskFlush(s)
  BY <1>3 DEF AskFlush
<1>4. CASE s \in Callers /\ (AskMetrics(s) \/ QueryFails(s))
  BY <1>4 DEF AskMetrics, QueryFails
<1>5. CASE s \in Callers /\ ReadMetrics(s)
  BY <1>5 DEF ReadMetrics
<1>6. CASE s \in Callers /\ AnswerMetrics(s)
  BY <1>6 DEF AnswerMetrics
<1> QED
  BY <1>1, <1>2, <1>3, <1>4, <1>5, <1>6, Zenon DEF FlushStep, QueryStep

(* The types are kept by every step.                                       *)
LEMMA TypeStep == TypeOK /\ [Next]_vars => TypeOK'
<1> SUFFICES ASSUME TypeOK, [Next]_vars PROVE TypeOK'
  OBVIOUS
<1>1. CASE GlobalFlip
  BY <1>1 DEF GlobalFlip, TypeOK, Flushing
<1>2. ASSUME NEW c \in Chains, Tick(c) \/ CycleStep(c) PROVE TypeOK'
  BY <1>2, TypeCycle
<1>3. ASSUME NEW s \in Strands, FlushStep(s) PROVE TypeOK'
  BY <1>3, TypeLog
<1>4. ASSUME NEW u \in Callers, AskFlush(u) \/ AskMetrics(u) \/ QueryStep(u) PROVE TypeOK'
  BY <1>4, TypeLog DEF Strands
<1>5. ASSUME NEW r \in Records, RecordMetric(r) PROVE TypeOK'
  BY <1>5 DEF RecordMetric, TypeOK, Flushing
<1>6. CASE UNCHANGED vars
  BY <1>6 DEF vars, TypeOK, Flushing
<1> QED
  BY <1>1, <1>2, <1>3, <1>4, <1>5, <1>6, Zenon DEF Next

(* Every variable keeps its type.                                          *)
THEOREM TypeCorrect == Spec => []TypeOK
<1>1. ASSUME Init PROVE TypeOK
  <2>1. PICK b \in Chains : pc = [s \in Strands |-> IF s = b THEN "lifecycle" ELSE "free"]
    BY <1>1, Zenon DEF Init
  <2>2. \A s \in Strands : pc[s] = "free" \/ (s \in Chains /\ pc[s] = "lifecycle")
    BY <2>1, Zenon
  <2>3. \A u \in Callers : pc[u] = "free"
    BY <2>2, SchedulingAssumption DEF Strands
  <2> QED
    BY <1>1, <2>1, <2>2, <2>3 DEF Init, TypeOK, States, ChainSteps, CallerSteps, Strands, Flushing
<1> QED
  BY <1>1, TypeStep, PTL DEF Spec

-----------------------------------------------------------------------------
(* A step of a cycle leaves some chain to carry the FSM on: either it      *)
(* moves the state and its own chain carries, or it leaves the carrier     *)
(* alone, or HALTED is recorded.                                           *)
LEMMA CarryCycle ==
    ASSUME TypeOK, StuckOnlyByFault, NEW c \in Chains, Tick(c) \/ CycleStep(c)
    PROVE  StuckOnlyByFault'
<1> USE DEF TypeOK, Strands, States, StuckOnlyByFault, Carries
<1>1. CASE CadenceTick(c)
  BY <1>1 DEF CadenceTick
<1>2. CASE LifecycleRefreshed(c)
  BY <1>2 DEF LifecycleRefreshed
<1>3. CASE SafetyCheckComplete(c)
  BY <1>3 DEF SafetyCheckComplete
<1>4. CASE WorkerMetricsReported(c)
  BY <1>4 DEF WorkerMetricsReported
<1>5. CASE WorkerFails(c)
  BY <1>5 DEF WorkerFails
<1>6. CASE Tick(c)
  BY <1>6 DEF Tick
<1>7. CASE WorkerDone(c)
  BY <1>7 DEF WorkerDone
<1>8. CASE Refused(c)
  <2>1. CASE halted
    BY <1>8, <2>1 DEF Refused
  <2>2. CASE ~halted
    <3>1. ~Carries(c, state)
      BY <1>8, <2>2 DEF Refused, Expects
    <3>2. \A d \in Chains \ {c} : Carries(d, state) => Carries(d, state)'
      BY <1>8 DEF Refused
    <3>3. state' = state /\ (broken' <=> broken)
      BY <1>8, <2>2 DEF Refused
    <3> QED BY <3>1, <3>2, <3>3
  <2> QED BY <2>1, <2>2
<1> QED
  BY <1>1, <1>2, <1>3, <1>4, <1>5, <1>6, <1>7, <1>8, Zenon DEF CycleStep

(* A flush or a query does not touch the carriers.                         *)
LEMMA CarryLog ==
    ASSUME TypeOK, StuckOnlyByFault, NEW s \in Strands,
           \/ FlushStep(s)
           \/ s \in Callers /\ (AskFlush(s) \/ AskMetrics(s) \/ QueryStep(s))
    PROVE  StuckOnlyByFault'
<1> USE SchedulingAssumption DEF TypeOK, Strands, ChainSteps, CallerSteps, States
<1>1. PICK p : pc' = [pc EXCEPT ![s] = p] /\ state' = state /\ broken' = broken
  BY DEF FlushStep, Drained, DrainFails, AskFlush, AskMetrics, QueryStep, ReadMetrics,
     AnswerMetrics, QueryFails
<1>2. s \in Chains => pc[s] = "draining"
  BY DEF FlushStep, Drained, DrainFails, Flushing
<1>3. \A d \in Chains : Carries(d, state) => Carries(d, state)'
  BY <1>1, <1>2 DEF Carries
<1> QED
  BY <1>1, <1>3 DEF StuckOnlyByFault

(* Some chain carries the FSM on after every step.                         *)
LEMMA CarryStep == TypeOK /\ StuckOnlyByFault /\ [Next]_vars => StuckOnlyByFault'
<1> SUFFICES ASSUME TypeOK, StuckOnlyByFault, [Next]_vars PROVE StuckOnlyByFault'
  OBVIOUS
<1>1. CASE GlobalFlip
  BY <1>1 DEF GlobalFlip, StuckOnlyByFault, Carries
<1>2. ASSUME NEW c \in Chains, Tick(c) \/ CycleStep(c) PROVE StuckOnlyByFault'
  BY <1>2, CarryCycle
<1>3. ASSUME NEW s \in Strands, FlushStep(s) PROVE StuckOnlyByFault'
  BY <1>3, CarryLog
<1>4. ASSUME NEW u \in Callers, AskFlush(u) \/ AskMetrics(u) \/ QueryStep(u)
      PROVE  StuckOnlyByFault'
  BY <1>4, CarryLog DEF Strands
<1>5. ASSUME NEW r \in Records, RecordMetric(r) PROVE StuckOnlyByFault'
  BY <1>5 DEF RecordMetric, StuckOnlyByFault, Carries
<1>6. CASE UNCHANGED vars
  BY <1>6 DEF vars, StuckOnlyByFault, Carries
<1> QED
  BY <1>1, <1>2, <1>3, <1>4, <1>5, <1>6, Zenon DEF Next

(* However cycles overlap, only HALTED leaves the FSM stuck in one.        *)
THEOREM Carried == Spec => []StuckOnlyByFault
<1>1. Init => StuckOnlyByFault
  BY DEF Init, StuckOnlyByFault
<1> QED
  BY <1>1, TypeCorrect, CarryStep, PTL DEF Spec

-----------------------------------------------------------------------------
(* No record is in two places, and a query saw only stored records.        *)
Apart ==
    /\ buffer \cap written = {}
    /\ \A s \in Strands :
           /\ batch[s] \cap (buffer \cup written) = {}
           /\ \A t \in Strands \ {s} : batch[s] \cap batch[t] = {}
           /\ seen[s] \subseteq written

(* What each step does to the log, in the words of MetricLog.              *)
LEMMA LogStep == TypeOK /\ Apart /\ [Next]_vars => Apart' /\ [Log!Next]_(Log!logVars)
<1> SUFFICES ASSUME TypeOK, Apart, [Next]_vars PROVE Apart' /\ [Log!Next]_(Log!logVars)
  OBVIOUS
<1> USE DEF TypeOK, Apart, Pending, Log!logVars
<1>1. CASE UNCHANGED <<batch, seen, buffer, written, cache>>
  BY <1>1
<1>2. ASSUME NEW s \in Strands,
             /\ buffer # {} /\ batch[s] = {}
             /\ batch' = [batch EXCEPT ![s] = buffer]
             /\ buffer' = {} /\ cache' = NoAnswer /\ UNCHANGED <<seen, written>>
      PROVE  Apart' /\ Log!Forget
  <2>1. batch'[s] = buffer /\ \A t \in Strands \ {s} : batch'[t] = batch[t]
    BY <1>2
  <2>2. Apart'
    BY <1>2, <2>1
  <2>3. Pending' = Pending
    BY <1>2, <2>1
  <2> QED BY <1>2, <2>2, <2>3 DEF Log!Forget
<1>3. ASSUME NEW s \in Strands, Drained(s) PROVE Apart' /\ Log!Next
  <2>1. /\ batch'[s] = {} /\ \A t \in Strands \ {s} : batch'[t] = batch[t]
        /\ written' = written \cup batch[s] /\ UNCHANGED <<seen, buffer, cache>>
    BY <1>3 DEF Drained
  <2>2. Apart'
    BY <2>1
  <2>3. Pending' = Pending \ batch[s]
    BY <2>1
  <2>4. batch[s] # {} /\ batch[s] \subseteq Pending
    BY <1>3 DEF Drained
  <2> QED BY <2>1, <2>2, <2>3, <2>4 DEF Log!Next, Log!Store
<1>4. ASSUME NEW s \in Strands, DrainFails(s)
      PROVE  Apart' /\ UNCHANGED Log!logVars
  <2>1. /\ batch'[s] = {} /\ \A t \in Strands \ {s} : batch'[t] = batch[t]
        /\ buffer' = buffer \cup batch[s] /\ UNCHANGED <<seen, written, cache>>
    BY <1>4 DEF DrainFails
  <2>2. Apart'
    BY <2>1
  <2>3. Pending' = Pending
    BY <2>1
  <2> QED BY <2>1, <2>2, <2>3
<1>5. ASSUME NEW r \in Records, RecordMetric(r) PROVE Apart' /\ Log!Next
  <2>1. /\ buffer' = buffer \cup {r} /\ UNCHANGED <<batch, seen, written, cache>>
        /\ r \notin Pending \cup written
    BY <1>5 DEF RecordMetric
  <2>2. Pending' = Pending \cup {r} /\ Apart'
    BY <2>1
  <2> QED BY <2>1, <2>2 DEF Log!Next, Log!Accept
<1>6. ASSUME NEW u \in Callers, ReadMetrics(u) PROVE Apart' /\ UNCHANGED Log!logVars
  BY <1>6 DEF ReadMetrics, Strands
<1>7. ASSUME NEW u \in Callers, AnswerMetrics(u) PROVE Apart' /\ Log!Next
  <2>1. /\ cache' = seen[u] /\ seen[u] \subseteq written
        /\ UNCHANGED <<batch, buffer, written>>
        /\ seen' = [seen EXCEPT ![u] = {}]
    BY <1>7 DEF AnswerMetrics, Strands
  <2>2. Apart' /\ Pending' = Pending
    BY <2>1
  <2> QED BY <2>1, <2>2 DEF Log!Next, Log!Keep
<1>8. ASSUME NEW c \in Chains, Tick(c) \/ CycleStep(c)
      PROVE  Apart' /\ [Log!Next]_(Log!logVars)
  <2>1. CASE WorkerMetricsReported(c) /\ buffer # {}
    BY <2>1, <1>2 DEF WorkerMetricsReported, Strands, Flushing, Log!Next
  <2>2. CASE ~(WorkerMetricsReported(c) /\ buffer # {})
    BY <1>8, <2>2, <1>1 DEF Tick, CycleStep, CadenceTick, LifecycleRefreshed,
       SafetyCheckComplete, WorkerMetricsReported, Refused, WorkerDone, WorkerFails
  <2> QED BY <2>1, <2>2
<1>9. ASSUME NEW u \in Callers, AskFlush(u) \/ AskMetrics(u) \/ QueryStep(u)
      PROVE  Apart' /\ [Log!Next]_(Log!logVars)
  <2>1. CASE AskFlush(u)
    BY <2>1, <1>2 DEF AskFlush, Strands, Flushing, Log!Next
  <2>2. CASE AskMetrics(u) \/ QueryFails(u)
    BY <2>2, <1>1 DEF AskMetrics, QueryFails
  <2> QED BY <1>9, <2>1, <2>2, <1>6, <1>7 DEF QueryStep
<1>10. CASE GlobalFlip \/ UNCHANGED vars
  BY <1>10, <1>1 DEF GlobalFlip, vars
<1> QED
  BY <1>3, <1>4, <1>5, <1>8, <1>9, <1>10, Zenon DEF Next, FlushStep

(* The metrics of the scheduling FSM implement the write-behind log.       *)
THEOREM Refinement == Spec => IsWriteBehind
<1>1. Init => Apart /\ Log!Init
  BY DEF Init, Apart, Pending, Log!Init, Strands
<1> QED
  BY <1>1, TypeCorrect, LogStep, PTL DEF Spec, IsWriteBehind, Log!Spec

-----------------------------------------------------------------------------
(* What the refinement gives those who record and query, from the steps of *)
(* MetricLog alone.                                                        *)

(* A record once accepted is pending or stored ever after, never both, and *)
(* what is stored stays: no flush that fails, is overtaken or is cut off   *)
(* by a halt loses or repeats one.                                         *)
RecordsAreKept ==
    [][/\ Pending \cup written \subseteq Pending' \cup written'
       /\ written \subseteq written']_vars

(* The cached answer shows stored records only.                            *)
AnswersAreStored == cache = NoAnswer \/ cache \subseteq written

(* No record is both waiting for a flush and stored: none is stored twice. *)
PendingIsNotStored == Pending \cap written = {}

(* The steps of the write-behind log have these properties.                *)
LEMMA LogKeeps ==
    ASSUME [Log!Next]_(Log!logVars)
    PROVE  /\ Pending \cup written \subseteq Pending' \cup written'
           /\ written \subseteq written'
           /\ AnswersAreStored => AnswersAreStored'
           /\ PendingIsNotStored => PendingIsNotStored'
<1> USE DEF AnswersAreStored, PendingIsNotStored
<1>1. ASSUME NEW r \in Records, Log!Accept(r)
      PROVE  /\ Pending' = Pending \cup {r} /\ r \notin Pending \cup written
             /\ UNCHANGED <<written, cache>>
  BY <1>1 DEF Log!Accept
<1>2. ASSUME NEW b \in (SUBSET Pending) \ {{}}, Log!Store(b)
      PROVE  /\ Pending' = Pending \ b /\ written' = written \cup b
             /\ UNCHANGED cache
  BY <1>2 DEF Log!Store
<1>3. ASSUME NEW shown \in SUBSET written, Log!Keep(shown)
      PROVE  cache' = shown /\ UNCHANGED <<Pending, written>>
  BY <1>3 DEF Log!Keep
<1>4. CASE Log!Forget
  BY <1>4 DEF Log!Forget
<1>5. CASE UNCHANGED Log!logVars
  BY <1>5 DEF Log!logVars
<1> QED
  <2> HIDE DEF Pending
  <2>1. CASE \E r \in Records : Log!Accept(r)
    BY <2>1, <1>1
  <2>2. CASE \E b \in (SUBSET Pending) \ {{}} : Log!Store(b)
    BY <2>2, <1>2
  <2>3. CASE \E shown \in SUBSET written : Log!Keep(shown)
    BY <2>3, <1>3
  <2> QED BY <2>1, <2>2, <2>3, <1>4, <1>5 DEF Log!Next

(* No step of the scheduling FSM loses an accepted record or a stored one. *)
THEOREM RecordsKept == Spec => RecordsAreKept
<1>1. [Log!Next]_(Log!logVars)
        => [/\ Pending \cup written \subseteq Pending' \cup written'
            /\ written \subseteq written']_vars
  BY LogKeeps
<1> QED
  BY <1>1, Refinement, PTL DEF IsWriteBehind, Log!Spec, RecordsAreKept

(* An answer shows nothing that a later failure of a flush could take back,*)
(* and no record is ever stored twice.                                     *)
THEOREM AnswersStored == Spec => [](AnswersAreStored /\ PendingIsNotStored)
<1>1. Log!Init => AnswersAreStored /\ PendingIsNotStored
  BY DEF Log!Init, AnswersAreStored, PendingIsNotStored
<1>2. AnswersAreStored /\ PendingIsNotStored /\ [Log!Next]_(Log!logVars)
        => (AnswersAreStored /\ PendingIsNotStored)'
  BY LogKeeps
<1> QED
  BY <1>1, <1>2, Refinement, PTL DEF IsWriteBehind, Log!Spec
=============================================================================
