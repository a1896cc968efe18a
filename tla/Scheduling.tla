------------------------------ MODULE Scheduling ------------------------------
(***************************************************************************)
(* The scheduling FSM: its cadence cycle and its metrics log.              *)
(*                                                                         *)
(* A CADENCE_TICK starts a cycle: lifecycle refresh, safety check, metrics *)
(* report, each step the action of the one before, fanned back into        *)
(* CK.dispatch by the orchestrator.  dispatch awaits a Redis read before   *)
(* the guard and a worker after the transition, so a stalled cycle may     *)
(* still be under way when the next tick comes: the cycles share the one   *)
(* local state.  The metrics recorded meanwhile are buffered; the last     *)
(* step of a cycle, or METRICS_FLUSH, hands them to the store, and queries *)
(* are answered through a cache.                                           *)
(*                                                                         *)
(* A strand is one such chain of handlers: a chain runs a cadence cycle, a *)
(* caller a flush or a query.                                              *)
(***************************************************************************)
CONSTANTS
    Chains,     \* cadence cycles that may be under way at once
    Callers,    \* flushes and queries that may be under way at once
    Records,    \* metrics recorded
    NoAnswer    \* nothing is cached

ASSUME SchedulingAssumption == Chains \cap Callers = {}

VARIABLES
    state,      \* _localState
    halted,     \* the global state is HALTED or DEAD
    pc,         \* where each strand is
    batch,      \* the records a strand is flushing
    seen,       \* what the query of a strand read from the store
    buffer,     \* _writeBuffer
    written,    \* the metrics store
    cache,      \* _readCache, for one query
    broken      \* history: HALTED cut a cycle short since the last tick

vars == <<state, halted, pc, batch, seen, buffer, written, cache, broken>>

Strands == Chains \cup Callers

States == {"IDLE", "SCANNING", "REFRESHING", "CHECKING"}

(* tick, lifecycle, safety and report: the event is sent and its dispatch  *)
(* not past the guard.  scanning, refreshing, checking: its worker runs.   *)
(* draining, flushing: the metrics-flush worker runs.  querying, answering:*)
(* the metrics-query worker has not read, has read.                        *)
ChainSteps == {"free", "tick", "scanning", "lifecycle", "refreshing", "safety",
               "checking", "report", "draining"}
CallerSteps == {"free", "querying", "answering", "flushing"}

Flushing(s) == pc[s] \in {"draining", "flushing"}

(* CK dispatches LIFECYCLE_REFRESHED once at boot.                         *)
Init ==
    /\ state = "IDLE"
    /\ halted = FALSE
    /\ \E boot \in Chains :
           pc = [s \in Strands |-> IF s = boot THEN "lifecycle" ELSE "free"]
    /\ batch = [s \in Strands |-> {}]
    /\ seen = [s \in Strands |-> {}]
    /\ buffer = {} /\ written = {}
    /\ cache = NoAnswer
    /\ broken = FALSE

-----------------------------------------------------------------------------
(* The global state enters or leaves HALTED and DEAD.                      *)
GlobalFlip ==
    /\ halted' = ~halted
    /\ UNCHANGED <<state, pc, batch, seen, buffer, written, cache, broken>>

(* The cadence timer fires; it does not wait for the cycle it starts.      *)
Tick(c) ==
    /\ pc[c] = "free"
    /\ pc' = [pc EXCEPT ![c] = "tick"]
    /\ UNCHANGED <<state, halted, batch, seen, buffer, written, cache, broken>>

(* Faulty variant of CadenceTick: a tick is accepted in IDLE only.         *)
CadenceTickFromIdle(c) ==
    /\ pc[c] = "tick" /\ ~halted
    /\ IF state = "IDLE"
       THEN state' = "SCANNING" /\ broken' = FALSE /\ pc' = [pc EXCEPT ![c] = "scanning"]
       ELSE UNCHANGED <<state, broken>> /\ pc' = [pc EXCEPT ![c] = "free"]
    /\ UNCHANGED <<halted, batch, seen, buffer, written, cache>>

(* CADENCE_TICK restarts from any state.                                   *)
CadenceTick(c) ==
    /\ pc[c] = "tick" /\ ~halted
    /\ state' = "SCANNING"
    /\ broken' = FALSE
    /\ pc' = [pc EXCEPT ![c] = "scanning"]
    /\ UNCHANGED <<halted, batch, seen, buffer, written, cache>>

(* Faulty variant of LifecycleRefreshed: without accounts nothing follows. *)
LifecycleRefreshedOrNothing(c) ==
    /\ pc[c] = "lifecycle" /\ ~halted /\ state = "SCANNING"
    /\ state' = "REFRESHING"
    /\ \E p \in {"refreshing", "free"} : pc' = [pc EXCEPT ![c] = p]
    /\ UNCHANGED <<halted, batch, seen, buffer, written, cache, broken>>

(* LIFECYCLE_REFRESHED: without accounts the safety check is skipped.      *)
LifecycleRefreshed(c) ==
    /\ pc[c] = "lifecycle" /\ ~halted /\ state = "SCANNING"
    /\ state' = "REFRESHING"
    /\ \E p \in {"refreshing", "safety"} : pc' = [pc EXCEPT ![c] = p]
    /\ UNCHANGED <<halted, batch, seen, buffer, written, cache, broken>>

SafetyCheckComplete(c) ==
    /\ pc[c] = "safety" /\ ~halted /\ state = "REFRESHING"
    /\ state' = "CHECKING"
    /\ pc' = [pc EXCEPT ![c] = "checking"]
    /\ UNCHANGED <<halted, batch, seen, buffer, written, cache, broken>>

(* WORKER_METRICS_REPORTED: back to IDLE first, then the buffer is spliced *)
(* and the cache cleared, before the flush worker is awaited.              *)
WorkerMetricsReported(c) ==
    /\ pc[c] = "report" /\ ~halted /\ state = "CHECKING"
    /\ state' = "IDLE"
    /\ IF buffer = {}
       THEN pc' = [pc EXCEPT ![c] = "free"] /\ UNCHANGED <<batch, buffer, cache>>
       ELSE /\ pc' = [pc EXCEPT ![c] = "draining"]
            /\ batch' = [batch EXCEPT ![c] = buffer]
            /\ buffer' = {}
            /\ cache' = NoAnswer
    /\ UNCHANGED <<halted, seen, written, broken>>

(* The state each step of the cycle is accepted in.                        *)
Expects(p) == CASE p = "lifecycle" -> "SCANNING"
                [] p = "safety"    -> "REFRESHING"
                [] p = "report"    -> "CHECKING"

(* The step is vetoed by CK, or refused by its guard because another cycle *)
(* moved the state: this cycle ends.                                       *)
Refused(c) ==
    /\ \/ pc[c] = "tick" /\ halted
       \/ pc[c] \in {"lifecycle", "safety", "report"} /\ (halted \/ state # Expects(pc[c]))
    /\ pc' = [pc EXCEPT ![c] = "free"]
    /\ broken' = (broken \/ halted)
    /\ UNCHANGED <<state, halted, batch, seen, buffer, written, cache>>

(* The worker of a step ends, and the orchestrator sends the next event.   *)
WorkerDone(c) ==
    /\ ~halted
    /\ \/ pc[c] = "scanning"   /\ pc' = [pc EXCEPT ![c] = "lifecycle"]
       \/ pc[c] = "refreshing" /\ pc' = [pc EXCEPT ![c] = "safety"]
       \/ pc[c] = "checking"   /\ pc' = [pc EXCEPT ![c] = "report"]
    /\ UNCHANGED <<state, halted, batch, seen, buffer, written, cache, broken>>

(* The sanity check of CK denies the worker: LOG_DEGRADED, and the state   *)
(* stays where it is.                                                      *)
WorkerFails(c) ==
    /\ pc[c] \in {"scanning", "refreshing", "checking"} /\ halted
    /\ pc' = [pc EXCEPT ![c] = "free"]
    /\ broken' = TRUE
    /\ UNCHANGED <<state, halted, batch, seen, buffer, written, cache>>

-----------------------------------------------------------------------------
(* METRICS_RECORD_REQUESTED: buffered, accepted at once.                   *)
RecordMetric(r) ==
    /\ ~halted
    /\ r \notin buffer \cup written \cup UNION {batch[s] : s \in Strands}
    /\ buffer' = buffer \cup {r}
    /\ UNCHANGED <<state, halted, pc, batch, seen, written, cache, broken>>

(* METRICS_FLUSH with something to flush.                                  *)
AskFlush(u) ==
    /\ pc[u] = "free" /\ ~halted /\ buffer # {}
    /\ pc' = [pc EXCEPT ![u] = "flushing"]
    /\ batch' = [batch EXCEPT ![u] = buffer]
    /\ buffer' = {}
    /\ cache' = NoAnswer
    /\ UNCHANGED <<state, halted, seen, written, broken>>

(* Faulty variant of Drained: the strand keeps its batch.                  *)
DrainedKeeping(s) ==
    /\ Flushing(s) /\ ~halted
    /\ written' = written \cup batch[s]
    /\ pc' = [pc EXCEPT ![s] = "free"]
    /\ UNCHANGED <<state, halted, batch, seen, buffer, cache, broken>>

(* metrics-flush records the batch.                                        *)
Drained(s) ==
    /\ Flushing(s) /\ ~halted
    /\ written' = written \cup batch[s]
    /\ batch' = [batch EXCEPT ![s] = {}]
    /\ pc' = [pc EXCEPT ![s] = "free"]
    /\ UNCHANGED <<state, halted, seen, buffer, cache, broken>>

(* Faulty variant of DrainFails: the batch replaces the buffer.            *)
DrainFailsReplacing(s) ==
    /\ Flushing(s) /\ halted
    /\ buffer' = batch[s]
    /\ batch' = [batch EXCEPT ![s] = {}]
    /\ pc' = [pc EXCEPT ![s] = "free"]
    /\ UNCHANGED <<state, halted, seen, written, cache, broken>>

(* CK denies the worker: the batch goes back into the buffer.              *)
DrainFails(s) ==
    /\ Flushing(s) /\ halted
    /\ buffer' = buffer \cup batch[s]
    /\ batch' = [batch EXCEPT ![s] = {}]
    /\ pc' = [pc EXCEPT ![s] = "free"]
    /\ UNCHANGED <<state, halted, seen, written, cache, broken>>

(* METRICS_QUERY_REQUESTED, and nothing cached; a hit changes nothing.     *)
AskMetrics(u) ==
    /\ pc[u] = "free" /\ ~halted /\ cache = NoAnswer
    /\ pc' = [pc EXCEPT ![u] = "querying"]
    /\ UNCHANGED <<state, halted, batch, seen, buffer, written, cache, broken>>

ReadMetrics(u) ==
    /\ pc[u] = "querying" /\ ~halted
    /\ pc' = [pc EXCEPT ![u] = "answering"]
    /\ seen' = [seen EXCEPT ![u] = written]
    /\ UNCHANGED <<state, halted, batch, buffer, written, cache, broken>>

(* The answer is cached although a flush may have cleared the cache since  *)
(* it was read.                                                            *)
AnswerMetrics(u) ==
    /\ pc[u] = "answering"
    /\ pc' = [pc EXCEPT ![u] = "free"]
    /\ seen' = [seen EXCEPT ![u] = {}]
    /\ cache' = seen[u]
    /\ UNCHANGED <<state, halted, batch, buffer, written, broken>>

QueryFails(u) ==
    /\ pc[u] = "querying" /\ halted
    /\ pc' = [pc EXCEPT ![u] = "free"]
    /\ UNCHANGED <<state, halted, batch, seen, buffer, written, cache, broken>>

-----------------------------------------------------------------------------
CycleStep(c) == \/ CadenceTick(c) \/ LifecycleRefreshed(c) \/ SafetyCheckComplete(c)
                \/ WorkerMetricsReported(c) \/ Refused(c) \/ WorkerDone(c) \/ WorkerFails(c)

FlushStep(s) == Drained(s) \/ DrainFails(s)

QueryStep(u) == ReadMetrics(u) \/ AnswerMetrics(u) \/ QueryFails(u)

Next ==
    \/ GlobalFlip
    \/ \E c \in Chains : Tick(c) \/ CycleStep(c)
    \/ \E s \in Strands : FlushStep(s)
    \/ \E u \in Callers : AskFlush(u) \/ AskMetrics(u) \/ QueryStep(u)
    \/ \E r \in Records : RecordMetric(r)

Spec == Init /\ [][Next]_vars

(* Redis and the workers answer, and the timer keeps ticking.              *)
Fairness ==
    /\ \A c \in Chains : WF_vars(CycleStep(c))
    /\ \A s \in Strands : WF_vars(FlushStep(s))
    /\ WF_vars(\E c \in Chains : Tick(c))

LiveSpec == Spec /\ Fairness

-----------------------------------------------------------------------------
(* Every variable has its type; a strand holds a batch while it flushes.   *)
TypeOK ==
    /\ state \in States
    /\ halted \in BOOLEAN /\ broken \in BOOLEAN
    /\ pc \in [Strands -> ChainSteps \cup CallerSteps]
    /\ \A c \in Chains : pc[c] \in ChainSteps
    /\ \A u \in Callers : pc[u] \in CallerSteps
    /\ batch \in [Strands -> SUBSET Records]
    /\ \A s \in Strands : batch[s] # {} <=> Flushing(s)
    /\ seen \in [Strands -> SUBSET Records]
    /\ buffer \in SUBSET Records /\ written \in SUBSET Records
    /\ cache = NoAnswer \/ cache \in SUBSET Records

(* The chain c will move the FSM out of state st.                          *)
Carries(c, st) == \/ st = "SCANNING"   /\ pc[c] \in {"scanning", "lifecycle"}
                  \/ st = "REFRESHING" /\ pc[c] \in {"refreshing", "safety"}
                  \/ st = "CHECKING"   /\ pc[c] \in {"checking", "report"}

(* However the cycles overlap and refuse each other's steps, one of them   *)
(* is left to bring the FSM back to IDLE: only HALTED leaves it stuck in a *)
(* cycle, until the next tick.                                             *)
StuckOnlyByFault ==
    state # "IDLE" /\ ~broken => \E c \in Chains : Carries(c, state)

(* The tick comes while another cycle is under way.                        *)
Overlap ==
    \E c \in Chains :
        /\ Tick(c)
        /\ \E d \in Chains \ {c} : pc[d] \notin {"free", "draining"}

(* The FSM is IDLE again and again, unless HALTED keeps coming or the      *)
(* cycles keep overlapping.                                                *)
CycleRecurs ==
    \/ []<>(state = "IDLE")
    \/ []<>halted
    \/ []<><<Overlap>>_vars

(* The metrics log is a write-behind log: pending records are in the       *)
(* buffer or in a batch.                                                   *)
Pending == buffer \cup UNION {batch[s] : s \in Strands}

Log == INSTANCE MetricLog WITH pending <- Pending, stored <- written, answer <- cache
IsWriteBehind == Log!Spec
=============================================================================
