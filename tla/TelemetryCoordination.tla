------------------------ MODULE TelemetryCoordination ------------------------
(***************************************************************************)
(* The telemetry coordination FSM (telemetry-kernel/fsm.js) with what      *)
(* feeds it: the partition of the transition log that the projection       *)
(* workers append intents to, the onWrite subscription that is to trigger  *)
(* a coordination cycle, and the constitutional kernel between the two.    *)
(*                                                                         *)
(* A cycle reads the intents after its cursor, and then emits the valid    *)
(* ones and rejects the others; either way the intent is settled.  The     *)
(* awaits of a cycle (the read, the persistence of the cursor) are steps:  *)
(* other handlers run between them.                                        *)
(*                                                                         *)
(* The cursor is never restored: _persistCursors and _restoreCursors       *)
(* require a path that does not exist, fail, and leave nothing behind but  *)
(* the await.  The projection of the FSM's own state that dispatch reads   *)
(* is written by nobody; reading it is the await of Deliver.               *)
(***************************************************************************)
EXTENDS GlobalLifecycle, FiniteSets

CONSTANTS
    Cycles,         \* executions of PROCESS_INTENTS' buildActions
    Requests,       \* events dispatched to the FSM by others than itself
    Signals,        \* global events dispatched by other domains
    MaxIntents,     \* bound: intents ever appended
    MaxPending,     \* bound: requests awaited at once
    MaxRewinds,     \* bound: outages and restarts together
    MaxBuffered,    \* MAX_BUFFERED_INTENTS
    EscalatedAt,    \* ESCALATION_THRESHOLD
    DegradedAt      \* DEGRADED_THRESHOLD; later attempts are not told apart

WindDowns == {"INGRESS_RESOLVED", "TELEMETRY_RETRY_EXHAUSTED", "TELEMETRY_RETRY_CLEARED"}

(* The events routed to the FSM that its TRANSITION_MAP handles.  Without  *)
(* PROJECTION_PERSISTED, which keeps the state and touches only the ledger.*)
CoordinationEvents ==
    {"PROCESS_INTENTS", "HALT_TELEMETRY_COORDINATION", "RESUME_TELEMETRY_COORDINATION",
     "INGRESS_RETRY_REQUESTED", "TELEMETRY_RETRY_IN_PROGRESS"} \cup WindDowns

(* The event of the reactive trigger.  DOMAIN_EVENT_MAP sends it to the    *)
(* FSM, whose TRANSITION_MAP does not have it.                             *)
Reactive == "TELEMETRY_PROCESS_INTENTS"

ASSUME EventsAssumption ==
    /\ Requests \subseteq CoordinationEvents
    /\ Signals \subseteq LifecycleEvents \ {"BOOT_COMPLETE"}

ASSUME BoundsAssumption ==
    /\ {MaxIntents, MaxPending, MaxRewinds, MaxBuffered} \subseteq Nat
    /\ {EscalatedAt, DegradedAt} \subseteq Nat
    /\ 0 < EscalatedAt /\ EscalatedAt < DegradedAt

IngressStates == {"INGRESS_LAG_RETRYING", "INGRESS_ESCALATED", "INGRESS_DEGRADED"}
LocalStates == {"IDLE", "HALTED"} \cup IngressStates

Positions == 1..MaxIntents

VARIABLES
    size,       \* length of lineage:transitionLog:domain:projection
    invalid,    \* the positions in it that _validateSingleIntent refuses
    local,      \* _localState
    cursor,     \* _intentCursors.projection
    inFlight,   \* _coordinationInFlight
    phase,      \* where each cycle is: idle, awaiting its read, or past it
    from,       \* the cursor each cycle started its read with
    batch,      \* the positions each cycle has read
    attempts,   \* _retryAttempts, which gives _retryEscalationState
    gates,      \* retry requests awaiting ctx.sanityCheck
    awaited,    \* events whose dispatch awaits _syncProjectionState
    trigger,    \* _coordinationPending: a setImmediate is scheduled
    queued,     \* _reactiveCoordinationQueued
    global,     \* the kernel's _currentState
    rewinds,    \* history: outages and restarts so far
    settled     \* history: how often each position was emitted or rejected

logVars == <<size, invalid>>
cycleVars == <<cursor, inFlight, phase, from, batch, settled>>
reactiveVars == <<trigger, queued>>
retryVars == <<attempts, gates>>

vars == <<logVars, cycleVars, reactiveVars, retryVars, local, awaited, global, rewinds>>

-----------------------------------------------------------------------------
(* Faulty variants: a guard that does not look at the cycle in flight, a   *)
(* read that takes the oldest MaxBuffered entries but moves the cursor to  *)
(* the end, a cycle whose finally is skipped when it rejects everything,   *)
(* an escalation level named without its prefix.                           *)
IdleIsEnough == local = "IDLE"
CappedRead(c) == {i \in Positions : from[c] < i /\ i <= from[c] + MaxBuffered /\ i <= size}
HeldByRejection(c) == batch[c] # {} /\ batch[c] \subseteq invalid
UnprefixedState(n) == IF n < EscalatedAt THEN "INGRESS_LAG_RETRYING" ELSE "ESCALATED"

Init ==
    /\ size = 0 /\ invalid = {}
    /\ local = "IDLE"
    /\ cursor = 0 /\ inFlight = FALSE
    /\ phase = [c \in Cycles |-> "idle"]
    /\ from = [c \in Cycles |-> 0]
    /\ batch = [c \in Cycles |-> {}]
    /\ attempts = 0 /\ gates = 0
    /\ awaited = {}
    /\ trigger = FALSE /\ queued = FALSE
    /\ global = "HEALTHY"
    /\ rewinds = 0
    /\ settled = [i \in Positions |-> 0]

-----------------------------------------------------------------------------
(* The log and the reactive trigger.                                       *)

(* _triggerReactiveCoordination: one setImmediate at a time, and none      *)
(* while a cycle is in flight; a trigger that finds either is queued.      *)
Trigger(scheduled) ==
    IF scheduled \/ inFlight
    THEN trigger' = scheduled /\ queued' = TRUE
    ELSE trigger' = TRUE /\ UNCHANGED queued

(* A projection worker emits PROJECTION_INTENT: project() awaits the rpush *)
(* and calls the onWrite hooks, also when Redis was not ready and          *)
(* _writeDomainPartition gave up on the entry.                             *)
WriteIntent ==
    /\ \/ /\ size < MaxIntents
          /\ size' = size + 1
          /\ invalid' \in {invalid, invalid \cup {size + 1}}
       \/ UNCHANGED logVars
    /\ Trigger(trigger)
    /\ UNCHANGED <<cycleVars, retryVars, local, awaited, global, rewinds>>

(* The setImmediate callback: the kernel dispatches the reactive event,    *)
(* whose handling awaits, and the finally block takes what was queued.     *)
RunTrigger ==
    /\ trigger
    /\ awaited' = awaited \cup {Reactive}
    /\ trigger' = (queued /\ ~inFlight)
    /\ queued' = (queued /\ inFlight)
    /\ UNCHANGED <<logVars, cycleVars, retryVars, local, global, rewinds>>

-----------------------------------------------------------------------------
(* The handlers.                                                           *)

(* Somebody dispatches e with a canonical source.                          *)
Request(e) ==
    /\ e \notin awaited
    /\ Cardinality(awaited) < MaxPending
    /\ awaited' = awaited \cup {e}
    /\ UNCHANGED <<logVars, cycleVars, reactiveVars, retryVars, local, global, rewinds>>

(* The dispatch of e resumes after its await.                              *)
Resumes(e) == e \in awaited /\ awaited' = awaited \ {e}

(* ctx.validate, with the global state of that moment.                     *)
Validated == DomainMayMove(global, "telemetry-coordination-fsm")

(* TRANSITION_MAP.PROCESS_INTENTS.guard                                    *)
MayProcess == local = "IDLE" /\ ~inFlight

(* TRANSITION_MAP[e].guard                                                 *)
Guarded(e) ==
    CASE e = "PROCESS_INTENTS"               -> MayProcess
      [] e = "HALT_TELEMETRY_COORDINATION"   -> local # "HALTED"
      [] e = "RESUME_TELEMETRY_COORDINATION" -> local = "HALTED"
      [] e = Reactive                        -> FALSE
      [] OTHER                               -> TRUE

Refuse(e) ==
    /\ Resumes(e)
    /\ ~(Guarded(e) /\ Validated)
    /\ UNCHANGED <<logVars, cycleVars, reactiveVars, retryVars, local, global, rewinds>>

Accepts(e) == Resumes(e) /\ Guarded(e) /\ Validated

(* PROCESS_INTENTS: the cycle starts and awaits its read.                  *)
ProcessIntents(c) ==
    /\ Accepts("PROCESS_INTENTS")
    /\ phase[c] = "idle"
    /\ local' = "IDLE"
    /\ inFlight' = TRUE
    /\ phase' = [phase EXCEPT ![c] = "reading"]
    /\ from' = [from EXCEPT ![c] = cursor]
    /\ UNCHANGED <<logVars, cursor, batch, settled, reactiveVars, retryVars, global, rewinds>>

Halt ==
    /\ Accepts("HALT_TELEMETRY_COORDINATION")
    /\ local' = "HALTED"
    /\ UNCHANGED <<logVars, cycleVars, reactiveVars, retryVars, global, rewinds>>

Resume ==
    /\ Accepts("RESUME_TELEMETRY_COORDINATION")
    /\ local' = "IDLE"
    /\ UNCHANGED <<logVars, cycleVars, reactiveVars, retryVars, global, rewinds>>

(* The state of the escalation level that n attempts amount to.            *)
LevelState(n) ==
    CASE n >= DegradedAt  -> "INGRESS_DEGRADED"
      [] n >= EscalatedAt -> "INGRESS_ESCALATED"
      [] OTHER            -> "INGRESS_LAG_RETRYING"

(* INGRESS_RETRY_REQUESTED enters the state of the level before this       *)
(* attempt, and then awaits the sanity check.                              *)
RequestRetry ==
    /\ Accepts("INGRESS_RETRY_REQUESTED")
    /\ gates < MaxPending
    /\ local' = LevelState(attempts)
    /\ gates' = gates + 1
    /\ UNCHANGED <<logVars, cycleVars, reactiveVars, attempts, global, rewinds>>

(* The sanity check answers: a veto counts nothing, else the attempt is    *)
(* counted, in a new window when the 60 s of the last one are over.        *)
GateAnswers ==
    /\ gates > 0
    /\ gates' = gates - 1
    /\ attempts' \in {attempts, 1, IF attempts < DegradedAt THEN attempts + 1 ELSE attempts}
    /\ UNCHANGED <<logVars, cycleVars, reactiveVars, local, awaited, global, rewinds>>

(* TELEMETRY_RETRY_IN_PROGRESS carries the engagement FSM's level.         *)
ShowRetry ==
    /\ Accepts("TELEMETRY_RETRY_IN_PROGRESS")
    /\ local' \in IngressStates
    /\ UNCHANGED <<logVars, cycleVars, reactiveVars, retryVars, global, rewinds>>

(* INGRESS_RESOLVED and the end of a retry cadence reset the budget.       *)
WindDown(e) ==
    /\ Accepts(e)
    /\ local' = "IDLE"
    /\ attempts' = 0
    /\ UNCHANGED <<logVars, cycleVars, reactiveVars, gates, global, rewinds>>

-----------------------------------------------------------------------------
(* The rest of a cycle.                                                    *)

(* What lrange returns to the cycle.                                       *)
Unread(c) == {i \in Positions : from[c] < i /\ i <= size}

(* getDomainEntriesSince answers and the cursor moves.  When Redis is not  *)
(* ready the answer is nothing and cursor 0; when the read fails, nothing  *)
(* and the cursor it was called with.                                      *)
ReadIntents(c) ==
    /\ phase[c] = "reading"
    /\ phase' = [phase EXCEPT ![c] = "read"]
    /\ \/ /\ batch' = [batch EXCEPT ![c] = Unread(c)]
          /\ cursor' = size
          /\ UNCHANGED rewinds
       \/ /\ rewinds < MaxRewinds
          /\ rewinds' = rewinds + 1
          /\ cursor' = 0
          /\ UNCHANGED batch
       \/ /\ cursor' = from[c]
          /\ UNCHANGED <<batch, rewinds>>
    /\ UNCHANGED <<logVars, inFlight, from, settled, reactiveVars, retryVars, local, awaited,
                   global>>

(* The kernel's state after the cycle: a batch over MAX_BUFFERED_INTENTS   *)
(* signals BACKPRESSURE_DETECTED; only if something is then emitted is the *)
(* signal taken back by BACKPRESSURE_CLEARED.                              *)
GlobalAfter(b) ==
    LET pressed == StateAfter(global, "BACKPRESSURE_DETECTED")
    IN  IF Cardinality(b) <= MaxBuffered THEN global
        ELSE IF b \subseteq invalid THEN pressed
        ELSE StateAfter(pressed, "BACKPRESSURE_CLEARED")

(* Does the finally block leave _coordinationInFlight set?  It never does. *)
HeldAfter(c) == FALSE

(* After the cursor's persistence has failed: validate, signal, emit.      *)
FinishCycle(c) ==
    /\ phase[c] = "read"
    /\ phase' = [phase EXCEPT ![c] = "idle"]
    /\ from' = [from EXCEPT ![c] = 0]
    /\ batch' = [batch EXCEPT ![c] = {}]
    /\ inFlight' = HeldAfter(c)
    /\ settled' = [i \in Positions |->
                      IF i \in batch[c] THEN settled[i] + 1 ELSE settled[i]]
    /\ global' = GlobalAfter(batch[c])
    /\ UNCHANGED <<logVars, cursor, reactiveVars, retryVars, local, awaited, rewinds>>

-----------------------------------------------------------------------------
(* The kernel handles a global event of another domain.                    *)
Signal(e) ==
    /\ global' = StateAfter(global, e)
    /\ global' # global
    /\ UNCHANGED <<logVars, cycleVars, reactiveVars, retryVars, local, awaited, rewinds>>

(* The process stops, in any state, and boots again: Redis keeps the       *)
(* partition, the FSM's memory starts afresh, the kernel dispatches        *)
(* BOOT_COMPLETE in the state it rehydrates.                               *)
Restart ==
    /\ rewinds < MaxRewinds
    /\ rewinds' = rewinds + 1
    /\ local' = "IDLE"
    /\ cursor' = 0 /\ inFlight' = FALSE
    /\ phase' = [c \in Cycles |-> "idle"]
    /\ from' = [c \in Cycles |-> 0]
    /\ batch' = [c \in Cycles |-> {}]
    /\ attempts' = 0 /\ gates' = 0
    /\ awaited' = {}
    /\ trigger' = FALSE /\ queued' = FALSE
    /\ global' = StateAfter(global, "BOOT_COMPLETE")
    /\ UNCHANGED <<logVars, settled>>

Next ==
    \/ WriteIntent
    \/ RunTrigger
    \/ \E e \in Requests : Request(e)
    \/ \E e \in CoordinationEvents \cup {Reactive} : Refuse(e)
    \/ \E c \in Cycles : ProcessIntents(c) \/ ReadIntents(c) \/ FinishCycle(c)
    \/ Halt
    \/ Resume
    \/ RequestRetry
    \/ GateAnswers
    \/ ShowRetry
    \/ \E e \in WindDowns : WindDown(e)
    \/ \E e \in Signals : Signal(e)
    \/ Restart

(* The event loop runs what is scheduled, and every awaited call returns:  *)
(* the Redis client answers or fails after its retries.                    *)
Fairness ==
    /\ WF_vars(RunTrigger)
    /\ WF_vars(\E e \in CoordinationEvents \cup {Reactive} : Refuse(e))
    /\ WF_vars(\E c \in Cycles : ProcessIntents(c))
    /\ \A c \in Cycles : WF_vars(ReadIntents(c)) /\ WF_vars(FinishCycle(c))

Spec == Init /\ [][Next]_vars
FairSpec == Spec /\ Fairness

-----------------------------------------------------------------------------
(* Properties.                                                             *)

(* The variables hold what the code can put there.                         *)
TypeOK ==
    /\ size \in 0..MaxIntents /\ invalid \subseteq 1..size
    /\ local \in LocalStates
    /\ cursor \in 0..size /\ inFlight \in BOOLEAN
    /\ phase \in [Cycles -> {"idle", "reading", "read"}]
    /\ from \in [Cycles -> 0..size]
    /\ batch \in [Cycles -> SUBSET (1..size)]
    /\ attempts \in 0..DegradedAt /\ gates \in 0..MaxPending
    /\ awaited \subseteq CoordinationEvents \cup {Reactive}
    /\ trigger \in BOOLEAN /\ queued \in BOOLEAN
    /\ global \in States
    /\ rewinds \in 0..MaxRewinds
    /\ settled \in [Positions -> Nat]

(* Coordination cycles exclude each other although every one of them       *)
(* awaits, and the flag that keeps them apart is up exactly while one      *)
(* runs: it is neither left behind by a cycle that ends early nor taken    *)
(* down under one that is halted, frozen or overtaken.                     *)
OneCycleAtATime ==
    /\ inFlight <=> \E c \in Cycles : phase[c] # "idle"
    /\ \A c, d \in Cycles : phase[c] # "idle" /\ phase[d] # "idle" => c = d

(* The cursor passes nothing by: what lies behind it has been emitted or   *)
(* rejected, or is in the hands of the cycle that read it, whatever        *)
(* outages, failed reads and restarts moved the cursor.                    *)
NothingPassedBy ==
    \A i \in 1..cursor :
        settled[i] > 0 \/ \E c \in Cycles : phase[c] = "read" /\ i \in batch[c]

(* Each intent is settled once, and once more at most for every time the   *)
(* cursor went back to 0, by an outage during a read or by a restart.      *)
SettledOncePerRewind == \A i \in Positions : settled[i] <= 1 + rewinds

(* The consumer that the cycles amount to: they share one stage, and what  *)
(* they have read is in one hand.                                          *)
Stage ==
    CASE \E c \in Cycles : phase[c] = "read"    -> "read"
      [] \E c \in Cycles : phase[c] = "reading" -> "reading"
      [] OTHER                                  -> "idle"

Hand == UNION {batch[c] : c \in Cycles}

Consumer ==
    INSTANCE IntentConsumer
        WITH Capacity <- MaxIntents, stage <- Stage, hand <- Hand, losses <- rewinds

(* However halts, retries, refusals and triggers interleave with their     *)
(* awaits, the cycles are one sequential reader of the partition: none     *)
(* begins before the last one has settled what it read, each takes up all  *)
(* that lies after the cursor, each settles exactly that once, and only an *)
(* outage or a restart makes it start over.                                *)
IsIntentConsumer == Consumer!Spec

(* A cycle that started ends and frees the flag, also when the FSM is      *)
(* halted or the kernel freezes the domains meanwhile.                     *)
CycleEnds == inFlight ~> ~inFlight

(* "FSM subscribes to observability onWrite and triggers PROCESS_INTENTS   *)
(* on every PROJECTION_INTENT entry": an intent in the partition is        *)
(* eventually settled.                                                     *)
EveryIntentIsProcessed ==
    \A i \in Positions : i <= size ~> settled[i] > 0
=============================================================================
