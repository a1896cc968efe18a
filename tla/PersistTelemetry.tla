--------------------------- MODULE PersistTelemetry ---------------------------
(***************************************************************************)
(* The persist-telemetry FSM, its orchestrator and the callers of governed *)
(* reads: every database read and write of the other domains goes through  *)
(* here.                                                                   *)
(*                                                                         *)
(* A domain dispatches DB_READ_REQUESTED or DB_WRITE_REQUESTED; the FSM    *)
(* counts it in flight and returns an EXECUTE action; the orchestrator     *)
(* does the I/O and hands the result back; the FSM dispatches the          *)
(* completion, counts down and moves its one local state, which the reads  *)
(* and the writes share.  FSM dispatch awaits before it acts, so requests  *)
(* and completions are handled in any order.  Completions that the FSM     *)
(* RETURNS as actions (a rejected table, a vetoed write) have no           *)
(* subscriber: they are never dispatched.                                  *)
(***************************************************************************)
EXTENDS Naturals, FiniteSets

CONSTANTS
    Reads,          \* read ids
    Writes,         \* intents to write
    ReadLimit,      \* READ_BACKPRESSURE_THRESHOLD
    WriteLimit,     \* BACKPRESSURE_THRESHOLD
    MaxCompletions  \* bound on the DB_WRITE_COMPLETE events not yet handled

ASSUME PersistAssumption ==
    /\ IsFiniteSet(Reads)
    /\ ReadLimit \in Nat
    /\ WriteLimit \in Nat
    /\ MaxCompletions \in Nat

VARIABLES
    state,          \* _localState
    readsInFlight,  \* _readsInFlight
    inFlight,       \* _inFlight
    read,           \* where each read is
    write,          \* where each write is
    told,           \* what the caller of each read was told
    oks, errs,      \* DB_WRITE_COMPLETE events on their way, without and with
                    \* an error
    open            \* the global state lets the domain move

vars == <<state, readsInFlight, inFlight, read, write, told, oks, errs, open>>

States == {"IDLE", "WRITING", "READ_EXECUTING", "BACKPRESSURE"}

(* asked: requested, awaiting the FSM.  starved: counted, but over the     *)
(* limit and so given to no one.  dropped: the orchestrator ignored it.    *)
(* done, broken: the I/O ended and its completion is on its way.  lost:    *)
(* the completion was blocked.                                             *)
ReadPhases == {"idle", "asked", "refused", "executing", "starved", "dropped",
               "done", "broken", "lost", "answered", "failed"}

WritePhases == {"idle", "asked", "refused", "rejected", "gating", "vetoed",
                "executing", "written", "failed"}

Leaked  == {"starved", "dropped", "lost"}
Serving == {"executing", "done", "broken"}
Counted == Serving \cup Leaked

InPhase(P) == {r \in Reads : read[r] \in P}

Init ==
    /\ state = "IDLE"
    /\ readsInFlight = 0
    /\ inFlight = 0
    /\ read = [r \in Reads |-> "idle"]
    /\ write = [w \in Writes |-> "idle"]
    /\ told = [r \in Reads |-> "nothing"]
    /\ oks = 0 /\ errs = 0
    /\ open = TRUE

-----------------------------------------------------------------------------
(* The global state enters or leaves DEGRADED, RECOVERY, HALTED or DEAD.   *)
GlobalFlip ==
    /\ open' = ~open
    /\ UNCHANGED <<state, readsInFlight, inFlight, read, write, told, oks, errs>>

(* A domain dispatches DB_READ_REQUESTED and waits for no answer of its    *)
(* own (publishing's GOVERNED_READ).                                       *)
AskRead(r) ==
    /\ read[r] = "idle"
    /\ read' = [read EXCEPT ![r] = "asked"]
    /\ UNCHANGED <<state, readsInFlight, inFlight, write, told, oks, errs, open>>

(* CK.governedRead: dispatch returns a promise, whose "allowed" is         *)
(* undefined, so the caller's promise resolves as rejected at once.        *)
GovernedRead(r) ==
    /\ read[r] = "idle"
    /\ read' = [read EXCEPT ![r] = "asked"]
    /\ told' = [told EXCEPT ![r] = "rejected"]
    /\ UNCHANGED <<state, readsInFlight, inFlight, write, oks, errs, open>>

(* DB_READ_REQUESTED blocked by the global state or not whitelisted.       *)
RefuseRead(r) ==
    /\ read[r] = "asked"
    /\ read' = [read EXCEPT ![r] = "refused"]
    /\ UNCHANGED <<state, readsInFlight, inFlight, write, told, oks, errs, open>>

(* Faulty variants of AcceptRead: the read over the limit is not counted;  *)
(* the limit is compared with the count before the read.                   *)
AcceptReadUncounted(r) ==
    /\ read[r] = "asked" /\ open
    /\ state' = IF state = "IDLE" THEN "READ_EXECUTING" ELSE state
    /\ IF readsInFlight + 1 > ReadLimit
       THEN read' = [read EXCEPT ![r] = "starved"] /\ UNCHANGED readsInFlight
       ELSE read' = [read EXCEPT ![r] = "executing"] /\ readsInFlight' = readsInFlight + 1
    /\ UNCHANGED <<inFlight, write, told, oks, errs, open>>

AcceptReadLate(r) ==
    /\ read[r] = "asked" /\ open
    /\ state' = IF state = "IDLE" THEN "READ_EXECUTING" ELSE state
    /\ readsInFlight' = readsInFlight + 1
    /\ read' = [read EXCEPT ![r] =
                    IF readsInFlight > ReadLimit THEN "starved" ELSE "executing"]
    /\ UNCHANGED <<inFlight, write, told, oks, errs, open>>

(* DB_READ_REQUESTED: counted in any case, executed under the limit.       *)
AcceptRead(r) ==
    /\ read[r] = "asked" /\ open
    /\ state' = IF state = "IDLE" THEN "READ_EXECUTING" ELSE state
    /\ readsInFlight' = readsInFlight + 1
    /\ read' = [read EXCEPT ![r] =
                    IF readsInFlight' > ReadLimit THEN "starved" ELSE "executing"]
    /\ UNCHANGED <<inFlight, write, told, oks, errs, open>>

(* EXECUTE_DB_READ without an accountId, as the credential resolver and    *)
(* the hydrators send through governedRead: the orchestrator returns.      *)
DropRead(r) ==
    /\ read[r] = "executing" /\ told[r] = "rejected"
    /\ read' = [read EXCEPT ![r] = "dropped"]
    /\ UNCHANGED <<state, readsInFlight, inFlight, write, told, oks, errs, open>>

(* The reading substrate answers, or fails: receiveReadResult dispatches   *)
(* DB_READ_COMPLETE.                                                       *)
FinishRead(r) ==
    /\ read[r] = "executing"
    /\ \E p \in {"done", "broken"} : read' = [read EXCEPT ![r] = p]
    /\ UNCHANGED <<state, readsInFlight, inFlight, write, told, oks, errs, open>>

(* DB_READ_COMPLETE refused: no read counted, or the global state blocks.  *)
LoseRead(r) ==
    /\ read[r] \in {"done", "broken"}
    /\ readsInFlight = 0 \/ ~open
    /\ read' = [read EXCEPT ![r] = "lost"]
    /\ UNCHANGED <<state, readsInFlight, inFlight, write, told, oks, errs, open>>

(* Faulty variant of CompleteRead: accepted in READ_EXECUTING only.        *)
CompleteReadInState(r) ==
    /\ read[r] \in {"done", "broken"}
    /\ readsInFlight > 0 /\ open /\ state = "READ_EXECUTING"
    /\ readsInFlight' = readsInFlight - 1
    /\ state' = IF readsInFlight' > 0 THEN "READ_EXECUTING"
                ELSE IF inFlight = 0 THEN "IDLE" ELSE state
    /\ read' = [read EXCEPT ![r] = IF read[r] = "done" THEN "answered" ELSE "failed"]
    /\ UNCHANGED <<inFlight, write, told, oks, errs, open>>

(* DB_READ_COMPLETE: the target is computed for the count after the        *)
(* decrement.                                                              *)
CompleteRead(r) ==
    /\ read[r] \in {"done", "broken"}
    /\ readsInFlight > 0 /\ open
    /\ readsInFlight' = readsInFlight - 1
    /\ state' = IF readsInFlight' > 0 THEN "READ_EXECUTING"
                ELSE IF inFlight = 0 THEN "IDLE" ELSE state
    /\ read' = [read EXCEPT ![r] = IF read[r] = "done" THEN "answered" ELSE "failed"]
    /\ UNCHANGED <<inFlight, write, told, oks, errs, open>>

-----------------------------------------------------------------------------
AskWrite(w) ==
    /\ write[w] = "idle"
    /\ write' = [write EXCEPT ![w] = "asked"]
    /\ UNCHANGED <<state, readsInFlight, inFlight, read, told, oks, errs, open>>

(* DB_WRITE_REQUESTED blocked by the global state.                         *)
RefuseWrite(w) ==
    /\ write[w] = "asked" /\ ~open
    /\ write' = [write EXCEPT ![w] = "refused"]
    /\ UNCHANGED <<state, readsInFlight, inFlight, read, told, oks, errs, open>>

(* DB_WRITE_REQUESTED: the target is materialised, then either the table   *)
(* is not whitelisted or the FSM awaits the sanity check.                  *)
BeginWrite(w) ==
    /\ write[w] = "asked" /\ open
    /\ state' = IF inFlight + 1 > WriteLimit THEN "BACKPRESSURE"
                ELSE IF state = "IDLE" THEN "WRITING" ELSE state
    /\ \E p \in {"rejected", "gating"} : write' = [write EXCEPT ![w] = p]
    /\ UNCHANGED <<readsInFlight, inFlight, read, told, oks, errs, open>>

(* The sanity check answers: the write is counted either way, executed     *)
(* only when it is allowed.                                                *)
GateWrite(w) ==
    /\ write[w] = "gating"
    /\ inFlight' = inFlight + 1
    /\ \E p \in {"vetoed", "executing"} : write' = [write EXCEPT ![w] = p]
    /\ UNCHANGED <<state, readsInFlight, read, told, oks, errs, open>>

(* bedrock dispatches DB_WRITE_COMPLETE after each upsert, for the writer  *)
(* of a governed write or for a worker that calls it directly.             *)
BedrockEmits ==
    /\ oks < MaxCompletions
    /\ oks' = oks + 1
    /\ UNCHANGED <<state, readsInFlight, inFlight, read, write, told, errs, open>>

(* The insights writer emits DB_WRITE_COMPLETE and returns a result        *)
(* without "emitted": the orchestrator reports it a second time.           *)
FinishWrite(w) ==
    /\ write[w] = "executing"
    /\ oks + 2 <= MaxCompletions
    /\ write' = [write EXCEPT ![w] = "written"]
    /\ oks' = oks + 2
    /\ UNCHANGED <<state, readsInFlight, inFlight, read, told, errs, open>>

(* No writer for the domain, or the writer failed: its DB_WRITE_FAILED is  *)
(* a global event without effect, the orchestrator reports the error.      *)
FailWrite(w) ==
    /\ write[w] = "executing"
    /\ errs < MaxCompletions
    /\ write' = [write EXCEPT ![w] = "failed"]
    /\ errs' = errs + 1
    /\ UNCHANGED <<state, readsInFlight, inFlight, read, told, oks, open>>

(* Faulty variants of CompleteWrite: the count is not clamped at zero; the *)
(* completion is accepted in any state.                                    *)
CompleteWriteUnclamped ==
    /\ \/ oks > 0 /\ oks' = oks - 1 /\ UNCHANGED errs
       \/ errs > 0 /\ errs' = errs - 1 /\ UNCHANGED oks
    /\ IF open /\ state \in {"WRITING", "BACKPRESSURE"}
       THEN /\ state' = IF inFlight = 0 THEN "IDLE" ELSE state
            /\ inFlight' = inFlight - 1
       ELSE UNCHANGED <<state, inFlight>>
    /\ UNCHANGED <<readsInFlight, read, write, told, open>>

CompleteWriteAnywhere ==
    /\ \/ oks > 0 /\ oks' = oks - 1 /\ UNCHANGED errs
       \/ errs > 0 /\ errs' = errs - 1 /\ UNCHANGED oks
    /\ IF open
       THEN /\ state' = IF inFlight = 0 THEN "IDLE"
                        ELSE IF inFlight > WriteLimit THEN "BACKPRESSURE" ELSE state
            /\ inFlight' = IF inFlight = 0 THEN 0 ELSE inFlight - 1
       ELSE UNCHANGED <<state, inFlight>>
    /\ UNCHANGED <<readsInFlight, read, write, told, open>>

(* DB_WRITE_COMPLETE: refused unless the FSM is WRITING or BACKPRESSURE    *)
(* and the global state allows; the target is computed for the count       *)
(* before the decrement.                                                   *)
CompleteWrite ==
    /\ \/ oks > 0 /\ oks' = oks - 1 /\ UNCHANGED errs
       \/ errs > 0 /\ errs' = errs - 1 /\ UNCHANGED oks
    /\ IF open /\ state \in {"WRITING", "BACKPRESSURE"}
       THEN /\ state' = IF inFlight = 0 THEN "IDLE"
                        ELSE IF inFlight > WriteLimit THEN "BACKPRESSURE" ELSE state
            /\ inFlight' = IF inFlight = 0 THEN 0 ELSE inFlight - 1
       ELSE UNCHANGED <<state, inFlight>>
    /\ UNCHANGED <<readsInFlight, read, write, told, open>>

Next ==
    \/ GlobalFlip
    \/ \E r \in Reads : AskRead(r) \/ GovernedRead(r) \/ RefuseRead(r) \/ AcceptRead(r)
                        \/ DropRead(r) \/ FinishRead(r) \/ LoseRead(r) \/ CompleteRead(r)
    \/ \E w \in Writes : AskWrite(w) \/ RefuseWrite(w) \/ BeginWrite(w) \/ GateWrite(w)
                         \/ FinishWrite(w) \/ FailWrite(w)
    \/ BedrockEmits
    \/ CompleteWrite

Spec == Init /\ [][Next]_vars

(* The event loop delivers what was dispatched and the database answers.   *)
Fairness ==
    /\ \A r \in Reads : WF_vars(FinishRead(r)) /\ WF_vars(CompleteRead(r))
    /\ WF_vars(CompleteWrite)

LiveSpec == Spec /\ Fairness

-----------------------------------------------------------------------------
(* Every variable has its type.                                            *)
TypeOK ==
    /\ state \in States
    /\ readsInFlight \in Nat
    /\ inFlight \in Nat
    /\ read \in [Reads -> ReadPhases]
    /\ write \in [Writes -> WritePhases]
    /\ told \in [Reads -> {"nothing", "rejected"}]
    /\ oks \in Nat /\ errs \in Nat
    /\ open \in BOOLEAN

(* The read counter is exact: it counts the reads that execute, those      *)
(* whose completion is on its way, and for ever the ones nobody will       *)
(* complete: starved, dropped by the orchestrator, or completed while the  *)
(* global state blocked the domain.                                        *)
ReadsAreAccounted == readsInFlight = Cardinality(InPhase(Counted))

(* The FSM says READ_EXECUTING only while a read or a write is counted.    *)
BusyIsCounted == state = "READ_EXECUTING" => readsInFlight > 0 \/ inFlight > 0

(* Reads and writes share one state: while a write is counted and the FSM  *)
(* says READ_EXECUTING, every DB_WRITE_COMPLETE is refused.  No completion *)
(* of a read or a write ends that; only more writes than the limit do,     *)
(* through BACKPRESSURE.                                                   *)
WedgeEndsByOverflow ==
    [][state = "READ_EXECUTING" /\ inFlight > 0 =>
           /\ inFlight' >= inFlight
           /\ state' \in {"READ_EXECUTING", "BACKPRESSURE"}
           /\ state' = "BACKPRESSURE" => inFlight >= WriteLimit]_vars

(* When the leaked reads fill the limit, no read is executed any more: the *)
(* backpressure never clears.                                              *)
StarvationIsForever ==
    [][Cardinality(InPhase(Leaked)) >= ReadLimit =>
           \A r \in Reads : read'[r] = "executing" => read[r] = "executing"]_vars

(* A read the orchestrator takes is answered, whatever the writes do to    *)
(* the shared state, unless the global state blocks the domain.            *)
ReadsSettle ==
    \A r \in Reads :
        [](read[r] = "executing" /\ told[r] = "nothing" /\ []open
              => <>(read[r] \in {"answered", "failed"}))

(* The reads implement a semaphore that leaks: a read is served with a     *)
(* permit under the limit, each permit comes back once at most, and only   *)
(* from the read that took it.                                             *)
Semaphore == INSTANCE ReadPermits WITH
    Clients <- Reads, Permits <- ReadLimit,
    used <- readsInFlight, serving <- InPhase(Serving), lost <- InPhase(Leaked)
IsLeakySemaphore == Semaphore!Spec
=============================================================================
