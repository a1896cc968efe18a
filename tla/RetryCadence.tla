----------------------------- MODULE RetryCadence -----------------------------
(***************************************************************************)
(* The retry chains of the engagement FSM: the execution contexts it keeps *)
(* per intent, the timers it sets and clears, and the retry workers the    *)
(* timers start.                                                           *)
(*                                                                         *)
(* The handler that schedules a retry reads the context of the intent,     *)
(* awaits the sanity check and writes the context afterwards, in two       *)
(* steps.  What it read it keeps by reference: when the context it holds   *)
(* is still to be counted up by the handler that stored it, it counts on   *)
(* from there.  Handlers for one intent overlap: the dedup FSM and the     *)
(* reconciliation cycle report every failure under the intent null, and a  *)
(* context can hold the handle of one timer only.                          *)
(***************************************************************************)
EXTENDS Naturals

CONSTANTS
    Intents,        \* keys of _executionContexts
    Strands,        \* a bound: handlers, timers and workers at one time
    MaxRetries,     \* maxRetries of the domain's policy
    MaxLate,        \* a bound: late reads of the contexts of one intent
    Faults          \* what may go wrong around a chain

ASSUME RetryAssumption ==
    /\ MaxRetries \in Nat \ {0}
    /\ MaxLate \in Nat
    /\ Faults \subseteq {"freeze", "refuse", "die", "rate_limit", "stub"}

NoTimer == "no-timer"

(* No key in the map.  A stored context differs: it has a timer from the   *)
(* start, and a count once its handler is over.                            *)
NoContext == [count |-> 0, timer |-> NoTimer]

ASSUME NoTimerAssumption == NoTimer \notin Strands

VARIABLES
    context,    \* _executionContexts: count and timeoutId of each intent
    pc,         \* where each strand is: its handler awaits the sanity check
                \* ("checking"), has set its timer ("committing", "cleared"
                \* if the timer was cleared since), is over with the timer
                \* pending ("armed"); its worker runs ("running")
    intent,     \* the intent of each strand
    base,       \* context.count of its own context: a copy of the count its
                \* handler read, counted up in the end
    existing,   \* the context its handler took from the map: the count it
                \* shows by now, and who has still to count it up
    frozen,     \* does the kernel veto the transitions of engagement
    serial,     \* history: no two strands of the intent were ever active
    fired,      \* history: retries started since the context was created,
                \* while the intent is serial
    late        \* history: handlers of the intent that took a context its
                \* own handler had stored and not counted up yet

vars == <<context, pc, intent, base, existing, frozen, serial, fired, late>>

NothingTaken == [count |-> 0, owner |-> NoTimer]

Active(s, i) == pc[s] # "idle" /\ intent[s] = i

Alone(s, i) == \A t \in Strands \ {s} : ~Active(t, i)

Count(i) == context[i].count

(* The handler of the context of i has set its timer and stored it, and is *)
(* yet to return from _scheduleRetry and count it up.                      *)
HalfWritten(i) == context[i].timer # NoTimer /\ pc[context[i].timer] = "committing"

Init ==
    /\ context = [i \in Intents |-> NoContext]
    /\ pc = [s \in Strands |-> "idle"]
    /\ intent \in [Strands -> Intents]
    /\ base = [s \in Strands |-> 0]
    /\ existing = [s \in Strands |-> NothingTaken]
    /\ frozen = FALSE
    /\ serial = [i \in Intents |-> TRUE]
    /\ fired = [i \in Intents |-> 0]
    /\ late = [i \in Intents |-> 0]

-----------------------------------------------------------------------------
(* The end of a handler: it stores its context with count n and handle t.  *)
(* Whoever took this context from the map sees the new count.              *)
StoresContext(s, n, t) ==
    /\ pc[s] \in {"committing", "cleared"}
    /\ pc' = [pc EXCEPT ![s] = IF @ = "committing" THEN "armed" ELSE "idle"]
    /\ context' = [context EXCEPT ![intent[s]] = [count |-> n, timer |-> t]]
    /\ base' = [base EXCEPT ![s] = n]
    /\ existing' = [r \in Strands |->
           IF r = s THEN NothingTaken
           ELSE IF existing[r].owner = s THEN [count |-> n, owner |-> NoTimer]
           ELSE existing[r]]
    /\ UNCHANGED <<intent, frozen, serial, fired, late>>

(* The handle its context holds by then: a cleared one stops nothing.      *)
Handle(s) == IF pc[s] = "committing" THEN s ELSE NoTimer

(* Faulty variants: a budget check off by one, a handle nobody assigned, a *)
(* timer that fires without clearing its handle, a cancellation that keeps *)
(* the context.                                                            *)
ExhaustedPastBudget(i) == Count(i) > MaxRetries

CommitUndefinedHandle(s) == StoresContext(s, existing[s].count + 1, "undefined")

FireKeepingHandle(s) ==
    /\ pc[s] = "armed"
    /\ \A t \in Strands : pc[t] \notin {"committing", "cleared"}
    /\ pc' = [pc EXCEPT ![s] = "running"]
    /\ UNCHANGED <<context, intent, base, existing, frozen, serial, fired, late>>

CancelKeepingContext(i, p) ==
    /\ pc' = p
    /\ UNCHANGED <<context, fired>>

(* The budget check: a missing context never is exhausted.                 *)
Exhausted(i) == Count(i) >= MaxRetries

(* clearTimeout of the handle the context of i holds.                      *)
Stopped(i, p) ==
    IF context[i].timer = NoTimer THEN p
    ELSE [p EXCEPT ![context[i].timer] = IF @ = "committing" THEN "cleared" ELSE "idle"]

(* _cancelRetry(i), after which the strands are as in p.                   *)
CancelRetry(i, p) ==
    /\ pc' = Stopped(i, p)
    /\ context' = [context EXCEPT ![i] = NoContext]
    /\ fired' = [fired EXCEPT ![i] = 0]

(* WORKER_OUTCOME_REPORTED about i gets to its handler: it is the outcome  *)
(* of the retry that s runs, or a first failure, and the kernel validates  *)
(* the transition.                                                         *)
Handles(s, i, first) ==
    /\ ~frozen
    /\ IF first THEN pc[s] = "idle" ELSE Active(s, i) /\ pc[s] = "running"
    /\ serial' = [serial EXCEPT ![i] = @ /\ Alone(s, i)]

Ended(s) == [pc EXCEPT ![s] = "idle"]

(* Completed, skipped, or failed for good (AUTH_FAILURE,                   *)
(* PERMANENT_FAILURE, no error shape): the chain is cancelled.  Only a     *)
(* retry reports a success to this FSM.                                    *)
ReportFinal(s, i, first) ==
    /\ Handles(s, i, first)
    /\ CancelRetry(i, Ended(s))
    /\ UNCHANGED <<intent, base, existing, frozen, late>>

(* TRANSIENT_RETRY, or RETRY_REQUESTED, with the budget gone.              *)
ReportExhausted(s, i, first) ==
    /\ Handles(s, i, first)
    /\ Exhausted(i)
    /\ CancelRetry(i, Ended(s))
    /\ UNCHANGED <<intent, base, existing, frozen, late>>

(* _buildRetrySchedule up to the sanity check: the handler takes the       *)
(* context of i from the map and builds one of its own with count n.       *)
TakesContext(s, i, n) ==
    /\ HalfWritten(i) => late[i] < MaxLate
    /\ pc' = [pc EXCEPT ![s] = "checking"]
    /\ intent' = [intent EXCEPT ![s] = i]
    /\ base' = [base EXCEPT ![s] = n]
    /\ existing' = [existing EXCEPT ![s] =
           [count |-> n, owner |-> IF HalfWritten(i) THEN context[i].timer ELSE NoTimer]]
    /\ late' = [late EXCEPT ![i] = IF HalfWritten(i) THEN @ + 1 ELSE @]
    /\ UNCHANGED <<context, frozen, fired>>

(* Faulty variant: a schedule that starts counting anew.                   *)
ReportTransientAnew(s, i, first) ==
    /\ Handles(s, i, first)
    /\ ~Exhausted(i)
    /\ TakesContext(s, i, 0)

(* TRANSIENT_RETRY, or RETRY_REQUESTED, within the budget.                 *)
ReportTransient(s, i, first) ==
    /\ Handles(s, i, first)
    /\ ~Exhausted(i)
    /\ TakesContext(s, i, Count(i))

(* RATE_LIMIT: the pending retry is kept; the action emitted for the       *)
(* circuit breaker has no subscriber.                                      *)
ReportRateLimit(s, i, first) ==
    /\ "rate_limit" \in Faults
    /\ Handles(s, i, first)
    /\ pc' = Ended(s)
    /\ UNCHANGED <<context, intent, base, existing, frozen, fired, late>>

(* RETRY_EXHAUSTED, dispatched through notifyExhausted of a retry stub     *)
(* (exported to the other kernels, called by none of them so far).         *)
StubExhausts(i) ==
    /\ "stub" \in Faults
    /\ ~frozen
    /\ CancelRetry(i, pc)
    /\ serial' = [serial EXCEPT ![i] = @ /\ \A s \in Strands : ~Active(s, i)]
    /\ UNCHANGED <<intent, base, existing, frozen, late>>

-----------------------------------------------------------------------------
(* The sanity check has answered.  A handler that took a half-written      *)
(* context asked after that one's return was queued, so its answer comes   *)
(* behind it.                                                              *)
Checked(s) == pc[s] = "checking" /\ existing[s].owner = NoTimer

(* It allows: set the timer, store the new context with the copied count.  *)
(* The timer of the context it replaces is not cleared.                    *)
Approve(s) ==
    /\ Checked(s)
    /\ pc' = [pc EXCEPT ![s] = "committing"]
    /\ context' = [context EXCEPT ![intent[s]] = [count |-> base[s], timer |-> s]]
    /\ UNCHANGED <<intent, base, existing, frozen, serial, fired, late>>

(* It refuses (kernel HALTED): SANITY_CHECK_REJECTED is emitted as an      *)
(* action, to which nobody subscribes.                                     *)
Refuse(s) ==
    /\ "refuse" \in Faults
    /\ Checked(s)
    /\ pc' = [pc EXCEPT ![s] = "idle"]
    /\ existing' = [existing EXCEPT ![s] = NothingTaken]
    /\ UNCHANGED <<context, intent, base, frozen, serial, fired, late>>

(* _scheduleRetry has returned: the count becomes one more than the one    *)
(* the context it took shows by now, not than the copy, and its context is *)
(* stored again, whatever happened in between.                             *)
Commit(s) == StoresContext(s, existing[s].count + 1, Handle(s))

(* The timer fires, never before the microtasks of a handler are drained:  *)
(* it clears the handle of the context the intent has by now, its own or   *)
(* not, and starts the worker.                                             *)
Fire(s) ==
    /\ pc[s] = "armed"
    /\ \A t \in Strands : pc[t] \notin {"committing", "cleared"}
    /\ pc' = [pc EXCEPT ![s] = "running"]
    /\ context' = [context EXCEPT ![intent[s]].timer = NoTimer]
    /\ fired' = IF serial[intent[s]] THEN [fired EXCEPT ![intent[s]] = @ + 1] ELSE fired
    /\ UNCHANGED <<intent, base, existing, frozen, serial, late>>

(* _executeRetry without a report: the gate blocks the worker, or the      *)
(* worker throws; the error is logged.                                     *)
Die(s) ==
    /\ "die" \in Faults
    /\ pc[s] = "running"
    /\ pc' = [pc EXCEPT ![s] = "idle"]
    /\ UNCHANGED <<context, intent, base, existing, frozen, serial, fired, late>>

(* The report of a retry is answered allowed: false; the worker ignores it.*)
Unheard(s) ==
    /\ frozen
    /\ pc[s] = "running"
    /\ pc' = [pc EXCEPT ![s] = "idle"]
    /\ UNCHANGED <<context, intent, base, existing, frozen, serial, fired, late>>

(* The global state enters or leaves DEGRADED, RECOVERY or HALTED.         *)
FreezeChanges ==
    /\ "freeze" \in Faults
    /\ frozen' = ~frozen
    /\ UNCHANGED <<context, pc, intent, base, existing, serial, fired, late>>

Reports(s, i, first) ==
    \/ ReportFinal(s, i, first)
    \/ ReportExhausted(s, i, first)
    \/ ReportTransient(s, i, first)
    \/ ReportRateLimit(s, i, first)

Next ==
    \/ \E s \in Strands, i \in Intents, first \in BOOLEAN : Reports(s, i, first)
    \/ \E i \in Intents : StubExhausts(i)
    \/ \E s \in Strands :
           Approve(s) \/ Refuse(s) \/ Commit(s) \/ Fire(s) \/ Die(s) \/ Unheard(s)
    \/ FreezeChanges

(* Promises settle, a due timer runs between two turns of the event loop,  *)
(* and a worker's requests time out, so it ends.                           *)
Fairness ==
    \A s \in Strands :
        /\ WF_vars(Approve(s) \/ Refuse(s))
        /\ WF_vars(Commit(s))
        /\ SF_vars(Fire(s))
        /\ WF_vars(Die(s) \/ Unheard(s) \/ \E i \in Intents : Reports(s, i, FALSE))

Spec == Init /\ [][Next]_vars /\ Fairness

-----------------------------------------------------------------------------
(* Every variable has its type.                                            *)
TypeOK ==
    /\ context \in [Intents -> [count : Nat, timer : Strands \cup {NoTimer}]]
    /\ pc \in [Strands -> {"idle", "checking", "committing", "cleared", "armed", "running"}]
    /\ intent \in [Strands -> Intents]
    /\ base \in [Strands -> Nat]
    /\ existing \in [Strands -> [count : Nat, owner : Strands \cup {NoTimer}]]
    /\ frozen \in BOOLEAN
    /\ serial \in [Intents -> BOOLEAN]
    /\ fired \in [Intents -> Nat]
    /\ late \in [Intents -> Nat]

(* However the handlers of an intent overlap and write back counts they    *)
(* copied before an await, the context counts more retries than the budget *)
(* only by those of handlers that took a context between another's two     *)
(* writes, one for each, and the retries that start are numbered alike: an *)
(* intent without such a handler keeps to its budget.                      *)
OverrunOnlyByLateReads ==
    /\ \A i \in Intents : Count(i) <= MaxRetries + late[i]
    /\ \A s \in Strands : pc[s] \in {"armed", "running"} =>
           base[s] \in 1..(MaxRetries + late[intent[s]])

(* While the handlers, timers and workers of an intent follow one another, *)
(* the context tells the whole truth about the chain: a pending timer is   *)
(* the one it holds, its count is the retries started and the pending one, *)
(* and no more retries start than the budget allows.                       *)
ChainIsAccounted ==
    \A i \in Intents : serial[i] =>
        /\ \A s \in Strands : Active(s, i) /\ pc[s] = "armed" =>
               context[i].timer = s
        /\ \A s \in Strands : Active(s, i) /\ pc[s] = "armed" => Count(i) = fired[i] + 1
        /\ (\A s \in Strands : ~Active(s, i)) => Count(i) = fired[i]
        /\ fired[i] <= MaxRetries

(* The chain of an intent, told by where its only strand is.               *)
At(i, places) == \E s \in Strands : Active(s, i) /\ pc[s] \in places

StageOf(i) ==
    IF ~serial[i] THEN "mixed"
    ELSE CASE At(i, {"checking", "committing", "cleared"}) -> "handling"
           [] At(i, {"armed"})                             -> "pending"
           [] At(i, {"running"})                           -> "running"
           [] OTHER                                        -> "none"

Stages == [i \in Intents |-> StageOf(i)]

Started == [i \in Intents |-> IF serial[i] THEN fired[i] ELSE 0]

Chains ==
    INSTANCE RetryChains WITH Budget <- MaxRetries, stage <- Stages, retries <- Started

(* Whatever the kernel vetoes, workers lose and other intents do, and with *)
(* every handler writing back what it read before an await, the retries of *)
(* an intent are a chain of one after the other within its budget, until   *)
(* two of its handlers, timers or workers overlap.                         *)
IsRetryChains == Chains!Spec

(* The handle a context holds is that of a live timer of the same intent:  *)
(* clearing it never stops the retry of another.                           *)
HandleIsLive ==
    \A i \in Intents :
        context[i].timer # NoTimer
            => /\ pc[context[i].timer] \in {"committing", "armed"}
               /\ intent[context[i].timer] = i

(* Why OverrunOnlyByLateReads holds: a handler only gets past the check    *)
(* with a count below the budget, the context it took counts less than the *)
(* budget and the late reads, and one that is half-written still will when *)
(* its own handler has counted it up.                                      *)
BudgetInv ==
    /\ OverrunOnlyByLateReads
    /\ \A s \in Strands : pc[s] \in {"checking", "committing", "cleared"} =>
           /\ base[s] < MaxRetries
           /\ existing[s].count < MaxRetries + late[intent[s]]
           /\ LET o == existing[s].owner IN
              o # NoTimer =>
                  /\ pc[s] = "checking"
                  /\ pc[o] \in {"committing", "cleared"}
                  /\ existing[o].count + 1 < MaxRetries + late[intent[s]]

(* Why ChainIsAccounted holds: at every place of its single strand, the    *)
(* context of a serial intent is known.                                    *)
ContextAt(s) ==
    [count |-> base[s],
     timer |-> IF pc[s] \in {"committing", "armed"} THEN s ELSE NoTimer]

SerialAt(i) ==
    /\ \A s, t \in Strands : Active(s, i) /\ Active(t, i) => s = t
    /\ \A s \in Strands : Active(s, i) =>
           /\ context[i] = ContextAt(s)
           /\ base[s] = IF pc[s] = "armed" THEN fired[i] + 1 ELSE fired[i]
           /\ pc[s] \in {"checking", "committing"} =>
                  existing[s] = [count |-> base[s], owner |-> NoTimer]
           /\ pc[s] # "cleared"
    /\ (\A s \in Strands : ~Active(s, i)) =>
           context[i] = [count |-> fired[i], timer |-> NoTimer]
    /\ late[i] = 0

SerialInv == \A i \in Intents : serial[i] => SerialAt(i)

(* As long as nothing overlaps and no report is lost, every chain ends: a  *)
(* retry succeeds, or the failures use up the budget.                      *)
SerialChainEnds ==
    \A i \in Intents :
        context[i] # NoContext /\ serial[i] ~> context[i] = NoContext \/ ~serial[i]

(* "Cancel a pending retry.  Clears the timer, removes the execution       *)
(* context": an intent without a context has no retry waiting to start.    *)
CancelStopsRetries ==
    \A i \in Intents : context[i] = NoContext =>
        \A s \in Strands : ~(Active(s, i) /\ pc[s] = "armed")
=============================================================================
