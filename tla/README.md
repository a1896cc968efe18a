# A verification development of the Instagram automation backend

The repository is a Node.js service that collects, deduplicates and publishes
Instagram data. Its core is a hierarchy of state machines: a *constitutional
kernel* through which every governance event passes, and domain FSMs (acquisition,
engagement or retry cadence, publishing, scheduling, dedup, reconciliation,
telemetry, graph capability, persist telemetry) that it routes events to and
whose transitions it validates. Everything runs in one process on one event
loop; concurrency comes from `await`, timers and promises, so the interleavings
that matter are those of the turns of the event loop.

This directory holds TLA+ modules translated from that code, TLC configurations
that check them on small instances, and TLAPS proofs of their main invariants.

## Inventory

| Component | State it keeps | Operations | Interacts by | What must hold |
|---|---|---|---|---|
| Constitutional kernel, global lifecycle (`control-plane/governance/constitutional-kernel.js`) | `_currentState`, `_stateEnteredAt`, pending insights failures, ingestion lag | `dispatch` of global events, `_watchdogTick`, `startLoop`, `rehydrate`, `validateDomainTransition` | called by every FSM (`ctx.validate`, `ctx.dispatchGlobal`) and by the orchestrator | a freeze of the domains is watched, bounded and ends; HALTED is final; accepted failures are decided |
| Constitutional kernel, source gate and worker gate | `_domains`, `_workerRegistry`, `_currentWorkerContext` | gate of `dispatch`, `ctx.invokeWorker`, `registerDomain` | one variable shared by all invocations across awaits | the gate is open exactly while a worker runs |
| Engagement FSM (`retry-cadence-kernel`) | `_executionContexts`, `_circuitBreakers`, `_authFailureStrikes`, `_deferredIntents` | `WORKER_OUTCOME_REPORTED`, `RETRY_REQUESTED`, `RETRY_EXHAUSTED`, timers, breaker and strike events | workers report through the kernel; timers start workers through the worker gate | the retry budget, no retry after a cancellation, a chain ends |
| Reconciliation (`reconciliation-kernel`, kernel section 11) | FSM state, drift counters, epoch | `TICK`, `RESULTS_RECEIVED`, `CYCLE_COMPLETE`, triggers T1 to T5 | kernel reads the FSM's state in the turn it dispatches to it; no path of `src/` starts it | nothing, until something starts it |
| Telemetry coordination (`telemetry-kernel/fsm.js`) and the intent partition (`control-plane/observability/projection.js`) | state, cursor, in-flight flag, reactive trigger, ingress retry budget | `PROCESS_INTENTS`, halt, resume, ingress retries, the `onWrite` trigger, `PROJECTION_PERSISTED` | workers append intents to a Redis list; the kernel routes and validates its events; backpressure signals go to the kernel | one cycle at a time, no intent passed by, none settled again without a reason, a written intent is processed |
| Lineage ledger, checkpointer, transition writers | a Redis list; a checkpoint file | append, mark accepted or failed, remove, materialise | writers append; the dispatch that should mark an entry is never made | a verdict reaches the entry it is about, once there are verdicts |
| Graph capability (`graph-capability-kernel`) | a record per credential: state, evidence, stamp, failures | observations, derived events, checks, evaluation, data requests, `requireCapability` | signals degradation and recovery to the kernel; answers publishing and acquisition; every use of the Graph API asks it | no use of the API for an account not observed in full; no authorisation without an observation in the window |
| Acquisition | intents with phases and timestamps | intent lifecycle, timeout sweeper | reports to engagement and to the kernel | an intent ends once |
| Publishing | state, the publication in flight | cognition, execution, timeout, capability check | asks graph capability, reports to the kernel | at most one publication, a late result is not applied |
| Persist telemetry (`postgres-telemetry-kernel`: FSM, orchestrator, writers, bedrock) and `governedRead` | one state for reads and writes, two counters, pending reads | `DB_READ_REQUESTED`, `DB_WRITE_REQUESTED` and their completions | the FSM counts and returns an action, the orchestrator does the I/O and reports back, bedrock and the writers report as well | the counters count what is in flight; a read taken is answered |
| Scheduling (`scheduling-kernel`) | state, metrics buffer, query cache | cadence cycle, metrics record, query and flush | orchestrator fans each step back; the cadence does not wait for a cycle | a cycle comes back to IDLE; no metric is lost or stored twice |
| Webview membrane (`webview-stream.js`, `webview-fsm.js`) | position, attempts, running and stop flags | the XREAD pump, start, stop | reads one Redis stream, adds receipts to another; started by the kernel's bootstrap | an entry is answered at most once, in order; none skipped once reading has begun |
| Dedup | state, counters | its events | through the kernel | a duplicate is dispatched once |
| Observability, interpreters, substrates, routes, clients | records, caches, connections | I/O | called by the above | nothing above depends on them |

The behaviours that are hard here: handlers that read state, await and write;
several worker invocations in flight over one module variable; timers that
outlive the context they were set for; reports refused because the runtime is
frozen; events returned as actions that nobody dispatches; counters that are raised by a
request and lowered by a completion that may never come; buffers handed to a
worker that may fail; a boot that fails half-way while the server goes on. `PROJECT.json` lists them under `hazards`,
each at its line, with the property that covers it or the reason none does yet.

## Modules

`GlobalLifecycle` - constant operators. The six global states, the events of
`GLOBAL_TRANSITION_MAP` grouped by what they do, `Target`, `GuardedFrom` (the
per-event guards as sets of states), `GeneralGuard` (`runGeneralGuards`),
`Materialises` and `StateAfter` (the tail of `dispatch`), `DomainMayMove`
(`validateDomainTransition`, without the membrane authority of the event).
`RecordedEvents` are those whose target is null: the code returns before guard
and `buildActions`, and so does the model.

`ConstitutionalKernel` - the state machine over these. `state` is
`_currentState`; `age` is the time since `_stateEnteredAt` in watchdog periods of
10 s; `loop` says that `_watchdogInterval` is installed; `boot` is where
`startAllWorkers` is; `pending` is `_pendingInsightsFailures`; `reported` and
`frozen` are history variables that no guard reads. Actions: `Signal` (a domain
dispatches a lifecycle event; `CAPABILITY_DEGRADED` only in the turn in which the
kernel validated the transition that raises it, see
`graph-capability-kernel/fsm.js:1315-1395`), `BootCompletes`, `BootFails`,
`Rehydrate`, `StartLoopEarly`, `Tick`, `ReportInsightsFailure`,
`DecideInsightsFailure`. Time is a count of periods: on its n-th tick a state's
elapsed time lies in ((n-1)*10 s, n*10 s], so at n = TTL the watchdog may act and
above it must. `RuntimeFreeze` is what all this amounts to for a domain: starting,
open, degraded, recovering or halted, with the times the freeze keeps; `Mode` maps
the global states to it.

`CanonicalGate` - the source gate. `registered` are the keys of `_domains`, `ctx`
is `_currentWorkerContext`, `pc` and `prev` are where each invocation is and the
`prevCtx` it saved. `Request` starts the sanity check, `Reject` and `Start` are
its outcomes, `Finish` is the `finally`; `Deliver` is `dispatch` of a domain event
that gets through; a refused one changes nothing and is no action. `nested`,
`stack` and `last` are history: whether invocations have so far ended in the
reverse order of their starts, in which order they started, what was let in.

`RetryCadence` - the retry chains. A *strand* is a handler, then its timer, then
the worker that the timer starts, one after the other; `pc` says which.
`context` is `_executionContexts` (count and handle of each intent), `base` the
count of the context a handler builds for itself, a copy of the one it read.
`Approve` and `Commit` are the two writes of `_scheduleRetry` and
`_buildRetrySchedule`, on both sides of an await; `Fire` is the timer callback,
which clears the handle of whatever context the intent has. `existing` is the
variable of that name (1849), a reference: the count its object shows by now, and
the strand that has stored the object and is still to count it up (`HalfWritten`).
`StoresContext` therefore changes `existing` of every handler that took the object,
and `Commit` adds one to what the object shows, not to the copy. Which answer comes
first is decided for one case by the order of microtasks: a handler that took a
half-written object asked the sanity check after the owner's return was queued, and
so commits behind it (`Checked`).
The `Report...` actions are the classes of `WORKER_OUTCOME_REPORTED` (and of
`RETRY_REQUESTED`, which shares `_buildRetrySchedule`); `first` tells a first
failure from the report of a retry. `CancelRetry` is `_cancelRetry`. `Faults`
selects what may go wrong: the kernel freezes, the sanity check refuses, a worker
dies without a report, a rate limit, a cancellation from a retry stub. `serial`,
`fired` and `late` are history; `late` counts, per intent, the handlers that took a
half-written object. `RetryChains` is the promise: one chain per intent, whose
retries follow one another and are counted up to the budget, until something else
reports about the intent meanwhile (`mixed`). `StageOf` finds the stage of the chain
in the strands.

`TelemetryCoordination` - the telemetry coordination FSM with what feeds it; it
extends `GlobalLifecycle`, and `global` is the kernel's `_currentState`. `size`
is the length of the Redis list of intents and `invalid` the positions that
`_validateSingleIntent` refuses (`WriteIntent` decides); `local`, `cursor`,
`inFlight`, `attempts`, `trigger`, `queued` are `_localState`,
`_intentCursors.projection`, `_coordinationInFlight`, `_retryAttempts`,
`_coordinationPending` and `_reactiveCoordinationQueued`. `phase`, `from` and
`batch` are the local variables of each execution of `PROCESS_INTENTS`, `awaited`
the events whose dispatch is in its first await, `gates` the retry requests in
their sanity check. `rewinds` and `settled` are history. The handlers:
`ProcessIntents`, `ReadIntents` and `FinishCycle` are a cycle, cut at its awaits;
`Halt`, `Resume`, `RequestRetry` with `GateAnswers`, `ShowRetry`, `WindDown` are
the other entries of `TRANSITION_MAP`; `Refuse` is every early return of
`dispatch`. `Trigger` and `RunTrigger` are the reactive trigger and its
`setImmediate`. `Signal` lets other domains change the global state between two
awaits, `Restart` is the end of the process in any state and the next boot.
Merged or left out: the `rpush` with the hook that follows it; the attempts to
persist the cursor (they fail on a path that does not exist and only take time);
the reading of the FSM's own projection (nobody writes it, so it is only an
await); `stop`, whose effect on the variables is part of `Restart`'s; duplicates within a
batch, which are settled by their twin; the order in which a batch is emitted.
`IntentConsumer` is what the cycles together are to the partition: one reader that
takes what lies after its cursor, settles it once, and then reads again. `Stage` and
`Hand` compute its stage and what it holds from the phases and batches of all cycles,
so it can only be implemented if cycles never overlap.

`PersistTelemetry` - the FSM of all database traffic, with its orchestrator, the
writers and the callers of `governedRead`. `state`, `readsInFlight`, `inFlight` are
`_localState`, `_readsInFlight`, `_inFlight`; `read` and `write` say where each
request is, `oks` and `errs` count the `DB_WRITE_COMPLETE` events on their way
(they carry nothing that the FSM uses to tell them apart), `open` is whether the
global state lets the domain move, `told` what the caller of a read was told.
`AskRead` and `GovernedRead` are the two kinds of caller. `AcceptRead` is the whole
handler: it counts the read, and either hands it out or lets it starve over the
limit. `DropRead` is the orchestrator's early return for a read without an account,
which is what `governedRead` sends for the credential resolver and the hydrators.
`BeginWrite` and `GateWrite` are the two sides of the await in
`DB_WRITE_REQUESTED`. `FinishWrite` adds two completions, because the writer emits
one and the orchestrator reports its result as well; `BedrockEmits` those of workers
that call bedrock directly. A rejected table or a vetoed write returns its
completion as an action that has no subscriber: no completion follows.
`ReadPermits` is what the read side amounts to: a counting semaphore that leaks.

`GraphCapability` - one record per credential: `state`, `evidence`, `stamp`
(`lastObservedAt` against the freshness window), `dated` (`evidence.observedAt`
against the same), `failing` (`consecutiveFailures > 0`), and `call`, the dispatches in
flight, each in its first await. `HandleObserve` merges, asks
the kernel and materialises. The reports of the webhook and quota workers (`Report`)
carry neither a time nor a context: `MergeEvidence` keeps the time of the evidence, and
`Validated` does not ask the kernel; the derived event (`Derived`) then takes the same
slot, as the handler dispatches it itself. `HandleNull` are the events with a null
target, which write `null` into the state; of these `CAPABILITY_CHECK` goes on to
its workers (`WorkerReads`, `CheckSucceeds`, `CheckFails`). `Allowed` is
`requireCapability` for a caller whose scopes are granted. `observed` is history:
whether an observation was merged within the window, whatever the stamp says.
Dispatches about one credential overlap in any way: the vault facades and the token
health worker send an evaluation and an envelope together.

`Scheduling` - the cadence cycle and the metrics log. A *strand* is a chain of
handlers, `pc` says where it is; `Chains` run cycles, `Callers` a flush or a query.
`Tick` is the timer, which does not wait; each step of a cycle is a handler
(`CadenceTick`, `LifecycleRefreshed`, `SafetyCheckComplete`,
`WorkerMetricsReported`) and the fan-back of the orchestrator (`WorkerDone`).
`Refused` is every early return of `dispatch`, `WorkerFails` a denied worker.
`buffer`, `batch`, `written`, `cache` are `_writeBuffer`, the spliced batch of each
flush, the metrics store and `_readCache` (for one query). `MetricLog` is what the
metrics side promises: a write-behind log.

`WebviewStream` - the pump. `length` is the length of the stream, whose entries are
their positions; `cursor` is `_lastStreamId` with 0 for `"$"`, `from` and `upto` the
batch, `pc` the place in `_loop`. `StreamReader` is what the pump promises: entries
taken one by one and answered at most once, with a jump to the end allowed only
before the first is taken.

`MCKernel`, `MCGate`, `MCRetry`, `MCTelemetry`, `MCPersist`, `MCCapability`,
`MCScheduling`, `MCWebview` give the constants values. `..._proofs` hold the
theorems. Operators introduced as *faulty variants* are plausible bugs of the
definition that follows them; nothing in the specifications uses them, and
`PROJECT.json` (`mutants`) says which property each one breaks.

## Runs

| Run | Bounds | What it shows |
|---|---|---|
| `kernel` (MCKernel.cfg) | the five signals that `src/` dispatches, TTLs of 6, 12 and 6 ticks as in `STATE_TTL_MS`, one account, the loop started at any time | `FreezeIsWatched`, `FreezeIsBounded`, `FailedBootNeverServes`, `FreezeEnds`, the refinement `IsRuntimeFreeze` |
| `insights` (MCInsights.cfg) | two accounts | violation of `InsightsFailureIsPending` |
| `gate` (MCGate.cfg) | two domains, three invocations, every shape of event | `GateFollowsWorkers`, `DeliveredIsCanonical`, `StuckIsForever` |
| `retry` (MCRetry.cfg) | two intents, three strands, a budget of 2, one late read per intent, all faults | `OverrunOnlyByLateReads`, `HandleIsLive`, the refinement `IsRetryChains` |
| `retry_ends` (MCRetryEnds.cfg) | one intent, two strands, no faults | `SerialChainEnds` |
| `retry_orphan` (MCRetryOrphan.cfg) | one intent, two strands, no faults | violation of `CancelStopsRetries` |
| `telemetry` (MCTelemetry.cfg) | two intents, two executions of a cycle, one awaited event at a time, one outage or restart, a buffer of 1, escalation at 1 and 2 attempts | `OneCycleAtATime`, `NothingPassedBy`, `CycleEnds`, the refinement `IsIntentConsumer` |
| `telemetry_reactive` (MCTelemetryReactive.cfg) | two intents, nobody but the trigger dispatches anything, no outage | violation of `EveryIntentIsProcessed` |
| `persist` (MCPersist.cfg) | two reads, two writes, limits of 1, two completions awaited | `ReadsAreAccounted`, `WedgeEndsByOverflow`, `StarvationIsForever`, `ReadsSettle`, the refinement `IsLeakySemaphore` |
| `capability` (MCCapability.cfg) | one credential, two calls in flight, seven envelopes of one slot each, three undated reports | `AllowedIsComplete`, `AuthorizedIsObserved` |
| `scheduling` (MCScheduling.cfg) | three cycles, one caller, two metrics | `StuckOnlyByFault`, `CycleRecurs`, the refinement `IsWriteBehind` |
| `webview` (MCWebview.cfg) | five entries, batches of 2, three attempts | `CatchesUp`, the refinement `IsStreamReader` |

Why the bounds are enough. The kernel's model is finite but for ages, and
`AgeCap` lies above the sum of all TTLs, past which ages are not compared. Two
invocations suffice to end out of order; the third shows that the stale context
survives a whole later invocation and lets one nest inside another. Two strands
let two handlers of one intent overlap, and the third lets one be pending or
belong to another intent meanwhile; a budget of 2 is the largest of the domains
that fetch data (`policy.js` has 1 to 3) and has a middle retry. `MaxLate` bounds
the reads of half-written contexts: one per intent takes the count to three with this
budget (`Count(i) <= MaxRetries` is false in this run, the invariant is exact), and a
second, which three strands would allow, adds another one. Strands are
interchangeable, so `retry` uses symmetry (it checks no liveness). The numbers
matter less for the invariants that are also proved for all values.
In `telemetry`, a second execution is what an overlap needs, a second intent lets
a batch exceed the buffer, be refused in part, or be written behind a read, and
one rewind makes a replay possible. The thresholds 3 and 6 become 1 and 2, which
keeps one attempt below, between and above them; the three events that wind a
retry down are handled alike, and one of them is dispatched; drift is the other
domain's cause of a freeze and its all-clear the other way out.

In `persist` the limits 20 and 10 become 1: two requests then stand below, at and
over the limit, the only comparisons the code makes; two reads let one leak and the
other starve, two writes let one complete on the account of the other.
`MaxCompletions` bounds completions on their way; a third would find the counter at
zero as the second does. In `capability` records of different credentials share
nothing, so one is enough; two calls overlap, and each envelope holds one slot, as
the substrates send them; the undated reports are a webhook's (detection) and those of
the quota worker in and out of its lockout (detection, and a scope slot without scopes); the values `weak` and `bad` occur for slots that can bring
each state of the registry but the stale scope cache, which is inferred like weak
detection. In `scheduling` two cycles refuse each other's steps and a third starts
while both are cut; two metrics let one be recorded while the other is flushed. In
`webview` five entries are more than two batches, and three attempts have a first, a
middle and a last one.

No run disables deadlock checking.

## Fairness

- `WF(Tick)` in the kernel: `setInterval` calls the watchdog as long as the
  process lives; the ticks themselves are the passing of time. Nothing is assumed
  of boots, signals or clears, so `FreezeEnds` does not rely on a domain's
  all-clear.
- Retry chains: promises settle (the sanity check has a 5 s timeout), a handler
  past it runs to its end, a worker's requests time out. A timer is strongly fair
  because it fires between two turns of the event loop: the microtasks of a
  handler keep disabling it, but it does not get lost.
- Telemetry: `setImmediate` callbacks run, a dispatch past its await runs on, and
  each await of a cycle returns, because the Redis client answers or fails after
  its retries. Nothing is assumed of writers, requests, signals or restarts.
- Persist telemetry: the database answers or fails (`FinishRead`), and what was
  dispatched is handled (`CompleteRead`, `CompleteWrite`). Nothing is assumed of
  requests or of the global state; `ReadsSettle` is about a runtime that stays open.
- Scheduling: Redis and the workers answer, so each cycle and each flush takes its
  steps, and the timer keeps ticking whenever a strand is free. `CycleRecurs` names
  what may prevent IDLE for ever: halts, or cycles that keep overlapping.
- Webview: the loop goes on, because timers fire and Redis answers or fails.
  Nothing is assumed of Redis, of start and stop or of crashes.
- The gate and graph capability have no liveness property and no fairness.

## What is proved

All for every value of the constants that satisfies the named assumptions.

- `ConstitutionalKernel_proofs`: `TypeCorrect`; `FreezeWatched` from `WatchInv` (the
  runtime leaves BOOTING and HALTED only by completing its boot, which installs
  the watchdog; `FreezeIsWatched` alone is not inductive because it says nothing
  of HEALTHY); `HaltedLockedDown` and `RecoveryEarned` as step properties;
  `FreezeBounded` from `FreezeInv`, which ties the length of the freeze to the age
  of DEGRADED and RECOVERY. `FreezeBounded` assumes `ReentryIsValidated`: each signal
  that DEGRADED accepts again is raised by a domain the freeze blocks. The code
  satisfies it today because RETRY_PRESSURE_DETECTED and SIGNAL_DESYNC_DETECTED have
  no dispatcher; if somebody adds one, the bound is gone, and the theorem says
  where to look.
  `Freezes` is the refinement to `RuntimeFreeze`, for any signals, TTLs and boots, and
  needs no such assumption: `LastInv` says that a freeze has lasted at least as long
  as the age of its state, and in RECOVERY for the TTL of DEGRADED on top (or up to
  `AgeCap`, where the model stops counting), since a re-entry moves the age back and
  never the length. `FailedBootServesNot` rests on
  `WatchInv` and on `LoopedHalt` (a halted runtime has its watchdog installed);
  with `LoopWaitsForBoot`, which is the order of `startAllWorkers`,
  `FailedBootIsUnwatched` says that such a runtime stays in BOOTING unwatched for
  good. `FailuresAreForgotten` is the general form of what the run `insights` refutes:
  nothing is ever stored.
- `CanonicalGate_proofs`: `GateTypeCorrect`; `GateFollows` from `NestInv`: as long as
  invocations nest, the saved contexts form a stack with the current one on top;
  `StuckForever` from `GateIsStuck`: no running invocation holds an empty context to
  restore; `Canonical`, which rests on `GateFollows`' invariant for the events let in
  while invocations nest.
- `RetryCadence_proofs`: `RetryTypeCorrect`; `HandlesLive`;
  `OverrunIsLate` (`OverrunOnlyByLateReads`) from `BudgetInv`: only a count below the
  budget gets past the check, so what a handler took counts less than the budget and
  the late reads, and a half-written context still will when its owner has counted it
  up, because the handler that took it was a late read itself; `ChainAccounted` (`ChainIsAccounted`: in a
  serial chain the stored count is the number of retries started, and of the pending
  one, whose handle the context holds) from `SerialInv`,
  which gives the context of a serial intent at each place of its single strand.
  From the same invariant `SerialCancelStopsRetries`, the promise of `_cancelRetry`
  that the run `retry_orphan` refutes and that holds without overlap, and
  `RetriesInARow`, the refinement to `RetryChains`: a step of a strand moves the
  stage of its own intent only, a report about an intent with an active strand makes
  the chain `mixed`, and `SerialInv` gives the count that `Fail` must find below
  the budget.
- `TelemetryCoordination_proofs`: `TypeCorrect`; `CyclesExclude`, `NoIntentIsPassedBy`,
  `SettlementIsBounded` and `ConsumesInOrder` from `IInv`. `NothingPassedBy` and
  `SettledOncePerRewind` (an intent is settled at most once more than the cursor was
  set back) are not inductive: `CycleOwnsCursor` adds that
  while a cycle reads, the cursor stays where its read began, and that a batch lies
  behind the cursor; `DueIsPaidFor` adds that an intent still ahead of the cursor or in
  a batch has a settlement left. Both rest on `OneCycleAtATime`. `ConsumesInOrder` is the
  refinement to `IntentConsumer`: because one cycle at most is under way, its phase is
  the reader's stage and its batch all the reader holds, and because the cursor did not
  move since the read began, what it takes is everything after the cursor.
- `PersistTelemetry_proofs`: `TypeCorrect`; `Accounted`, which is inductive by itself
  with the cardinality of the set of counted reads; `Busy` (READ_EXECUTING implies that
  something is counted); `Wedge` and `Starvation`
  as step properties, the latter from `Accounted` (the counter is at least the number of
  leaked reads); `Refinement`, step by step to `ReadPermits`. Two consequences of
  `Accounted`: `LimitIsKept`, that the reads in service never exceed the limit, and
  `LostWhenFrozen`, that the guard on the counter never refuses a completion, so
  that a read is lost to a frozen runtime only.
- `GraphCapability_proofs`: `TypeCorrect`; `AllowedComplete` from `Backed`: a state that
  the gate allows, and a derived event on its way to such a state, have complete
  evidence, which no merge takes away; `AuthorizedObserved` from `Witnessed`: the
  account of a derived event on its way was observed within the window, and so was
  that of a capability check on its way that still, or again, is AUTHORIZED, because the check
  itself had set its state to null.
- `Scheduling_proofs`: `TypeCorrect`; `Carried`, inductive by itself; `Refinement` to
  `MetricLog`, for which `TypeOK` (a strand holds a batch exactly while it flushes) and
  `Apart` are needed: no record is in two places, and a query saw stored records only.
  `RecordsKept` and `AnswersStored` are proved of `MetricLog`'s steps (`LogKeeps`) and
  carried over by the refinement.
- `WebviewStream_proofs`: `TypeCorrect` and `Refinement` to `StreamReader` from `IInv`,
  which adds to the types where the pump is in the stream (the cursor is 0 or `from`, the
  entry it is about to decide exists, whoever begins an attempt has one left);
  `ReceiptsInOrder` with `Behind`: no receipt is ahead of the position, and the entry in
  hand has none yet; `OffExplained`: the pump is off only after `stop` or its last attempt.

Some theorems state more than a run checks (`HaltedLockedDown`, `RecoveryEarned`,
`FailedBootIsUnwatched`, `FailuresAreForgotten`, `SerialCancelStopsRetries`,
`ChainAccounted`, `SettlementIsBounded`, `Busy`, `LimitIsKept`, `LostWhenFrozen`,
`RecordsKept`, `AnswersStored`, `ReceiptsInOrder`, `OffExplained`). TLC found
no counterexample to them on these instances; they are not part of a run because a
refinement or a broader property of the same run asks the question.

Model-checked only: `FreezeEnds`, `SerialChainEnds`, `CycleEnds`, `ReadsSettle`,
`CycleRecurs` and `CatchesUp` (liveness under fairness is out of this prover's
reach), and the violations. Every invariant, step property and refinement that a run
checks is also a theorem. The proofs are of the modules as they stand; that the bound
`MaxIntents`, `MaxEntries` or `MaxCompletions` may have any value makes them a matter of
all runs of the program up to any length, not of unbounded lists.

## Where the code and its comments part

Shown by a run:

1. `insights`: an event with a null target returns before `buildActions`
   (constitutional-kernel.js:1507), so an accepted insights failure is never
   stored nor is graph capability asked, against the comment at 864.
2. `retry_orphan`: a replaced timer is not cleared, and a firing timer clears the
   handle of another context (retry-cadence-kernel/fsm.js:1785): a cancelled
   intent retries.
3. `telemetry_reactive`: the event of the reactive trigger is routed to an FSM that
   does not know it (constitutional-kernel.js:419, telemetry-kernel/fsm.js:1197),
   so no intent is processed, against orchastrator.js:441. The global handler that
   would forward it has a null target and would not run if it were reached (1.).

Shown by properties that hold:

- `OverrunOnlyByLateReads` needs its `late`: a handler that takes the context of its
  intent between another's two writes (retry-cadence-kernel/fsm.js:1794 and 1906) counts
  on from the object counted up meanwhile (1905), and stores and starts one retry more
  than `maxRetries`, with the check at 1857 passed. Handlers under the intent null
  overlap in this way; a serial chain does not (`ChainAccounted`).
- Overlapping invocations leave `_currentWorkerContext` set after the last worker
  (constitutional-kernel.js:1452), against the comment "Cleared after the worker
  returns" at 1311; `StuckIsForever` is that it does not heal.
- `ReadsAreAccounted`, `StarvationIsForever`: each `governedRead` without an account
  id takes a permit that never comes back; 20 of them end all reads.
- `WedgeEndsByOverflow`: a read that completes while a write is in flight has the
  completions of writes refused until more than 10 writes are counted.
- `IsStreamReader` needs its `Jump`: entries added while a fresh pump is between two
  XREADs are skipped, against the comment at webview-stream.js:118 ("new entries from
  now on").
- A report refused while the runtime is frozen (retry-cadence-kernel/fsm.js:2137)
  ends its chain with the context in place; `SerialChainEnds` therefore assumes no
  freeze, and 1748 promises more.

Met while reading, not the subject of a run: the TTL of BOOTING is not enforced
after a boot that fails, because the watchdog starts last; DEAD is unreachable
(`_triggerConstitutionalDeath` has no caller) and the watchdog has no case for it;
`_initReconciliationTrigger` at the end of `rehydrate` is unreachable;
`engagementFsm.setGovernance(constitutional)` in `_wire` throws, since the kernel
exports no `invokeWorker`; the content and UGC retry workers that `_wire` requires
do not exist; the engagement and insights retry workers take positional arguments
and die under the gate's single one; a policy with a budget of 0 still allows one
retry; the telemetry cursor is neither persisted nor restored, since
`../../control-plane/config/redis` does not exist, so every restart replays the
whole partition; HALT_TELEMETRY_COORDINATION and RESUME_TELEMETRY_COORDINATION are
not among the internal events and need a lineage id to pass the source gate;
INGRESS_RESOLVED and the retry events lift a halt; an intent is dropped without an
error when Redis is not ready, so the staging path never starts.

In persist telemetry: `governedRead` tests `allowed` on a promise (2284) and resolves
as rejected at once, against "Returns a Promise that resolves with the read result"
(2234), so `resolveAccountCredentials` always throws; its subscriber (2267) is never
removed; READ_RESULT_AVAILABLE is routed to graph capability; a write that
the sanity check refuses is counted so that "the self-completion we emit" can bring
the FSM back (fsm.js:332), and that completion is an action nobody dispatches;
DB_WRITE_FAILED and DB_READ_FAILED do not reach the FSM. In graph capability: the
worker returns `state` and CAPABILITY_CHECK reads `capabilityState` (474), so
publishing is always told UNKNOWN or UNAUTHORIZED; dispatch does not await
`buildActions` and throws on the promise (1360); a null target writes null into the
state, against "no state change" (766); CAPABILITY_EVALUATION_STARTED is dropped,
NEW_ACCOUNT_CONNECTED and TOKEN_REFRESHED are unknown types; DEGRADED and LIMITED
pass the gate without a freshness check; the derived CAPABILITY_DEGRADED is refused,
because its observation has just entered DEGRADED (694), and the kernel is not told,
unless another dispatch about the account overtakes it, as the evaluation sent along
with an envelope (uat-substrate/index.js:91-99, token-health-worker.js:344-345) can. In scheduling: METRICS_FLUSH is dispatched, and
`recordMetric` and `queryMetrics` are called, by tests only; a metric gets the time of its
flush; an answer read before a flush may be cached after it. In the webview membrane:
after its last attempt the pump is not restarted by anybody and announces
STREAM_PUMP_UP behind STREAM_PUMP_DOWN; those events are unknown to the kernel;
`start` right after `stop` is lost. Reconciliation: `_reconInProgress` (1740) is not
declared, and nothing in `src/` triggers a cycle. Lineage: the writers read
`ledgerId` where the ledger returns `id`. Acquisition: START_INTENT_DISCOVERY is never emitted, and
PERSIST_STAGED_EVENT is refused.

The model is of the kernel and the FSMs as their own code defines them; it takes the
wiring as complete, which is what the tests install.

## Not modelled, and abstractions

- Membrane authority and payloads in `validateDomainTransition`: the vetoes that
  depend on the global state are what the properties are about.
- `_triggerConstitutionalDeath` and its reboot from a checkpoint (no caller).
- In `CanonicalGate`: what an FSM does with an event it gets.
- In `RetryCadence`: delays (timers fire in any order), the circuit breakers,
  authentication strikes, deferred queue, insights poll cadence and the database
  failure events. The breaker check before a retry is asked of an asynchronous FSM
  and its promise never blocks, so it has no effect on the chains.
  `RETRY_CADENCE_REQUEST` and `RETRY_CADENCE_CLEAR` are routed to the global map,
  where their target is null, and never reach the engagement FSM.
- In `TelemetryCoordination`: `PROJECTION_PERSISTED` (it keeps the state and calls
  the ledger, and no writer dispatches it), the handler of writer health, which the
  kernel never routes to the FSM, the partition of write failures, counters and the
  rejection log. `RETRY_CADENCE_REQUEST`, `RETRY_CADENCE_CLEAR` and
  `INGRESS_STATE_CHANGED`, which its handlers dispatch, are recorded events of the
  kernel and change none of the variables.
- In `PersistTelemetry`: which tables and read domains are whitelisted (a refusal may
  happen to any request), the parameters kept for a retry, idempotency keys, the
  timeout of `governedRead`, which its immediate answer cancels.
- In `GraphCapability`: API_RATE_LIMIT_CHECK, BOOTSTRAP and the hourly cadence, the
  maps of pending reads and writes, the refresh decision, ingress events that pass
  through. The count of failures is kept as zero or not, all that is reported of it.
  Ages are in or out of the window; a dispatch takes milliseconds, so the window of a
  credential does not end while one about it is in flight.
- In `Scheduling`: the contents of windows and their expiry, account sets (whether
  there are accounts is a choice), CADENCE_LOOP_ and CYCLE_ events, WORKER_RESULT.
- In `WebviewStream`: the verdict (a function of the entry alone), the probe, counters,
  the decision TIMEOUT, which a synchronous probe cannot reach, and the lengths of the
  waits.
- Reconciliation, the lineage ledger with the transition writers, and acquisition have
  no behaviour to model as long as their entry points are unreachable; see above.
  Dedup and the substrates under `src/substrates` remain.
- Publishing's own states. The answer to its reads, READ_RESULT_AVAILABLE, is routed to
  graph capability (constitutional-kernel.js:340), so the only way from FETCHING to
  EXECUTING (publishing-kernel/fsm.js:174) is never taken, and all other handlers
  require EXECUTING: the FSM goes from IDLE to FETCHING once, and a model of its
  timeouts against late results would check behaviour the program does not have.
- The components listed as `not_modelled` in `PROJECT.json`, with reasons.

## Plan

In order of importance, with the abstract specification or property to aim at:

1. `Publishing`, once its read results reach it: one module state for all accounts, its
   timeouts against late results, composed with the capability check of
   `GraphCapability`. Abstract: at most one publication in flight, applied at most once.
2. `GraphCapability` composed with `ConstitutionalKernel`, so that the
   degradations of which the kernel is or is not told, according to which of two dispatches
   comes first (fsm.js:694), are followed up on the other side.
3. `RetryCadence` extended with breakers, strikes and the deferred queue, once the
   events they wait for are dispatched.
4. `RuntimeFreeze` in place of the `open` and `halted` flags that `PersistTelemetry`,
   `GraphCapability`, `Scheduling` and `RetryCadence` leave arbitrary; the worker window
   as the abstraction of `CanonicalGate` while invocations nest.
5. Reconciliation, lineage and acquisition when they are reachable.

Done so far: `ConstitutionalKernel`, `CanonicalGate`, `RetryCadence`,
`TelemetryCoordination`, `PersistTelemetry`, `GraphCapability`, `Scheduling`,
`WebviewStream`, and the refinements to `RuntimeFreeze`,
`IntentConsumer`, `RetryChains`, `ReadPermits`, `MetricLog` and `StreamReader`.
Runs are kept to one per question, and a run that a broader one has made redundant is
given up for the next module.
