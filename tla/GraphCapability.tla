--------------------------- MODULE GraphCapability ---------------------------
(***************************************************************************)
(* The graph-capability FSM: one record per credential, made from partial  *)
(* observations, and the gate requireCapability that every use of the      *)
(* Graph API passes.                                                       *)
(*                                                                         *)
(* Every dispatch awaits the projection before it reads the record, so the *)
(* calls in flight are handled in any order.  An observation is merged     *)
(* into the evidence before the kernel is asked; the state inferred from   *)
(* the merged evidence is materialised and then announced by a second,     *)
(* derived dispatch that materialises it again.  Events with a null target *)
(* write null into the state, the comment "no state change"                *)
(* notwithstanding.  Workers that call the FSM themselves pass no context, *)
(* so the kernel is not asked, and do not date what they observe.          *)
(***************************************************************************)
CONSTANTS
    Creds,      \* business accounts
    Calls,      \* dispatches in flight at a time
    Envelopes,  \* what the substrates observe: slots not observed are "none"
    Undated     \* what workers report without the time of the observation

Slots == {"pat", "uat", "detection", "scope"}

(* bad: not decryptable, or not valid.  weak: reliability impaired, or     *)
(* required scopes missing.  stale: a scope cache older than 12 hours.     *)
Observed == {"none", "good", "bad", "weak", "stale"}

ASSUME CapabilityAssumption == Envelopes \cup Undated \subseteq [Slots -> Observed]

VARIABLES
    state,      \* cred.state
    evidence,   \* cred.evidence: its slots
    dated,      \* and its observedAt: never, or within or before the window
    stamp,      \* lastObservedAt: never, or within or before the freshness window
    observed,   \* an observation was merged within the freshness window
    failing,    \* consecutiveFailures > 0
    call,       \* the dispatches in flight
    open        \* the global state lets the domain move

vars == <<state, evidence, dated, stamp, observed, failing, call, open>>

Pending == {"PAT_PENDING", "UAT_PENDING", "DETECTION_PENDING", "SCOPE_PENDING"}
States == {"AUTHORIZED", "LIMITED", "UNAUTHORIZED", "DEGRADED", "UNKNOWN"} \cup Pending

Derived == {"ok", "partial", "failed", "degraded"}
NullEvents == {"completed", "data", "check"}
Checks == {"checking", "checkedClean", "checkedFailing"}
Types == Derived \cup NullEvents \cup Checks \cup {"evaluate"}

(* ctx: does the dispatch come with a context, through which to validate.  *)
NoCall == [type |-> "idle"]
CallRecords ==
    [type : {"observe"}, cred : Creds, ctx : BOOLEAN, env : Envelopes \cup Undated]
        \cup [type : Types, cred : Creds, ctx : BOOLEAN]

-----------------------------------------------------------------------------
(* mergeEnvelope: a slot that was not observed keeps its evidence.         *)
Merge(old, new) == [s \in Slots |-> IF new[s] = "none" THEN old[s] ELSE new[s]]

Complete(e) == \A s \in Slots : e[s] # "none"

(* A faulty variant of Infer: impairment is looked at before what is       *)
(* missing.                                                                *)
InferImpairedFirst(e) ==
    IF \E s \in Slots : e[s] = "bad" THEN "UNAUTHORIZED"
    ELSE IF e["detection"] = "weak" THEN "DEGRADED"
    ELSE IF \A s \in Slots : e[s] = "none" THEN "UNKNOWN"
    ELSE IF e["pat"] = "none" THEN "PAT_PENDING"
    ELSE IF e["uat"] = "none" THEN "UAT_PENDING"
    ELSE IF e["detection"] = "none" THEN "DETECTION_PENDING"
    ELSE IF e["scope"] = "none" THEN "SCOPE_PENDING"
    ELSE IF e["scope"] = "weak" THEN "LIMITED"
    ELSE "AUTHORIZED"

(* inferStateFromEnvelope: failure first, then what is missing, in order,  *)
(* then what is impaired.                                                  *)
Infer(e) ==
    IF \E s \in Slots : e[s] = "bad" THEN "UNAUTHORIZED"
    ELSE IF \A s \in Slots : e[s] = "none" THEN "UNKNOWN"
    ELSE IF e["pat"] = "none" THEN "PAT_PENDING"
    ELSE IF e["uat"] = "none" THEN "UAT_PENDING"
    ELSE IF e["detection"] = "none" THEN "DETECTION_PENDING"
    ELSE IF e["scope"] = "none" THEN "SCOPE_PENDING"
    ELSE IF e["detection"] = "weak" \/ e["scope"] = "stale" THEN "DEGRADED"
    ELSE IF e["scope"] = "weak" THEN "LIMITED"
    ELSE "AUTHORIZED"

(* _stateToEventType                                                       *)
DerivedEvent(s) ==
    IF s = "AUTHORIZED" THEN "ok"
    ELSE IF s = "LIMITED" THEN "partial"
    ELSE IF s = "UNAUTHORIZED" THEN "failed"
    ELSE IF s = "DEGRADED" THEN "degraded"
    ELSE "none"

Target(t) ==
    IF t = "ok" THEN "AUTHORIZED"
    ELSE IF t = "partial" THEN "LIMITED"
    ELSE IF t = "failed" THEN "UNAUTHORIZED"
    ELSE "DEGRADED"

(* Only a change of state counts.                                          *)
FailingAfter(c, s) ==
    IF s = state[c] THEN failing[c]
    ELSE IF s = "UNAUTHORIZED" THEN TRUE
    ELSE IF s = "AUTHORIZED" THEN FALSE
    ELSE failing[c]

(* requireCapability, for a caller that asks for some of the scopes that   *)
(* are granted: full authorisation must be fresh, a limited one must have  *)
(* all required scopes in evidence, a degraded one need be neither.        *)
Allowed(c) ==
    \/ state[c] = "AUTHORIZED" /\ stamp[c] = "fresh" /\ evidence[c]["scope"] # "none"
    \/ state[c] = "LIMITED" /\ evidence[c]["scope"] # "weak"
    \/ state[c] = "DEGRADED" /\ evidence[c]["scope"] # "none"

Init ==
    /\ state = [c \in Creds |-> "UNKNOWN"]
    /\ evidence = [c \in Creds |-> [s \in Slots |-> "none"]]
    /\ dated = [c \in Creds |-> "never"]
    /\ stamp = [c \in Creds |-> "never"]
    /\ observed = [c \in Creds |-> FALSE]
    /\ failing = [c \in Creds |-> FALSE]
    /\ call = [d \in Calls |-> NoCall]
    /\ open = TRUE

-----------------------------------------------------------------------------
Submit(d, record) ==
    /\ call[d] = NoCall
    /\ call' = [call EXCEPT ![d] = record]
    /\ UNCHANGED <<state, evidence, dated, stamp, observed, failing, open>>

(* emitEnvelope and the membranes' own observations.                       *)
Observe(d, c, e) == Submit(d, [type |-> "observe", cred |-> c, ctx |-> TRUE, env |-> e])

(* The webhook and the quota worker dispatch envelopes without observedAt  *)
(* and without a context.                                                  *)
Report(d, c, e) == Submit(d, [type |-> "observe", cred |-> c, ctx |-> FALSE, env |-> e])

(* emitEvaluate, after each successful vault call.                         *)
Evaluate(d, c) == Submit(d, [type |-> "evaluate", cred |-> c, ctx |-> TRUE])

(* The health worker reports a finished check, without a context.          *)
CompleteHealthCheck(d, c) == Submit(d, [type |-> "completed", cred |-> c, ctx |-> FALSE])

(* The scope substrate asks for its cache.                                 *)
RequestData(d, c) == Submit(d, [type |-> "data", cred |-> c, ctx |-> TRUE])

(* Publishing asks after a timeout.                                        *)
AskCheck(d, c) == Submit(d, [type |-> "check", cred |-> c, ctx |-> TRUE])

(* The global state enters or leaves DEGRADED, RECOVERY, HALTED or DEAD.   *)
Flip ==
    /\ open' = ~open
    /\ UNCHANGED <<state, evidence, dated, stamp, observed, failing, call>>

Aged(time) == IF time = "fresh" THEN "stale" ELSE time

(* The freshness window of a credential passes; a dispatch takes           *)
(* milliseconds, so none that concerns it is in flight all that time.      *)
Age(c) ==
    /\ {d \in Calls : call[d] # NoCall /\ call[d].cred = c} = {}
    /\ stamp[c] = "fresh" \/ observed[c]
    /\ stamp' = [stamp EXCEPT ![c] = Aged(@)]
    /\ dated' = [dated EXCEPT ![c] = Aged(@)]
    /\ observed' = [observed EXCEPT ![c] = FALSE]
    /\ UNCHANGED <<state, evidence, failing, call, open>>

Ended(d) == call' = [call EXCEPT ![d] = NoCall]

Materialise(c, s) ==
    /\ state' = [state EXCEPT ![c] = s]
    /\ failing' = [failing EXCEPT ![c] = FailingAfter(c, s)]

(* ctx.validate, where there is a ctx.                                     *)
Validated(d) == call[d].ctx => open

(* _mergeAndInfer: an envelope that says no time keeps that of the         *)
(* evidence, and the record is stamped with it; with the present time only *)
(* if there is none.                                                       *)
MergeEvidence(d, c, merged) ==
    LET time == IF call[d].ctx THEN "fresh" ELSE dated[c]
    IN  /\ evidence' = [evidence EXCEPT ![c] = merged]
        /\ dated' = [dated EXCEPT ![c] = time]
        /\ stamp' = [stamp EXCEPT ![c] = IF time = "never" THEN "fresh" ELSE time]
        /\ observed' = [observed EXCEPT ![c] = TRUE]

(* A faulty variant of HandleObserve: a pending state derives an event too.*)
HandleObserveAlways(d) ==
    /\ call[d] # NoCall /\ call[d].type = "observe"
    /\ LET c == call[d].cred
           merged == Merge(evidence[c], call[d].env)
       IN  /\ MergeEvidence(d, c, merged)
           /\ IF Validated(d)
              THEN /\ Materialise(c, Infer(merged))
                   /\ call' = [call EXCEPT ![d] =
                          [type |-> DerivedEvent(Infer(merged)), cred |-> c, ctx |-> @.ctx]]
              ELSE Ended(d) /\ UNCHANGED <<state, failing>>
    /\ UNCHANGED open

(* CAPABILITY_OBSERVATION: merged whatever the kernel says; the derived    *)
(* event is dispatched from within the handler, with the same context.     *)
HandleObserve(d) ==
    /\ call[d] # NoCall /\ call[d].type = "observe"
    /\ LET c == call[d].cred
           merged == Merge(evidence[c], call[d].env)
           event == DerivedEvent(Infer(merged))
       IN  /\ MergeEvidence(d, c, merged)
           /\ IF Validated(d)
              THEN /\ Materialise(c, Infer(merged))
                   /\ IF event = "none" THEN Ended(d)
                      ELSE call' = [call EXCEPT ![d] =
                                       [type |-> event, cred |-> c, ctx |-> @.ctx]]
              ELSE Ended(d) /\ UNCHANGED <<state, failing>>
    /\ UNCHANGED open

(* The guards of CAPABILITY_OK, _PARTIAL, _FAILED and _DEGRADED.           *)
Guard(t, c) ==
    /\ t \in {"ok", "partial"} => stamp[c] = "fresh"
    /\ t = "degraded" => state[c] # "DEGRADED"

HandleDerived(d) ==
    /\ call[d] # NoCall /\ call[d].type \in Derived
    /\ LET c == call[d].cred
       IN  IF Validated(d) /\ Guard(call[d].type, c)
           THEN Materialise(c, Target(call[d].type))
           ELSE UNCHANGED <<state, failing>>
    /\ Ended(d)
    /\ UNCHANGED <<evidence, dated, stamp, observed, open>>

(* CAPABILITY_EVALUATE: its CAPABILITY_EVALUATION_STARTED goes back to the *)
(* substrate, which drops it; no evaluation follows.                       *)
HandleEvaluate(d) ==
    /\ call[d] # NoCall /\ call[d].type = "evaluate"
    /\ IF Validated(d) THEN Materialise(call[d].cred, "UNKNOWN") ELSE UNCHANGED <<state, failing>>
    /\ Ended(d)
    /\ UNCHANGED <<evidence, dated, stamp, observed, open>>

(* A faulty variant of HandleNull: "no state change", as the comment says, *)
(* with CAPABILITY_CHECK still stamping the record.                        *)
HandleNullKeeping(d) ==
    /\ call[d] # NoCall /\ call[d].type \in NullEvents
    /\ IF call[d].type = "check" /\ Validated(d)
       THEN call' = [call EXCEPT ![d].type = "checking"]
       ELSE Ended(d)
    /\ UNCHANGED <<state, evidence, dated, stamp, observed, failing, open>>

(* An event with a null target.  The body of CAPABILITY_CHECK runs on      *)
(* after dispatch has failed on the promise it returns.                    *)
HandleNull(d) ==
    /\ call[d] # NoCall /\ call[d].type \in NullEvents
    /\ LET c == call[d].cred IN
       IF Validated(d)
       THEN /\ state' = [state EXCEPT ![c] = "null"]
            /\ IF call[d].type = "check"
               THEN call' = [call EXCEPT ![d].type = "checking"]
               ELSE Ended(d)
       ELSE Ended(d) /\ UNCHANGED state
    /\ UNCHANGED <<evidence, dated, stamp, observed, failing, open>>

(* The credential worker reads the count.                                  *)
WorkerReads(d) ==
    /\ call[d] # NoCall /\ call[d].type = "checking"
    /\ call' = [call EXCEPT ![d].type =
                    IF failing[call[d].cred] THEN "checkedFailing" ELSE "checkedClean"]
    /\ UNCHANGED <<state, evidence, dated, stamp, observed, failing, open>>

(* Both workers answered: the record is stamped as if it had been observed *)
(* and the count that was read is written back.                            *)
CheckSucceeds(d) ==
    /\ call[d] # NoCall /\ call[d].type \in {"checkedClean", "checkedFailing"}
    /\ stamp' = [stamp EXCEPT ![call[d].cred] = "fresh"]
    /\ failing' = [failing EXCEPT ![call[d].cred] = call[d].type = "checkedFailing"]
    /\ Ended(d)
    /\ UNCHANGED <<state, evidence, dated, observed, open>>

(* One of the workers was refused or failed; the other's result is lost.   *)
CheckFails(d) ==
    /\ call[d] # NoCall /\ call[d].type \in Checks
    /\ failing' = [failing EXCEPT ![call[d].cred] = TRUE]
    /\ Ended(d)
    /\ UNCHANGED <<state, evidence, dated, stamp, observed, open>>

Handle(d) ==
    \/ HandleObserve(d) \/ HandleDerived(d) \/ HandleEvaluate(d) \/ HandleNull(d)
    \/ WorkerReads(d) \/ CheckSucceeds(d) \/ CheckFails(d)

Next ==
    \/ \E d \in Calls, c \in Creds :
          \/ \E e \in Envelopes : Observe(d, c, e)
          \/ \E e \in Undated : Report(d, c, e)
          \/ Evaluate(d, c) \/ CompleteHealthCheck(d, c) \/ RequestData(d, c)
          \/ AskCheck(d, c)
    \/ \E d \in Calls : Handle(d)
    \/ \E c \in Creds : Age(c)
    \/ Flip

Spec == Init /\ [][Next]_vars

-----------------------------------------------------------------------------
(* Every variable has its type; null is a state.                           *)
TypeOK ==
    /\ state \in [Creds -> States \cup {"null"}]
    /\ evidence \in [Creds -> [Slots -> Observed]]
    /\ dated \in [Creds -> {"never", "fresh", "stale"}]
    /\ stamp \in [Creds -> {"never", "fresh", "stale"}]
    /\ observed \in [Creds -> BOOLEAN]
    /\ failing \in [Creds -> BOOLEAN]
    /\ call \in [Calls -> {NoCall} \cup CallRecords]
    /\ open \in BOOLEAN

(* However calls overtake each other, the Graph API is never used for an   *)
(* account of which a slot has never been observed.                        *)
AllowedIsComplete == \A c \in Creds : Allowed(c) => Complete(evidence[c])

(* An account in state AUTHORIZED that passes the freshness gate was       *)
(* observed within the window, dated or not, although CAPABILITY_CHECK     *)
(* stamps the record without an observation, and an undated observation    *)
(* with the time of an older one.                                          *)
AuthorizedIsObserved ==
    \A c \in Creds :
        state[c] = "AUTHORIZED" /\ stamp[c] = "fresh" => observed[c]
=============================================================================
