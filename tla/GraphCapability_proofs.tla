------------------------ MODULE GraphCapability_proofs ------------------------
(***************************************************************************)
(* What holds of the capability FSM for any accounts, any number of calls  *)
(* in flight and any observations.                                         *)
(***************************************************************************)
EXTENDS GraphCapability, TLAPS

(* Merging envelopes yields evidence, and never empties a slot.            *)
LEMMA MergeType ==
    ASSUME NEW old \in [Slots -> Observed], NEW new \in [Slots -> Observed]
    PROVE  /\ Merge(old, new) \in [Slots -> Observed]
           /\ Complete(old) => Complete(Merge(old, new))
BY DEF Merge, Slots, Observed, Complete

(* What is inferred is a state, and one that may be allowed only from      *)
(* complete evidence.                                                      *)
LEMMA InferType ==
    ASSUME NEW e \in [Slots -> Observed]
    PROVE  /\ Infer(e) \in States
           /\ Infer(e) \in {"AUTHORIZED", "LIMITED", "DEGRADED"} => Complete(e)
BY DEF Infer, States, Pending, Slots, Observed, Complete

LEMMA EventType ==
    ASSUME NEW s
    PROVE  /\ DerivedEvent(s) \in Derived \cup {"none"}
           /\ DerivedEvent(s) \in {"ok", "partial", "degraded"} =>
                 s \in {"AUTHORIZED", "LIMITED", "DEGRADED"}
BY DEF DerivedEvent, Derived

LEMMA TargetType == \A t : Target(t) \in States
BY DEF Target, States

(* A call in flight concerns an account.                                   *)
LEMMA CallType ==
    ASSUME TypeOK, NEW d \in Calls, call[d] # NoCall
    PROVE  /\ call[d].cred \in Creds
           /\ call[d].type \in Types \cup {"observe"}
           /\ call[d].type = "observe" => call[d].env \in [Slots -> Observed]
           /\ call[d].ctx \in BOOLEAN
<1> DEFINE O == [type : {"observe"}, cred : Creds, ctx : BOOLEAN, env : Envelopes \cup Undated]
           R == [type : Types, cred : Creds, ctx : BOOLEAN]
<1>1. call[d] \in O \/ call[d] \in R
  BY DEF TypeOK, CallRecords
<1>2. ~("observe" \in Types)
  BY DEF Types, Derived, NullEvents, Checks
<1>3. CASE call[d] \in O
  BY <1>3, CapabilityAssumption
<1>4. CASE call[d] \in R
  BY <1>4, <1>2
<1> QED BY <1>1, <1>3, <1>4

LEMMA TypeInit == Init => TypeOK
BY DEF Init, TypeOK, States, Observed

LEMMA EvaluateStep ==
    ASSUME TypeOK, NEW d \in Calls, HandleEvaluate(d)
    PROVE  TypeOK'
<1>1. call[d].cred \in Creds
  BY CallType DEF HandleEvaluate
<1>2. state' \in [Creds -> States \cup {"null"}] /\ failing' \in [Creds -> BOOLEAN]
  BY <1>1 DEF HandleEvaluate, TypeOK, Materialise, FailingAfter, States
<1>3. call' \in [Calls -> {NoCall} \cup CallRecords]
  BY DEF HandleEvaluate, TypeOK, Ended
<1> QED BY <1>2, <1>3 DEF HandleEvaluate, TypeOK

LEMMA ObserveStep ==
    ASSUME TypeOK, NEW d \in Calls, HandleObserve(d)
    PROVE  TypeOK'
<1> DEFINE c == call[d].cred
           merged == Merge(evidence[c], call[d].env)
           event == DerivedEvent(Infer(merged))
<1>1. c \in Creds /\ call[d].env \in [Slots -> Observed]
  BY CallType DEF HandleObserve
<1>2. evidence[c] \in [Slots -> Observed]
  BY <1>1 DEF TypeOK
<1>3. merged \in [Slots -> Observed]
  BY <1>1, <1>2, MergeType
<1>4. Infer(merged) \in States /\ event \in Derived \cup {"none"}
  BY <1>3, InferType, EventType
<1>5. /\ evidence' \in [Creds -> [Slots -> Observed]]
      /\ stamp' \in [Creds -> {"never", "fresh", "stale"}]
      /\ dated' \in [Creds -> {"never", "fresh", "stale"}]
      /\ observed' \in [Creds -> BOOLEAN]
      /\ open' \in BOOLEAN
  BY <1>1, <1>3 DEF HandleObserve, MergeEvidence, TypeOK
<1>6. CASE Validated(d)
  <2>1. state' = [state EXCEPT ![c] = Infer(merged)]
        /\ failing' = [failing EXCEPT ![c] = FailingAfter(c, Infer(merged))]
    BY <1>6 DEF HandleObserve, Materialise
  <2>2. FailingAfter(c, Infer(merged)) \in BOOLEAN
    BY <1>1 DEF FailingAfter, TypeOK
  <2>3. state' \in [Creds -> States \cup {"null"}] /\ failing' \in [Creds -> BOOLEAN]
    BY <2>1, <2>2, <1>1, <1>4 DEF TypeOK
  <2>4. call' = [call EXCEPT ![d] = NoCall]
        \/ (event # "none" /\ call' = [call EXCEPT ![d] = [type |-> event, cred |-> c, ctx |-> call[d].ctx]])
    BY <1>6 DEF HandleObserve, Ended
  <2>5. event # "none" => [type |-> event, cred |-> c, ctx |-> call[d].ctx] \in CallRecords
    BY <1>1, <1>4, CallType DEF HandleObserve, CallRecords, Types
  <2>6. call' \in [Calls -> {NoCall} \cup CallRecords]
    BY <2>4, <2>5 DEF TypeOK
  <2> QED BY <2>3, <2>6, <1>5 DEF TypeOK
<1>7. CASE ~Validated(d)
  BY <1>5, <1>7 DEF HandleObserve, TypeOK, Ended
<1> QED BY <1>6, <1>7

LEMMA DerivedStep ==
    ASSUME TypeOK, NEW d \in Calls, HandleDerived(d)
    PROVE  TypeOK'
<1>1. call[d].cred \in Creds
  BY CallType DEF HandleDerived
<1>2. Target(call[d].type) \in States
  BY TargetType
<1>3. FailingAfter(call[d].cred, Target(call[d].type)) \in BOOLEAN
  BY <1>1 DEF FailingAfter, TypeOK
<1>4. state' \in [Creds -> States \cup {"null"}] /\ failing' \in [Creds -> BOOLEAN]
  BY <1>1, <1>2, <1>3 DEF HandleDerived, TypeOK, Materialise
<1>5. call' \in [Calls -> {NoCall} \cup CallRecords]
  BY DEF HandleDerived, TypeOK, Ended
<1> QED BY <1>4, <1>5 DEF HandleDerived, TypeOK

(* A call that is not an observation stays a call when its type changes.   *)
LEMMA RetypeCall ==
    ASSUME TypeOK, NEW d \in Calls, call[d] # NoCall, call[d].type # "observe", NEW t \in Types
    PROVE  /\ [call[d] EXCEPT !.type = t] \in CallRecords
           /\ [call[d] EXCEPT !.type = t].type = t
           /\ [call[d] EXCEPT !.type = t].cred = call[d].cred
<1>1. call[d] \in [type : Types, cred : Creds, ctx : BOOLEAN]
  BY DEF TypeOK, CallRecords
<1> QED BY <1>1 DEF CallRecords

LEMMA NullStep ==
    ASSUME TypeOK, NEW d \in Calls, HandleNull(d)
    PROVE  TypeOK'
<1>1. call[d].cred \in Creds
  BY CallType DEF HandleNull
<1>2. call[d].type = "check" => [call[d] EXCEPT !.type = "checking"] \in CallRecords
  BY RetypeCall DEF HandleNull, NullEvents, Types, Checks
<1>3. state' \in [Creds -> States \cup {"null"}]
  BY <1>1 DEF HandleNull, TypeOK
<1>4. call' \in [Calls -> {NoCall} \cup CallRecords]
  BY <1>2 DEF HandleNull, TypeOK, Ended
<1> QED BY <1>3, <1>4 DEF HandleNull, TypeOK

LEMMA CheckStep ==
    ASSUME TypeOK, NEW d \in Calls, WorkerReads(d) \/ CheckSucceeds(d) \/ CheckFails(d)
    PROVE  TypeOK'
<1>1. call[d] # NoCall
  BY DEF WorkerReads, CheckSucceeds, CheckFails
<1>2. call[d].cred \in Creds
  BY <1>1, CallType
<1>3. CASE WorkerReads(d)
  <2>1. \A t \in Checks : [call[d] EXCEPT !.type = t] \in CallRecords
    BY <1>1, <1>3, RetypeCall DEF WorkerReads, Types
  <2>2. call' \in [Calls -> {NoCall} \cup CallRecords]
    BY <1>3, <2>1 DEF WorkerReads, TypeOK, Checks
  <2> QED BY <1>3, <2>2 DEF WorkerReads, TypeOK
<1>4. CASE CheckSucceeds(d)
  BY <1>4, <1>2 DEF CheckSucceeds, TypeOK, Ended
<1>5. CASE CheckFails(d)
  BY <1>5, <1>2 DEF CheckFails, TypeOK, Ended
<1> QED BY <1>3, <1>4, <1>5

LEMMA SubmitStep ==
    ASSUME TypeOK, NEW d \in Calls, NEW c \in Creds,
           \/ (\E e \in Envelopes : Observe(d, c, e)) \/ (\E e \in Undated : Report(d, c, e))
           \/ Evaluate(d, c) \/ CompleteHealthCheck(d, c) \/ RequestData(d, c) \/ AskCheck(d, c)
    PROVE  TypeOK'
<1>1. \E r \in CallRecords : Submit(d, r)
  BY DEF Observe, Report, Evaluate, CompleteHealthCheck, RequestData, AskCheck,
         CallRecords, Types, NullEvents
<1> QED BY <1>1 DEF Submit, TypeOK

LEMMA TypeNext == TypeOK /\ [Next]_vars => TypeOK'
<1> SUFFICES ASSUME TypeOK, [Next]_vars PROVE TypeOK'
  OBVIOUS
<1>1. CASE UNCHANGED vars
  BY <1>1 DEF vars, TypeOK
<1>2. CASE \E d \in Calls, c \in Creds :
               \/ \E e \in Envelopes : Observe(d, c, e)
               \/ \E e \in Undated : Report(d, c, e)
               \/ Evaluate(d, c) \/ CompleteHealthCheck(d, c) \/ RequestData(d, c)
               \/ AskCheck(d, c)
  BY <1>2, SubmitStep
<1>3. CASE \E d \in Calls : Handle(d)
  BY <1>3, ObserveStep, DerivedStep, EvaluateStep, NullStep, CheckStep DEF Handle
<1>4. CASE \E c \in Creds : Age(c)
  BY <1>4 DEF Age, Aged, TypeOK
<1>5. CASE Flip
  BY <1>5 DEF Flip, TypeOK
<1> QED BY <1>1, <1>2, <1>3, <1>4, <1>5 DEF Next

(* The variables of the FSM keep their types.                              *)
THEOREM TypeCorrect == Spec => []TypeOK
BY TypeInit, TypeNext, PTL DEF Spec

-----------------------------------------------------------------------------
(* A verdict that may be allowed rests on complete evidence, and so does   *)
(* one that a derived event is about to repeat: evidence never shrinks.    *)
Backed ==
    /\ \A c \in Creds : state[c] \in {"AUTHORIZED", "LIMITED", "DEGRADED"} => Complete(evidence[c])
    /\ \A d \in Calls : call[d] # NoCall /\ call[d].type \in {"ok", "partial", "degraded"}
                          => Complete(evidence[call[d].cred])

LEMMA BackedInit == Init => Backed
BY DEF Init, Backed

LEMMA BackedObserve ==
    ASSUME TypeOK, Backed, NEW d \in Calls, HandleObserve(d)
    PROVE  Backed'
<1> DEFINE c == call[d].cred
           merged == Merge(evidence[c], call[d].env)
           event == DerivedEvent(Infer(merged))
<1>1. c \in Creds /\ call[d].env \in [Slots -> Observed]
  BY CallType DEF HandleObserve
<1>2. evidence[c] \in [Slots -> Observed]
  BY <1>1 DEF TypeOK
<1>3. /\ merged \in [Slots -> Observed]
      /\ Complete(evidence[c]) => Complete(merged)
  BY <1>1, <1>2, MergeType
<1>4. /\ Infer(merged) \in {"AUTHORIZED", "LIMITED", "DEGRADED"} => Complete(merged)
      /\ event \in {"ok", "partial", "degraded"} => Complete(merged)
  BY <1>3, InferType, EventType
<1>5. evidence' = [evidence EXCEPT ![c] = merged]
  BY DEF HandleObserve, MergeEvidence
<1>6. \A a \in Creds : Complete(evidence[a]) => Complete(evidence'[a])
  BY <1>1, <1>3, <1>5 DEF TypeOK
<1>7. evidence'[c] = merged
  BY <1>1, <1>5 DEF TypeOK
<1>8. ASSUME NEW a \in Creds, state'[a] \in {"AUTHORIZED", "LIMITED", "DEGRADED"}
      PROVE  Complete(evidence'[a])
  <2>1. CASE a = c /\ Validated(d)
    <3>1. state'[c] = Infer(merged)
      BY <2>1, <1>1 DEF HandleObserve, Materialise, TypeOK
    <3> QED BY <3>1, <2>1, <1>4, <1>7, <1>8
  <2>2. CASE a # c \/ ~Validated(d)
    <3>1. state'[a] = state[a]
      BY <2>2, <1>1 DEF HandleObserve, Materialise, TypeOK
    <3> QED BY <3>1, <1>6, <1>8 DEF Backed
  <2> QED BY <2>1, <2>2
<1>9. ASSUME NEW f \in Calls, call'[f] # NoCall, call'[f].type \in {"ok", "partial", "degraded"}
      PROVE  Complete(evidence'[call'[f].cred])
  <2>1. CASE f # d
    <3>1. call'[f] = call[f]
      BY <2>1 DEF HandleObserve, Ended, TypeOK
    <3>2. call[f].cred \in Creds
      BY <3>1, <1>9, CallType
    <3> QED BY <3>1, <3>2, <1>6, <1>9 DEF Backed
  <2>2. CASE f = d
    <3>1. call'[d] = NoCall \/ call'[d] = [type |-> event, cred |-> c, ctx |-> call[d].ctx]
      BY DEF HandleObserve, Ended, TypeOK
    <3>2. call'[d].type = event /\ call'[d].cred = c
      BY <3>1, <2>2, <1>9
    <3> QED BY <3>2, <2>2, <1>4, <1>7, <1>9
  <2> QED BY <2>1, <2>2
<1> QED BY <1>8, <1>9 DEF Backed

LEMMA BackedDerived ==
    ASSUME TypeOK, Backed, NEW d \in Calls, HandleDerived(d)
    PROVE  Backed'
<1> DEFINE c == call[d].cred
<1>1. c \in Creds /\ call[d] # NoCall /\ call[d].type \in Derived
  BY CallType DEF HandleDerived
<1>2. evidence' = evidence /\ call' = [call EXCEPT ![d] = NoCall]
  BY DEF HandleDerived, Ended
<1>3. state' = state \/ state' = [state EXCEPT ![c] = Target(call[d].type)]
  BY DEF HandleDerived, Materialise
<1>4. call[d].type = "failed" \/ Complete(evidence[c])
  BY <1>1 DEF Backed, Derived
<1>5. call[d].type = "failed" => Target(call[d].type) = "UNAUTHORIZED"
  BY DEF Target
<1>6. \A a \in Creds : state'[a] \in {"AUTHORIZED", "LIMITED", "DEGRADED"} => Complete(evidence[a])
  BY <1>1, <1>3, <1>4, <1>5 DEF Backed, TypeOK
<1>7. \A f \in Calls : call'[f] # NoCall => call'[f] = call[f]
  BY <1>2 DEF TypeOK
<1> QED BY <1>2, <1>6, <1>7 DEF Backed

(* Every other step leaves the evidence alone, puts no credential in a     *)
(* state that may be allowed and adds no derived event.                    *)
LEMMA BackedOther ==
    ASSUME TypeOK, Backed, evidence' = evidence,
           \A c \in Creds : state'[c] \in {state[c], "null", "UNKNOWN"},
           \A f \in Calls : \/ call'[f] \in {NoCall, call[f]}
                            \/ ~(call'[f].type \in {"ok", "partial", "degraded"})
    PROVE  Backed'
BY DEF Backed

LEMMA BackedEvaluate ==
    ASSUME TypeOK, Backed, NEW d \in Calls, HandleEvaluate(d)
    PROVE  Backed'
<1>1. call[d].cred \in Creds
  BY CallType DEF HandleEvaluate
<1>2. \A c \in Creds : state'[c] \in {state[c], "null", "UNKNOWN"}
  BY <1>1 DEF HandleEvaluate, Materialise, TypeOK
<1>3. \A f \in Calls : call'[f] \in {NoCall, call[f]}
  BY DEF HandleEvaluate, Ended, TypeOK
<1> QED BY <1>2, <1>3, BackedOther DEF HandleEvaluate

LEMMA BackedNull ==
    ASSUME TypeOK, Backed, NEW d \in Calls, HandleNull(d)
    PROVE  Backed'
<1>1. call[d].cred \in Creds
  BY CallType DEF HandleNull
<1>2. \A c \in Creds : state'[c] \in {state[c], "null", "UNKNOWN"}
  BY <1>1 DEF HandleNull, TypeOK
<1>3. \A f \in Calls : \/ call'[f] \in {NoCall, call[f]}
                       \/ call'[f] = [call[d] EXCEPT !.type = "checking"] /\ f = d
  BY DEF HandleNull, Ended, TypeOK
<1>4. [call[d] EXCEPT !.type = "checking"].type = "checking"
  BY RetypeCall DEF HandleNull, NullEvents, Types, Checks
<1> QED BY <1>2, <1>3, <1>4, BackedOther DEF HandleNull

LEMMA BackedCheck ==
    ASSUME TypeOK, Backed, NEW d \in Calls, WorkerReads(d) \/ CheckSucceeds(d) \/ CheckFails(d)
    PROVE  Backed'
<1>1. state' = state /\ evidence' = evidence
  BY DEF WorkerReads, CheckSucceeds, CheckFails
<1>2. \A f \in Calls : \/ call'[f] \in {NoCall, call[f]}
                       \/ ~(call'[f].type \in {"ok", "partial", "degraded"})
  <2>1. \A t \in Checks : [call[d] EXCEPT !.type = t].type = t
    BY RetypeCall DEF WorkerReads, CheckSucceeds, CheckFails, Checks, Types
  <2>2. \A f \in Calls : \/ call'[f] \in {NoCall, call[f]}
                         \/ \E t \in Checks : call'[f] = [call[d] EXCEPT !.type = t]
    BY DEF WorkerReads, CheckSucceeds, CheckFails, Ended, TypeOK, Checks
  <2> QED BY <2>1, <2>2 DEF Checks
<1> QED BY <1>1, <1>2, BackedOther

LEMMA BackedSubmit ==
    ASSUME TypeOK, Backed, NEW d \in Calls, NEW c \in Creds,
           \/ (\E e \in Envelopes : Observe(d, c, e)) \/ (\E e \in Undated : Report(d, c, e))
           \/ Evaluate(d, c) \/ CompleteHealthCheck(d, c) \/ RequestData(d, c) \/ AskCheck(d, c)
    PROVE  Backed'
<1>1. state' = state /\ evidence' = evidence
  BY DEF Observe, Report, Evaluate, CompleteHealthCheck, RequestData, AskCheck, Submit
<1>2. call'[d].type \in NullEvents \cup {"observe", "evaluate"}
  BY DEF Observe, Report, Evaluate, CompleteHealthCheck, RequestData, AskCheck, Submit,
         TypeOK, NullEvents
<1>3. \A f \in Calls : f = d \/ call'[f] = call[f]
  BY DEF Observe, Report, Evaluate, CompleteHealthCheck, RequestData, AskCheck, Submit, TypeOK
<1>4. \A f \in Calls : \/ call'[f] \in {NoCall, call[f]}
                       \/ ~(call'[f].type \in {"ok", "partial", "degraded"})
  BY <1>2, <1>3 DEF NullEvents
<1> QED BY <1>1, <1>4, BackedOther

LEMMA BackedNext == TypeOK /\ Backed /\ [Next]_vars => Backed'
<1> SUFFICES ASSUME TypeOK, Backed, [Next]_vars PROVE Backed'
  OBVIOUS
<1>1. CASE UNCHANGED vars
  BY <1>1 DEF vars, Backed
<1>2. CASE \E d \in Calls, c \in Creds :
               \/ \E e \in Envelopes : Observe(d, c, e)
               \/ \E e \in Undated : Report(d, c, e)
               \/ Evaluate(d, c) \/ CompleteHealthCheck(d, c) \/ RequestData(d, c)
               \/ AskCheck(d, c)
  BY <1>2, BackedSubmit
<1>3. CASE \E d \in Calls : Handle(d)
  BY <1>3, BackedObserve, BackedDerived, BackedEvaluate, BackedNull, BackedCheck DEF Handle
<1>4. CASE (\E c \in Creds : Age(c)) \/ Flip
  BY <1>4 DEF Age, Flip, Backed
<1> QED BY <1>1, <1>2, <1>3, <1>4 DEF Next

LEMMA BackedAllowed == Backed => AllowedIsComplete
BY DEF Backed, AllowedIsComplete, Allowed

(* The Graph API is never used for an account of which a slot has never    *)
(* been observed, however the calls about it overtake each other.          *)
THEOREM AllowedComplete == Spec => []AllowedIsComplete
BY TypeInit, TypeNext, BackedInit, BackedNext, BackedAllowed, PTL DEF Spec

-----------------------------------------------------------------------------
(* Who may make an account fresh or authorized: a derived event follows    *)
(* the observation that caused it, and while a check is in flight the      *)
(* account does not age, so it stays authorized only if it was observed.   *)
Witnessed ==
    /\ \A c \in Creds : state[c] = "AUTHORIZED" /\ stamp[c] = "fresh" => observed[c]
    /\ \A d \in Calls : call[d] # NoCall /\ call[d].type \in Derived
                          => observed[call[d].cred]
    /\ \A d \in Calls : call[d] # NoCall /\ call[d].type \in Checks
                          /\ state[call[d].cred] = "AUTHORIZED" => observed[call[d].cred]

LEMMA WitnessedInit == Init => Witnessed
BY DEF Init, Witnessed

LEMMA WitnessedObserve ==
    ASSUME TypeOK, Witnessed, NEW d \in Calls, HandleObserve(d)
    PROVE  Witnessed'
<1> DEFINE c == call[d].cred
           event == DerivedEvent(Infer(Merge(evidence[c], call[d].env)))
<1>1. c \in Creds
  BY CallType DEF HandleObserve
<1>2. /\ observed' = [observed EXCEPT ![c] = TRUE]
      /\ \E time : stamp' = [stamp EXCEPT ![c] = time]
  BY DEF HandleObserve, MergeEvidence
<1>3. \A a \in Creds : a # c => state'[a] = state[a]
  BY <1>1 DEF HandleObserve, Materialise, TypeOK
<1>4. call' = [call EXCEPT ![d] = NoCall]
      \/ call' = [call EXCEPT ![d] = [type |-> event, cred |-> c, ctx |-> call[d].ctx]]
  BY DEF HandleObserve, Ended
<1>5. \A a \in Creds : state'[a] = "AUTHORIZED" /\ stamp'[a] = "fresh" => observed'[a]
  BY <1>1, <1>2, <1>3 DEF Witnessed, TypeOK
<1>6. \A f \in Calls : call'[f] # NoCall =>
         call'[f].cred = c \/ (f # d /\ call'[f] = call[f] /\ call[f].cred \in Creds)
  BY <1>4, CallType DEF TypeOK
<1>7. ASSUME NEW f \in Calls, call'[f] # NoCall,
             \/ call'[f].type \in Derived
             \/ call'[f].type \in Checks /\ state'[call'[f].cred] = "AUTHORIZED"
      PROVE  observed'[call'[f].cred]
  <2>1. CASE call'[f].cred = c
    BY <2>1, <1>1, <1>2 DEF TypeOK
  <2>2. CASE call'[f].cred # c
    BY <2>2, <1>2, <1>3, <1>6, <1>7 DEF Witnessed, TypeOK
  <2> QED BY <2>1, <2>2
<1> QED BY <1>5, <1>7 DEF Witnessed

LEMMA WitnessedDerived ==
    ASSUME TypeOK, Witnessed, NEW d \in Calls, HandleDerived(d)
    PROVE  Witnessed'
<1> DEFINE c == call[d].cred
<1>1. c \in Creds /\ observed[c]
  BY CallType DEF HandleDerived, Witnessed
<1>2. observed' = observed /\ stamp' = stamp
  BY DEF HandleDerived
<1>3. \A a \in Creds : a # c => state'[a] = state[a]
  BY <1>1 DEF HandleDerived, Materialise, TypeOK
<1>4. \A f \in Calls : call'[f] # NoCall => call'[f] = call[f] /\ call[f].cred \in Creds
  BY CallType DEF HandleDerived, Ended, TypeOK
<1> QED BY <1>1, <1>2, <1>3, <1>4 DEF Witnessed

(* The steps that authorize nobody.                                        *)
LEMMA WitnessedOther ==
    ASSUME TypeOK, Witnessed, observed' = observed, stamp' = stamp,
           \A a \in Creds : state'[a] = "AUTHORIZED" => state[a] = "AUTHORIZED",
           \A f \in Calls : \/ call'[f] \in {NoCall, call[f]}
                            \/ ~(call'[f].type \in Derived \cup Checks)
    PROVE  Witnessed'
<1>1. \A f \in Calls : call[f] # NoCall => call[f].cred \in Creds
  BY CallType
<1> QED BY <1>1 DEF Witnessed

LEMMA WitnessedEvaluate ==
    ASSUME TypeOK, Witnessed, NEW d \in Calls, HandleEvaluate(d)
    PROVE  Witnessed'
<1>1. call[d].cred \in Creds
  BY CallType DEF HandleEvaluate
<1>2. \A a \in Creds : state'[a] = "AUTHORIZED" => state[a] = "AUTHORIZED"
  BY <1>1 DEF HandleEvaluate, Materialise, TypeOK
<1>3. \A f \in Calls : call'[f] \in {NoCall, call[f]}
  BY DEF HandleEvaluate, Ended, TypeOK
<1> QED BY <1>2, <1>3, WitnessedOther DEF HandleEvaluate

(* The account of a check that starts is not authorized.                   *)
LEMMA WitnessedNull ==
    ASSUME TypeOK, Witnessed, NEW d \in Calls, HandleNull(d)
    PROVE  Witnessed'
<1> DEFINE c == call[d].cred
<1>1. c \in Creds
  BY CallType DEF HandleNull
<1>2. observed' = observed /\ stamp' = stamp
  BY DEF HandleNull
<1>3. \A a \in Creds : state'[a] = "AUTHORIZED" => state[a] = "AUTHORIZED"
  BY <1>1 DEF HandleNull, TypeOK
<1>4. \A f \in Calls :
         \/ call'[f] \in {NoCall, call[f]}
         \/ call'[f].type = "checking" /\ call'[f].cred = c /\ state'[c] = "null"
  <2> DEFINE checking == [call[d] EXCEPT !.type = "checking"]
  <2>1. checking.type = "checking" /\ checking.cred = c
    BY RetypeCall DEF HandleNull, Types
  <2>2. \A f \in Calls : \/ call'[f] \in {NoCall, call[f]}
                         \/ call'[f] = checking /\ state'[c] = "null"
    BY <1>1 DEF HandleNull, Ended, TypeOK
  <2> QED BY <2>1, <2>2
<1>5. \A f \in Calls : call[f] # NoCall => call[f].cred \in Creds
  BY CallType
<1> QED BY <1>1, <1>2, <1>3, <1>4, <1>5 DEF Witnessed, Derived

LEMMA WitnessedCheck ==
    ASSUME TypeOK, Witnessed, NEW d \in Calls, WorkerReads(d) \/ CheckSucceeds(d) \/ CheckFails(d)
    PROVE  Witnessed'
<1> DEFINE c == call[d].cred
<1>1. c \in Creds /\ call[d] # NoCall /\ call[d].type \in Checks
  BY CallType DEF WorkerReads, CheckSucceeds, CheckFails, Checks
<1>2. state' = state /\ observed' = observed
  BY DEF WorkerReads, CheckSucceeds, CheckFails
<1>3. stamp' = stamp \/ stamp' = [stamp EXCEPT ![c] = "fresh"]
  BY DEF WorkerReads, CheckSucceeds, CheckFails
<1>4. state[c] = "AUTHORIZED" => observed[c]
  BY <1>1 DEF Witnessed
<1>5. \A f \in Calls : call'[f] # NoCall =>
         call'[f] = call[f] \/ (call'[f].type \in Checks /\ call'[f].cred = c)
  <2>1. \A t \in Checks : /\ [call[d] EXCEPT !.type = t].type = t
                          /\ [call[d] EXCEPT !.type = t].cred = c
    BY RetypeCall DEF WorkerReads, CheckSucceeds, CheckFails, Checks, Types
  <2>2. \A f \in Calls : \/ call'[f] \in {NoCall, call[f]}
                         \/ \E t \in Checks : call'[f] = [call[d] EXCEPT !.type = t]
    BY DEF WorkerReads, CheckSucceeds, CheckFails, Ended, TypeOK, Checks
  <2>3. ASSUME NEW f \in Calls, call'[f] # NoCall, call'[f] # call[f]
        PROVE  call'[f].type \in Checks /\ call'[f].cred = c
    <3>1. PICK t \in Checks : call'[f] = [call[d] EXCEPT !.type = t]
      BY <2>2, <2>3
    <3> QED BY <2>1, <3>1
  <2> QED BY <2>3
<1>6. \A f \in Calls : call[f] # NoCall => call[f].cred \in Creds
  BY CallType
<1>7. ~(\E t \in Checks : t \in Derived)
  BY DEF Checks, Derived
<1>8. \A a \in Creds : state'[a] = "AUTHORIZED" /\ stamp'[a] = "fresh" => observed'[a]
  BY <1>1, <1>2, <1>3, <1>4 DEF Witnessed, TypeOK
<1>9. \A f \in Calls : call'[f] # NoCall /\ call'[f].type \in Derived
                         => observed'[call'[f].cred]
  BY <1>2, <1>5, <1>7 DEF Witnessed
<1>10. \A f \in Calls : call'[f] # NoCall /\ call'[f].type \in Checks
                          /\ state'[call'[f].cred] = "AUTHORIZED" => observed'[call'[f].cred]
  BY <1>2, <1>4, <1>5 DEF Witnessed
<1> QED BY <1>8, <1>9, <1>10 DEF Witnessed

LEMMA WitnessedSubmit ==
    ASSUME TypeOK, Witnessed, NEW d \in Calls, NEW c \in Creds,
           \/ (\E e \in Envelopes : Observe(d, c, e)) \/ (\E e \in Undated : Report(d, c, e))
           \/ Evaluate(d, c) \/ CompleteHealthCheck(d, c) \/ RequestData(d, c) \/ AskCheck(d, c)
    PROVE  Witnessed'
<1>1. state' = state /\ observed' = observed /\ stamp' = stamp
  BY DEF Observe, Report, Evaluate, CompleteHealthCheck, RequestData, AskCheck, Submit
<1>2. call'[d].type \in NullEvents \cup {"observe", "evaluate"}
  BY DEF Observe, Report, Evaluate, CompleteHealthCheck, RequestData, AskCheck, Submit,
         TypeOK, NullEvents
<1>3. \A f \in Calls : f = d \/ call'[f] = call[f]
  BY DEF Observe, Report, Evaluate, CompleteHealthCheck, RequestData, AskCheck, Submit, TypeOK
<1>4. \A t \in NullEvents \cup {"observe", "evaluate"} : ~(t \in Derived \cup Checks)
  BY DEF NullEvents, Derived, Checks
<1>5. \A f \in Calls : call'[f] \in {NoCall, call[f]} \/ ~(call'[f].type \in Derived \cup Checks)
  BY <1>2, <1>3, <1>4
<1> QED BY <1>1, <1>5, WitnessedOther

(* The account that ages has no call in flight and is no longer fresh.     *)
LEMMA WitnessedAge ==
    ASSUME TypeOK, Witnessed, NEW c \in Creds, Age(c)
    PROVE  Witnessed'
<1>1. \A d \in Calls : call[d] # NoCall => call[d].cred \in Creds /\ call[d].cred # c
  BY CallType DEF Age
<1> QED BY <1>1 DEF Age, Aged, Witnessed, TypeOK

LEMMA WitnessedNext == TypeOK /\ Witnessed /\ [Next]_vars => Witnessed'
<1> SUFFICES ASSUME TypeOK, Witnessed, [Next]_vars PROVE Witnessed'
  OBVIOUS
<1>1. CASE UNCHANGED vars
  BY <1>1 DEF vars, Witnessed
<1>2. CASE \E d \in Calls, c \in Creds :
               \/ \E e \in Envelopes : Observe(d, c, e)
               \/ \E e \in Undated : Report(d, c, e)
               \/ Evaluate(d, c) \/ CompleteHealthCheck(d, c) \/ RequestData(d, c)
               \/ AskCheck(d, c)
  BY <1>2, WitnessedSubmit
<1>3. CASE \E d \in Calls : Handle(d)
  BY <1>3, WitnessedObserve, WitnessedDerived, WitnessedEvaluate, WitnessedNull,
     WitnessedCheck DEF Handle
<1>4. CASE \E c \in Creds : Age(c)
  BY <1>4, WitnessedAge
<1>5. CASE Flip
  BY <1>5 DEF Flip, Witnessed
<1> QED BY <1>1, <1>2, <1>3, <1>4, <1>5 DEF Next

LEMMA WitnessedAuthorized == Witnessed => AuthorizedIsObserved
BY DEF Witnessed, AuthorizedIsObserved

(* No account passes the freshness gate as AUTHORIZED on a stamp that a    *)
(* capability check left: it was observed within the window.               *)
THEOREM AuthorizedObserved == Spec => []AuthorizedIsObserved
BY TypeInit, TypeNext, WitnessedInit, WitnessedNext, WitnessedAuthorized, PTL DEF Spec
=============================================================================
