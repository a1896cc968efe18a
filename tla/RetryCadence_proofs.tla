------------------------- MODULE RetryCadence_proofs -------------------------
(***************************************************************************)
(* Proofs about the retry chains: types, the budget, the handles, and the  *)
(* accounting of the chains that do not overlap.                           *)
(***************************************************************************)
EXTENDS RetryCadence, TLAPS

USE DEF NoContext, NothingTaken

(* Clearing the handle of a context only moves strands that have a timer.  *)
LEMMA StoppedType ==
    ASSUME TypeOK, NEW i \in Intents, NEW p,
           p \in [Strands -> {"idle", "checking", "committing", "cleared", "armed", "running"}]
    PROVE  Stopped(i, p)
             \in [Strands -> {"idle", "checking", "committing", "cleared", "armed", "running"}]
BY DEF TypeOK, Stopped

(* The types are kept by every step.                                       *)
LEMMA TypeStep == TypeOK /\ [Next]_vars => TypeOK'
<1> SUFFICES ASSUME TypeOK, [Next]_vars PROVE TypeOK'
  OBVIOUS
<1>1. ASSUME NEW s \in Strands, NEW i \in Intents, NEW first \in BOOLEAN,
             Reports(s, i, first)
      PROVE  TypeOK'
  <2> DEFINE S == {"idle", "checking", "committing", "cleared", "armed", "running"}
  <2>1. serial' \in [Intents -> BOOLEAN]
    BY <1>1, Zenon DEF Reports, ReportFinal, ReportExhausted, ReportTransient, ReportRateLimit,
       Handles, Alone, Active, TypeOK
  <2>2. Ended(s) \in [Strands -> S]
    BY DEF TypeOK, Ended
  <2>3. Stopped(i, Ended(s)) \in [Strands -> S]
    BY <2>2, StoppedType
  <2>4. CASE ReportFinal(s, i, first) \/ ReportExhausted(s, i, first)
    <3>1. frozen' \in BOOLEAN
      BY <2>4, Zenon DEF ReportFinal, ReportExhausted, TypeOK
    <3>2. pc' \in [Strands -> S]
      BY <2>3, <2>4, Zenon DEF ReportFinal, ReportExhausted, CancelRetry
    <3>3. /\ context' \in [Intents -> [count : Nat, timer : Strands \cup {NoTimer}]]
          /\ fired' \in [Intents -> Nat]
          /\ intent' \in [Strands -> Intents] /\ base' \in [Strands -> Nat]
          /\ existing' = existing /\ late' = late
      <4>1. /\ context' = [context EXCEPT ![i] = NoContext]
            /\ fired' = [fired EXCEPT ![i] = 0]
            /\ intent' = intent /\ base' = base /\ existing' = existing /\ late' = late
        BY <2>4, Zenon DEF ReportFinal, ReportExhausted, CancelRetry
      <4> QED BY <4>1 DEF TypeOK
    <3> QED BY <2>1, <3>1, <3>2, <3>3 DEF TypeOK
  <2>5. CASE ReportTransient(s, i, first)
    BY <2>1, <2>5 DEF ReportTransient, TakesContext, Count, TypeOK
  <2>6. CASE ReportRateLimit(s, i, first)
    BY <2>1, <2>2, <2>6 DEF ReportRateLimit, TypeOK
  <2> QED BY <1>1, <2>4, <2>5, <2>6 DEF Reports
<1>2. ASSUME NEW i \in Intents, StubExhausts(i) PROVE TypeOK'
  <2>1. serial' \in [Intents -> BOOLEAN]
    BY <1>2, Zenon DEF StubExhausts, Active, TypeOK
  <2>2. Stopped(i, pc) \in [Strands
            -> {"idle", "checking", "committing", "cleared", "armed", "running"}]
    BY StoppedType DEF TypeOK
  <2>3. /\ context' = [context EXCEPT ![i] = NoContext] /\ pc' = Stopped(i, pc)
        /\ fired' = [fired EXCEPT ![i] = 0]
        /\ intent' = intent /\ base' = base /\ existing' = existing /\ late' = late
    BY <1>2, Zenon DEF StubExhausts, CancelRetry
  <2>4. /\ context' \in [Intents -> [count : Nat, timer : Strands \cup {NoTimer}]]
        /\ fired' \in [Intents -> Nat]
    BY <2>3 DEF TypeOK
  <2>5. frozen' \in BOOLEAN
    BY <1>2, Zenon DEF StubExhausts, TypeOK
  <2>6. intent' \in [Strands -> Intents] /\ base' \in [Strands -> Nat]
        /\ existing' \in [Strands -> [count : Nat, owner : Strands \cup {NoTimer}]]
        /\ late' \in [Intents -> Nat]
    BY <2>3 DEF TypeOK
  <2>7. pc' \in [Strands -> {"idle", "checking", "committing", "cleared", "armed", "running"}]
    BY <2>2, <2>3
  <2> QED BY <2>1, <2>4, <2>5, <2>6, <2>7 DEF TypeOK
<1>3. ASSUME NEW s \in Strands, Approve(s) PROVE TypeOK'
  BY <1>3 DEF Approve, Checked, TypeOK
<1>4. ASSUME NEW s \in Strands, Refuse(s) \/ Die(s) \/ Unheard(s) PROVE TypeOK'
  <2>1. pc' = [pc EXCEPT ![s] = "idle"]
        /\ existing' \in {existing, [existing EXCEPT ![s] = NothingTaken]}
        /\ UNCHANGED <<context, intent, base, frozen, serial, fired, late>>
    BY <1>4 DEF Refuse, Die, Unheard
  <2>2. existing' \in [Strands -> [count : Nat, owner : Strands \cup {NoTimer}]]
    BY <2>1 DEF TypeOK
  <2> QED BY <2>1, <2>2 DEF TypeOK
<1>5. ASSUME NEW s \in Strands, Commit(s) PROVE TypeOK'
  BY <1>5 DEF Commit, StoresContext, Handle, TypeOK
<1>6. ASSUME NEW s \in Strands, Fire(s) PROVE TypeOK'
  BY <1>6 DEF Fire, TypeOK
<1>7. CASE FreezeChanges
  BY <1>7 DEF FreezeChanges, TypeOK
<1>8. CASE UNCHANGED vars
  BY <1>8 DEF vars, TypeOK
<1> QED
  <2>1. CASE \E s \in Strands, i \in Intents, first \in BOOLEAN : Reports(s, i, first)
    BY <2>1, <1>1, Zenon
  <2>2. CASE \E i \in Intents : StubExhausts(i)
    BY <2>2, <1>2
  <2>3. CASE \E s \in Strands :
                 Approve(s) \/ Refuse(s) \/ Commit(s) \/ Fire(s) \/ Die(s) \/ Unheard(s)
    BY <2>3, <1>3, <1>4, <1>5, <1>6
  <2> QED BY <2>1, <2>2, <2>3, <1>7, <1>8, Zenon DEF Next

(* The types hold initially.                                               *)
LEMMA TypeInit == Init => TypeOK
<1>1. Init => frozen \in BOOLEAN /\ serial \in [Intents -> BOOLEAN]
  BY Zenon DEF Init
<1>2. Init => /\ context \in [Intents -> [count : Nat, timer : Strands \cup {NoTimer}]]
              /\ pc \in [Strands
                     -> {"idle", "checking", "committing", "cleared", "armed", "running"}]
              /\ intent \in [Strands -> Intents]
              /\ base \in [Strands -> Nat]
              /\ fired \in [Intents -> Nat]
              /\ existing \in [Strands -> [count : Nat, owner : Strands \cup {NoTimer}]]
              /\ late \in [Intents -> Nat]
  BY DEF Init
<1> QED BY <1>1, <1>2 DEF TypeOK

(* Every variable keeps its type.                                          *)
THEOREM RetryTypeCorrect == Spec => []TypeOK
<1>1. Init => TypeOK
  BY TypeInit
<1> QED BY <1>1, TypeStep, PTL DEF Spec

-----------------------------------------------------------------------------
(* Clearing the handle of i leaves every other live handle alone.          *)
LEMMA StoppedHandle ==
    ASSUME TypeOK, HandleIsLive, NEW i \in Intents, NEW j \in Intents, i # j,
           context[j].timer # NoTimer, NEW p,
           p \in [Strands -> {"idle", "checking", "committing", "cleared", "armed", "running"}],
           p[context[j].timer] = pc[context[j].timer]
    PROVE  Stopped(i, p)[context[j].timer] = pc[context[j].timer]
BY NoTimerAssumption DEF TypeOK, HandleIsLive, Stopped

(* Every step keeps the handles of the contexts alive.                     *)
LEMMA HandleStep == TypeOK /\ HandleIsLive /\ [Next]_vars => HandleIsLive'
<1> SUFFICES ASSUME TypeOK, HandleIsLive, [Next]_vars,
                    NEW j \in Intents, context'[j].timer # NoTimer
             PROVE  /\ pc'[context'[j].timer] \in {"committing", "armed"}
                    /\ intent'[context'[j].timer] = j
  BY DEF HandleIsLive
<1> DEFINE Goal == /\ pc'[context'[j].timer] \in {"committing", "armed"}
                   /\ intent'[context'[j].timer] = j
<1> USE NoTimerAssumption
<1>1. ASSUME NEW i \in Intents, NEW p, CancelRetry(i, p), intent' = intent,
             p \in [Strands -> {"idle", "checking", "committing", "cleared", "armed", "running"}],
             \A s \in Strands : pc[s] \in {"committing", "armed"} => p[s] = pc[s]
      PROVE  Goal
  <2>1. i # j /\ context'[j] = context[j]
    BY <1>1 DEF CancelRetry, TypeOK
  <2>2. /\ context[j].timer \in Strands
        /\ pc[context[j].timer] \in {"committing", "armed"}
        /\ intent[context[j].timer] = j
    BY <2>1 DEF HandleIsLive, TypeOK
  <2>3. pc'[context[j].timer] = pc[context[j].timer]
    BY <1>1, <2>1, <2>2, StoppedHandle DEF CancelRetry
  <2> QED BY <1>1, <2>1, <2>2, <2>3
<1>2. ASSUME NEW s \in Strands, NEW i \in Intents, NEW first \in BOOLEAN,
             Reports(s, i, first)
      PROVE  Goal
  <2>1. pc[s] \in {"idle", "running"}
    BY <1>2, Zenon DEF Reports, ReportFinal, ReportExhausted, ReportTransient,
       ReportRateLimit, Handles
  <2>2. CASE ReportFinal(s, i, first) \/ ReportExhausted(s, i, first)
    <3>1. /\ Ended(s) \in [Strands
                 -> {"idle", "checking", "committing", "cleared", "armed", "running"}]
          /\ \A t \in Strands : pc[t] \in {"committing", "armed"} => Ended(s)[t] = pc[t]
      BY <2>1 DEF Ended, TypeOK
    <3> QED BY <1>1, <2>2, <3>1 DEF ReportFinal, ReportExhausted
  <2>3. CASE ReportTransient(s, i, first)
    BY <2>1, <2>3 DEF ReportTransient, TakesContext, HandleIsLive, TypeOK
  <2>4. CASE ReportRateLimit(s, i, first)
    BY <2>1, <2>4 DEF ReportRateLimit, Ended, HandleIsLive, TypeOK
  <2> QED BY <1>2, <2>2, <2>3, <2>4 DEF Reports
<1>3. ASSUME NEW i \in Intents, StubExhausts(i) PROVE Goal
  BY <1>1, <1>3 DEF StubExhausts, TypeOK
<1>4. ASSUME NEW s \in Strands, Approve(s) PROVE Goal
  BY <1>4 DEF Approve, Checked, HandleIsLive, TypeOK
<1>5. ASSUME NEW s \in Strands, Refuse(s) \/ Die(s) \/ Unheard(s) PROVE Goal
  BY <1>5 DEF Refuse, Checked, Die, Unheard, HandleIsLive, TypeOK
<1>6. ASSUME NEW s \in Strands, Commit(s) PROVE Goal
  BY <1>6 DEF Commit, StoresContext, Handle, HandleIsLive, TypeOK
<1>7. ASSUME NEW s \in Strands, Fire(s) PROVE Goal
  BY <1>7 DEF Fire, HandleIsLive, TypeOK
<1>8. CASE FreezeChanges
  BY <1>8 DEF FreezeChanges, HandleIsLive
<1>9. CASE UNCHANGED vars
  BY <1>9 DEF vars, HandleIsLive
<1> QED
  <2>1. CASE \E s \in Strands, i \in Intents, first \in BOOLEAN : Reports(s, i, first)
    BY <2>1, <1>2, Zenon
  <2>2. CASE \E i \in Intents : StubExhausts(i)
    BY <2>2, <1>3
  <2>3. CASE \E s \in Strands :
                 Approve(s) \/ Refuse(s) \/ Commit(s) \/ Fire(s) \/ Die(s) \/ Unheard(s)
    BY <2>3, <1>4, <1>5, <1>6, <1>7
  <2> QED BY <2>1, <2>2, <2>3, <1>8, <1>9, Zenon DEF Next

(* clearTimeout is only ever called on a pending timer of the same intent, *)
(* although timers fire, contexts are replaced and handles are cleared on  *)
(* contexts of other timers.                                               *)
THEOREM HandlesLive == Spec => []HandleIsLive
<1>1. Init => TypeOK /\ HandleIsLive
  BY TypeInit DEF Init, HandleIsLive
<1> QED BY <1>1, TypeStep, HandleStep, PTL DEF Spec

-----------------------------------------------------------------------------
(* What a handler that is on its way still may write.                      *)
InBudget(s) ==
    /\ base[s] < MaxRetries
    /\ existing[s].count < MaxRetries + late[intent[s]]
    /\ existing[s].owner # NoTimer =>
           /\ pc[s] = "checking"
           /\ pc[existing[s].owner] \in {"committing", "cleared"}
           /\ existing[existing[s].owner].count + 1 < MaxRetries + late[intent[s]]

Handling(s) == pc[s] \in {"checking", "committing", "cleared"}

(* The invariant, told of one strand at a time.                            *)
LEMMA BudgetParts ==
    BudgetInv <=> OverrunOnlyByLateReads /\ \A s \in Strands : Handling(s) => InBudget(s)
BY DEF BudgetInv, InBudget, Handling

(* A handler stays in the budget when a step leaves its own part alone,    *)
(* the late reads do not become fewer and the owner of the context it took *)
(* is as before, if its timer is not cleared.                              *)
LEMMA StaysInBudget ==
    ASSUME TypeOK, TypeOK', NEW s \in Strands, Handling(s), InBudget(s),
           pc'[s] = pc[s] \/ existing[s].owner = NoTimer,
           base'[s] = base[s], intent'[s] = intent[s], existing'[s] = existing[s],
           late'[intent[s]] >= late[intent[s]],
           existing[s].owner # NoTimer =>
               /\ pc'[existing[s].owner] \in {"committing", "cleared"}
               /\ existing'[existing[s].owner] = existing[existing[s].owner]
    PROVE  InBudget(s)'
<1>1. /\ late[intent[s]] \in Nat /\ late'[intent[s]] \in Nat
      /\ existing[s].count \in Nat /\ base[s] \in Nat
      /\ existing[s].owner # NoTimer => existing[existing[s].owner].count \in Nat
  BY DEF TypeOK
<1>2. base'[s] < MaxRetries /\ existing'[s].count < MaxRetries + late'[intent'[s]]
  BY <1>1, RetryAssumption DEF InBudget
<1>3. ASSUME existing'[s].owner # NoTimer
      PROVE  /\ pc'[s] = "checking"
             /\ pc'[existing'[s].owner] \in {"committing", "cleared"}
             /\ existing'[existing'[s].owner].count + 1 < MaxRetries + late'[intent'[s]]
  BY <1>1, <1>3, RetryAssumption DEF InBudget
<1> QED BY <1>2, <1>3 DEF InBudget

(* What a handler may still write is kept within the budget and the late   *)
(* reads by every step: a cancellation resets the count, a handler that    *)
(* takes a half-written context is late by one, which is what the context  *)
(* is still to be counted up by, and a handler counts up once.             *)
LEMMA BudgetStep == TypeOK /\ HandleIsLive /\ BudgetInv /\ [Next]_vars => BudgetInv'
<1> SUFFICES ASSUME TypeOK, HandleIsLive, BudgetInv, [Next]_vars PROVE BudgetInv'
  OBVIOUS
<1> USE RetryAssumption, NoTimerAssumption DEF Count
<1>t. TypeOK'
  BY TypeStep
<1>b. OverrunOnlyByLateReads /\ \A s \in Strands : Handling(s) => InBudget(s)
  BY BudgetParts
<1>p. ASSUME OverrunOnlyByLateReads', \A s \in Strands : Handling(s)' => InBudget(s)'
      PROVE  BudgetInv'
  BY <1>p DEF BudgetInv, InBudget, Handling
<1>1. ASSUME base' = base, intent' = intent, existing' = existing, late' = late,
             \A i \in Intents : context'[i].count = context[i].count \/ context'[i].count = 0,
             \A s \in Strands : \/ pc'[s] = pc[s]
                                \/ pc'[s] = "idle" /\ ~Handling(s)
                                \/ pc'[s] = "cleared" /\ pc[s] = "committing"
                                \/ pc'[s] = "running" /\ pc[s] = "armed"
                                \/ pc'[s] = "idle" /\ pc[s] = "armed"
      PROVE  BudgetInv'
  <2>1. OverrunOnlyByLateReads'
    <3>1. ASSUME NEW j \in Intents PROVE Count(j)' <= MaxRetries + late'[j]
      <4>1. Count(j) <= MaxRetries + late[j] /\ late'[j] = late[j] /\ late[j] \in Nat
        BY <1>1, <1>b DEF OverrunOnlyByLateReads, TypeOK
      <4> QED BY <1>1, <4>1
    <3>2. ASSUME NEW t \in Strands, pc'[t] \in {"armed", "running"}
          PROVE  base'[t] \in 1..(MaxRetries + late'[intent'[t]])
      <4>1. pc[t] \in {"armed", "running"}
        BY <1>1, <3>2
      <4> QED BY <1>1, <1>b, <4>1 DEF OverrunOnlyByLateReads
    <3> QED BY <3>1, <3>2 DEF OverrunOnlyByLateReads
  <2>2. ASSUME NEW s \in Strands, Handling(s)' PROVE InBudget(s)'
    <3>1. Handling(s) /\ InBudget(s)
      BY <1>1, <1>b, <2>2 DEF Handling
    <3>2. existing[s].owner # NoTimer => pc[s] = "checking"
      BY <3>1 DEF InBudget
    <3>3. ASSUME existing[s].owner # NoTimer
          PROVE  pc'[existing[s].owner] \in {"committing", "cleared"}
      <4>1. existing[s].owner \in Strands
        BY <3>3 DEF TypeOK
      <4>2. pc[existing[s].owner] \in {"committing", "cleared"}
        BY <3>1, <3>3 DEF InBudget
      <4> QED BY <1>1, <4>1, <4>2 DEF Handling
    <3>4. pc'[s] = pc[s] \/ existing[s].owner = NoTimer
      BY <1>1, <2>2, <3>2 DEF Handling
    <3>5. late'[intent[s]] >= late[intent[s]]
      BY <1>1 DEF TypeOK
    <3> QED BY <1>1, <1>t, <3>1, <3>3, <3>4, <3>5, StaysInBudget
  <2> QED BY <2>1, <2>2, <1>p
<1>2. ASSUME NEW i \in Intents, NEW p, CancelRetry(i, p),
             base' = base, intent' = intent, existing' = existing, late' = late,
             p \in [Strands -> {"idle", "checking", "committing", "cleared", "armed", "running"}],
             \A s \in Strands : p[s] = pc[s] \/ (p[s] = "idle" /\ ~Handling(s))
      PROVE  BudgetInv'
  <2>1. \A j \in Intents : context'[j].count = context[j].count \/ context'[j].count = 0
    BY <1>2 DEF CancelRetry, TypeOK
  <2>2. ASSUME NEW s \in Strands
        PROVE  \/ pc'[s] = pc[s]
               \/ pc'[s] = "idle" /\ ~Handling(s)
               \/ pc'[s] = "cleared" /\ pc[s] = "committing"
    <3>1. CASE context[i].timer = s
      <4>1. pc[s] \in {"committing", "armed"}
        BY <3>1 DEF HandleIsLive
      <4> QED BY <1>2, <3>1, <4>1 DEF CancelRetry, Stopped, Handling, TypeOK
    <3>2. CASE context[i].timer # s
      BY <1>2, <3>2 DEF CancelRetry, Stopped, TypeOK
    <3> QED BY <3>1, <3>2
  <2> QED BY <1>1, <1>2, <2>1, <2>2
<1>3. ASSUME NEW s \in Strands, NEW i \in Intents, NEW first \in BOOLEAN,
             Reports(s, i, first)
      PROVE  BudgetInv'
  <2>1. pc[s] \in {"idle", "running"}
    BY <1>3, Zenon DEF Reports, ReportFinal, ReportExhausted, ReportTransient,
       ReportRateLimit, Handles
  <2>2. /\ Ended(s) \in [Strands
               -> {"idle", "checking", "committing", "cleared", "armed", "running"}]
        /\ \A t \in Strands : Ended(s)[t] = pc[t] \/ (Ended(s)[t] = "idle" /\ ~Handling(t))
    <3>1. Ended(s) \in [Strands
                -> {"idle", "checking", "committing", "cleared", "armed", "running"}]
      BY DEF Ended, TypeOK
    <3>2. ~Handling(s) /\ Ended(s)[s] = "idle"
      BY <2>1 DEF Ended, Handling, TypeOK
    <3>3. \A t \in Strands \ {s} : Ended(s)[t] = pc[t]
      BY DEF Ended, TypeOK
    <3>4. \A t \in Strands : Ended(s)[t] = pc[t] \/ (Ended(s)[t] = "idle" /\ ~Handling(t))
      BY <3>2, <3>3, Zenon
    <3> QED BY <3>1, <3>4, Zenon
  <2>3. CASE ReportFinal(s, i, first) \/ ReportExhausted(s, i, first)
    BY <1>2, <2>2, <2>3 DEF ReportFinal, ReportExhausted
  <2>4. CASE ReportTransient(s, i, first)
    <3>1. /\ Count(i) < MaxRetries
          /\ pc' = [pc EXCEPT ![s] = "checking"]
          /\ intent' = [intent EXCEPT ![s] = i]
          /\ base' = [base EXCEPT ![s] = Count(i)]
          /\ existing' = [existing EXCEPT ![s] =
                 [count |-> Count(i),
                  owner |-> IF HalfWritten(i) THEN context[i].timer ELSE NoTimer]]
          /\ late' = [late EXCEPT ![i] = IF HalfWritten(i) THEN @ + 1 ELSE @]
          /\ context' = context
      BY <2>4 DEF ReportTransient, Exhausted, TakesContext, TypeOK
    <3>2. \A j \in Intents : late'[j] >= late[j] /\ late[j] \in Nat
      BY <3>1 DEF TypeOK
    <3>3. OverrunOnlyByLateReads'
      <4>1. \A j \in Intents : Count(j)' <= MaxRetries + late'[j]
        BY <1>b, <3>1, <3>2 DEF OverrunOnlyByLateReads, TypeOK
      <4>2. ASSUME NEW t \in Strands, pc'[t] \in {"armed", "running"}
            PROVE  base'[t] \in 1..(MaxRetries + late'[intent'[t]])
        <5>1. /\ t # s /\ pc'[t] = pc[t] /\ base'[t] = base[t] /\ intent'[t] = intent[t]
              /\ intent[t] \in Intents
          BY <3>1, <4>2 DEF TypeOK
        <5>2. base[t] \in 1..(MaxRetries + late[intent[t]])
          BY <1>b, <4>2, <5>1 DEF OverrunOnlyByLateReads
        <5>3. late'[intent[t]] >= late[intent[t]] /\ late[intent[t]] \in Nat
              /\ late'[intent[t]] \in Nat
          BY <1>t, <3>2, <5>1 DEF TypeOK
        <5> QED BY <5>1, <5>2, <5>3
      <4> QED BY <4>1, <4>2 DEF OverrunOnlyByLateReads
    <3>4. InBudget(s)'
      <4>1. /\ base'[s] < MaxRetries
            /\ existing'[s].count < MaxRetries + late'[intent'[s]]
            /\ pc'[s] = "checking"
            /\ intent'[s] = i
        BY <3>1, <3>2, <1>t DEF TypeOK
      <4>2. ASSUME existing'[s].owner # NoTimer
            PROVE  /\ pc'[existing'[s].owner] \in {"committing", "cleared"}
                   /\ existing'[existing'[s].owner].count + 1 < MaxRetries + late'[i]
        <5>1. /\ HalfWritten(i)
              /\ existing'[s].owner = context[i].timer
          BY <3>1, <4>2 DEF TypeOK
        <5> DEFINE o == context[i].timer
        <5>2. /\ o \in Strands /\ pc[o] = "committing" /\ intent[o] = i /\ o # s
          BY <2>1, <5>1 DEF HalfWritten, HandleIsLive, TypeOK
        <5>3. existing[o].count < MaxRetries + late[i] /\ existing[o].count \in Nat
          BY <1>b, <5>2 DEF Handling, InBudget, TypeOK
        <5>4. pc'[o] = pc[o] /\ existing'[o] = existing[o] /\ late'[i] = late[i] + 1
          BY <3>1, <5>1, <5>2 DEF TypeOK
        <5>5. late[i] \in Nat
          BY DEF TypeOK
        <5> HIDE DEF o
        <5>6. existing'[o].count + 1 < MaxRetries + late'[i]
          BY <5>3, <5>4, <5>5
        <5> QED BY <5>1, <5>2, <5>4, <5>6 DEF o
      <4> QED BY <4>1, <4>2 DEF InBudget
    <3>5. ASSUME NEW t \in Strands, t # s, Handling(t)' PROVE InBudget(t)'
      <4>1. /\ pc'[t] = pc[t] /\ base'[t] = base[t] /\ intent'[t] = intent[t]
            /\ existing'[t] = existing[t]
        BY <3>1, <3>5 DEF TypeOK
      <4>2. Handling(t) /\ InBudget(t)
        BY <1>b, <3>5, <4>1 DEF Handling
      <4>3. ASSUME existing[t].owner # NoTimer
            PROVE  /\ pc'[existing[t].owner] \in {"committing", "cleared"}
                   /\ existing'[existing[t].owner] = existing[existing[t].owner]
        <5>1. existing[t].owner \in Strands /\ pc[existing[t].owner] \in {"committing", "cleared"}
          BY <4>2, <4>3 DEF InBudget, TypeOK
        <5> QED BY <2>1, <3>1, <5>1 DEF TypeOK
      <4>4. late'[intent[t]] >= late[intent[t]]
        BY <3>2 DEF TypeOK
      <4> QED BY <1>t, <4>1, <4>2, <4>3, <4>4, StaysInBudget
    <3> QED BY <1>p, <3>3, <3>4, <3>5
  <2>5. CASE ReportRateLimit(s, i, first)
    BY <1>1, <2>2, <2>5 DEF ReportRateLimit
  <2> QED BY <1>3, <2>3, <2>4, <2>5 DEF Reports
<1>4. ASSUME NEW i \in Intents, StubExhausts(i) PROVE BudgetInv'
  <2>1. /\ CancelRetry(i, pc)
        /\ base' = base /\ intent' = intent /\ existing' = existing /\ late' = late
    BY <1>4, Zenon DEF StubExhausts
  <2> QED BY <1>2, <2>1 DEF TypeOK
<1>5. ASSUME NEW s \in Strands, Approve(s) \/ Refuse(s) PROVE BudgetInv'
  <2>1. /\ pc[s] = "checking" /\ existing[s].owner = NoTimer
        /\ base' = base /\ intent' = intent /\ late' = late
        /\ \A t \in Strands \ {s} : pc'[t] = pc[t] /\ existing'[t] = existing[t]
    BY <1>5 DEF Approve, Refuse, Checked, TypeOK
  <2>2. Handling(s) /\ InBudget(s)
    BY <1>b, <2>1 DEF Handling
  <2>3. OverrunOnlyByLateReads'
    <3>1. \A j \in Intents : Count(j)' = Count(j) \/ Count(j)' = base[s]
      <4>1. \/ context' = context
            \/ context' = [context EXCEPT ![intent[s]] = [count |-> base[s], timer |-> s]]
        BY <1>5 DEF Approve, Refuse
      <4> QED BY <4>1 DEF TypeOK
    <3>2. base[s] < MaxRetries /\ base[s] \in Nat
      BY <2>2 DEF InBudget, TypeOK
    <3>3. pc'[s] \notin {"armed", "running"}
      BY <1>5 DEF Approve, Refuse, TypeOK
    <3>4. \A j \in Intents : Count(j)' <= MaxRetries + late'[j]
      BY <1>b, <2>1, <3>1, <3>2 DEF OverrunOnlyByLateReads, TypeOK
    <3> QED BY <1>b, <2>1, <3>3, <3>4 DEF OverrunOnlyByLateReads
  <2>4. (pc'[s] = "committing" /\ existing' = existing) \/ pc'[s] = "idle"
    BY <1>5 DEF Approve, Refuse, TypeOK
  <2>5. ASSUME NEW t \in Strands, Handling(t)' PROVE InBudget(t)'
    <3>1. Handling(t) /\ InBudget(t)
      BY <1>b, <2>1, <2>2, <2>5 DEF Handling
    <3>2. existing'[t] = existing[t] /\ (pc'[t] = pc[t] \/ existing[t].owner = NoTimer)
      BY <2>1, <2>4, <2>5 DEF Handling
    <3>3. ASSUME existing[t].owner # NoTimer
          PROVE  /\ pc'[existing[t].owner] \in {"committing", "cleared"}
                 /\ existing'[existing[t].owner] = existing[existing[t].owner]
      <4>1. existing[t].owner \in Strands /\ pc[existing[t].owner] \in {"committing", "cleared"}
        BY <3>1, <3>3 DEF InBudget, TypeOK
      <4> QED BY <2>1, <4>1
    <3>4. late'[intent[t]] >= late[intent[t]]
      BY <2>1 DEF TypeOK
    <3> QED BY <1>t, <2>1, <3>1, <3>2, <3>3, <3>4, StaysInBudget
  <2> QED BY <1>p, <2>3, <2>5
<1>6. ASSUME NEW s \in Strands, Commit(s) PROVE BudgetInv'
  <2> DEFINE n == existing[s].count + 1
  <2>1. /\ pc[s] \in {"committing", "cleared"}
        /\ pc' = [pc EXCEPT ![s] = IF @ = "committing" THEN "armed" ELSE "idle"]
        /\ context' = [context EXCEPT ![intent[s]] = [count |-> n, timer |-> Handle(s)]]
        /\ base' = [base EXCEPT ![s] = n]
        /\ existing' = [r \in Strands |->
               IF r = s THEN NothingTaken
               ELSE IF existing[r].owner = s THEN [count |-> n, owner |-> NoTimer]
               ELSE existing[r]]
        /\ intent' = intent /\ late' = late
    BY <1>6 DEF Commit, StoresContext
  <2>2. n \in 1..(MaxRetries + late[intent[s]]) /\ late[intent[s]] \in Nat
    <3>1. InBudget(s) /\ existing[s].count \in Nat /\ late[intent[s]] \in Nat
      BY <1>b, <2>1 DEF Handling, TypeOK
    <3> QED BY <3>1 DEF InBudget
  <2> HIDE DEF n
  <2>3. OverrunOnlyByLateReads'
    <3>1. \A j \in Intents : Count(j)' <= MaxRetries + late'[j]
      BY <1>b, <2>1, <2>2 DEF OverrunOnlyByLateReads, TypeOK
    <3> QED BY <1>b, <2>1, <2>2, <3>1 DEF OverrunOnlyByLateReads, TypeOK
  <2>4. ASSUME NEW t \in Strands, Handling(t)' PROVE InBudget(t)'
    <3>1. /\ t # s /\ pc'[t] = pc[t] /\ base'[t] = base[t] /\ intent'[t] = intent[t]
          /\ late' = late
      BY <2>1, <2>4 DEF Handling, TypeOK
    <3>2. Handling(t) /\ InBudget(t)
      BY <1>b, <2>4, <3>1 DEF Handling
    <3>3. CASE existing[t].owner = s
      <4>1. existing'[t] = [count |-> n, owner |-> NoTimer]
        BY <2>1, <3>1, <3>3
      <4>2. n < MaxRetries + late[intent[t]]
        BY <3>2, <3>3 DEF InBudget, n
      <4> QED BY <3>1, <3>2, <4>1, <4>2 DEF InBudget
    <3>4. CASE existing[t].owner # s
      <4>1. existing'[t] = existing[t]
        BY <2>1, <3>1, <3>4
      <4>2. ASSUME existing[t].owner # NoTimer
            PROVE  /\ pc'[existing[t].owner] \in {"committing", "cleared"}
                   /\ existing'[existing[t].owner] = existing[existing[t].owner]
        <5> DEFINE o == existing[t].owner
        <5>1. o \in Strands /\ o # s /\ pc[o] \in {"committing", "cleared"}
          BY <3>2, <3>4, <4>2 DEF InBudget, TypeOK
        <5>2. existing[o].owner = NoTimer
          BY <1>b, <5>1 DEF Handling, InBudget
        <5> HIDE DEF o
        <5>3. pc'[o] = pc[o] /\ existing'[o] = existing[o]
          BY <2>1, <5>1, <5>2 DEF TypeOK
        <5> QED BY <5>1, <5>3 DEF o
      <4>3. late'[intent[t]] >= late[intent[t]]
        BY <3>1 DEF TypeOK
      <4> QED BY <1>t, <3>1, <3>2, <4>1, <4>2, <4>3, StaysInBudget
    <3> QED BY <3>3, <3>4
  <2> QED BY <1>p, <2>3, <2>4
<1>7. ASSUME NEW s \in Strands, Die(s) \/ Unheard(s) \/ Fire(s) PROVE BudgetInv'
  <2>1. /\ base' = base /\ intent' = intent /\ existing' = existing /\ late' = late
        /\ \A i \in Intents : context'[i].count = context[i].count
    BY <1>7 DEF Die, Unheard, Fire, TypeOK
  <2>2. \A t \in Strands : \/ pc'[t] = pc[t]
                           \/ pc'[t] = "idle" /\ ~Handling(t)
                           \/ pc'[t] = "running" /\ pc[t] = "armed"
    BY <1>7 DEF Die, Unheard, Fire, Handling, TypeOK
  <2> QED BY <1>1, <2>1, <2>2
<1>8. CASE FreezeChanges \/ UNCHANGED vars
  <2>1. /\ base' = base /\ intent' = intent /\ existing' = existing /\ late' = late
        /\ context' = context /\ pc' = pc
    BY <1>8, Zenon DEF FreezeChanges, vars
  <2> QED BY <1>1, <2>1
<1> QED
  <2>1. CASE \E s \in Strands, i \in Intents, first \in BOOLEAN : Reports(s, i, first)
    BY <2>1, <1>3, Zenon
  <2>2. CASE \E i \in Intents : StubExhausts(i)
    BY <2>2, <1>4
  <2>3. CASE \E s \in Strands :
                 Approve(s) \/ Refuse(s) \/ Commit(s) \/ Fire(s) \/ Die(s) \/ Unheard(s)
    BY <2>3, <1>5, <1>6, <1>7
  <2> QED BY <2>1, <2>2, <2>3, <1>8, Zenon DEF Next

LEMMA BudgetInit == Init => BudgetInv
BY RetryAssumption DEF Init, BudgetInv, OverrunOnlyByLateReads, Count

(* However many handlers of an intent overlap, its budget is only overrun  *)
(* by the handlers that took a context another had half-written, by one    *)
(* each.                                                                   *)
THEOREM OverrunIsLate == Spec => []OverrunOnlyByLateReads
<1>1. Init => TypeOK /\ HandleIsLive /\ BudgetInv
  BY TypeInit, BudgetInit DEF Init, HandleIsLive
<1>2. BudgetInv => OverrunOnlyByLateReads
  BY DEF BudgetInv
<1> QED BY <1>1, <1>2, TypeStep, HandleStep, BudgetStep, PTL DEF Spec

-----------------------------------------------------------------------------
(* A step that leaves the context and the strands of an intent alone       *)
(* leaves what is known about them.                                        *)
LEMMA Untouched ==
    ASSUME NEW j \in Intents, SerialAt(j),
           context'[j] = context[j], fired'[j] = fired[j],
           \A t \in Strands : Active(t, j)' <=> Active(t, j),
           \A t \in Strands : Active(t, j) => pc'[t] = pc[t] /\ base'[t] = base[t],
           \A t \in Strands : Active(t, j) /\ existing[t].owner = NoTimer =>
               existing'[t] = existing[t],
           late'[j] = late[j]
    PROVE  SerialAt(j)'
<1>1. late'[j] = 0
  BY DEF SerialAt
<1>2. /\ \A s, t \in Strands : Active(s, j)' /\ Active(t, j)' => s = t
      /\ (\A s \in Strands : ~Active(s, j)') =>
             context'[j] = [count |-> fired'[j], timer |-> NoTimer]
  BY Zenon DEF SerialAt
<1>3. ASSUME NEW s \in Strands, Active(s, j)'
      PROVE  /\ context'[j] = ContextAt(s)'
             /\ base'[s] = IF pc'[s] = "armed" THEN fired'[j] + 1 ELSE fired'[j]
             /\ pc'[s] \in {"checking", "committing"} =>
                    existing'[s] = [count |-> base'[s], owner |-> NoTimer]
             /\ pc'[s] # "cleared"
  <2>1. /\ Active(s, j) /\ pc'[s] = pc[s] /\ base'[s] = base[s]
        /\ context[j] = ContextAt(s)
        /\ base[s] = IF pc[s] = "armed" THEN fired[j] + 1 ELSE fired[j]
        /\ pc[s] \in {"checking", "committing"} =>
               existing[s] = [count |-> base[s], owner |-> NoTimer]
        /\ pc[s] # "cleared"
    BY <1>3 DEF SerialAt
  <2>2. ContextAt(s)' = ContextAt(s)
    BY <2>1 DEF ContextAt
  <2>3. pc[s] \in {"checking", "committing"} => existing'[s] = existing[s]
    BY <2>1
  <2> QED BY <2>1, <2>2, <2>3
<1> QED BY <1>1, <1>2, <1>3 DEF SerialAt

(* When the only strand of an intent ends, its context is as the last      *)
(* retry left it.                                                          *)
LEMMA LastEnds ==
    ASSUME NEW j \in Intents,
           \A t \in Strands : ~Active(t, j)',
           context'[j] = [count |-> fired'[j], timer |-> NoTimer],
           late'[j] = 0
    PROVE  SerialAt(j)'
BY DEF SerialAt

(* When one strand of an intent is active and its context is the one that  *)
(* belongs to its place.                                                   *)
LEMMA OneActive ==
    ASSUME NEW j \in Intents, NEW s \in Strands, Active(s, j)',
           \A t \in Strands \ {s} : ~Active(t, j)',
           context'[j] = ContextAt(s)',
           base'[s] = IF pc'[s] = "armed" THEN fired'[j] + 1 ELSE fired'[j],
           pc'[s] \in {"checking", "committing"} =>
               existing'[s] = [count |-> base'[s], owner |-> NoTimer],
           pc'[s] # "cleared", late'[j] = 0
    PROVE  SerialAt(j)'
BY DEF SerialAt

(* Every step keeps what is known about the serial intents.                *)
LEMMA SerialStep == TypeOK /\ HandleIsLive /\ SerialInv /\ [Next]_vars => SerialInv'
<1> SUFFICES ASSUME TypeOK, HandleIsLive, SerialInv, [Next]_vars,
                    NEW j \in Intents, serial'[j]
             PROVE  SerialAt(j)'
  BY Zenon DEF SerialInv
<1>1. ASSUME NEW s \in Strands, NEW i \in Intents, NEW first \in BOOLEAN,
             Reports(s, i, first)
      PROVE  SerialAt(j)'
  <2>1. /\ serial[j]
        /\ i = j => Alone(s, j)
    BY <1>1, Zenon DEF Reports, ReportFinal, ReportExhausted, ReportTransient,
       ReportRateLimit, Handles, TypeOK
  <2>2. SerialAt(j)
    BY <2>1, Zenon DEF SerialInv
  <2>3. \/ pc[s] = "idle"
        \/ pc[s] = "running" /\ intent[s] = i
    BY <1>1, Zenon DEF Reports, ReportFinal, ReportExhausted, ReportTransient,
       ReportRateLimit, Handles, Active
  <2>4. ASSUME i = j
        PROVE  context[j] = [count |-> fired[j], timer |-> NoTimer]
    BY <2>1, <2>2, <2>3, <2>4 DEF SerialAt, Alone, Active, ContextAt
  <2>z. late[j] = 0
    BY <2>2 DEF SerialAt
  <2>5. CASE ReportFinal(s, i, first) \/ ReportExhausted(s, i, first)
    <3>1. /\ pc' = Stopped(i, Ended(s))
          /\ context' = [context EXCEPT ![i] = NoContext]
          /\ fired' = [fired EXCEPT ![i] = 0]
          /\ intent' = intent
          /\ base' = base /\ existing' = existing /\ late' = late
      BY <2>5 DEF ReportFinal, ReportExhausted, CancelRetry
    <3>2. CASE i = j
      <4>1. pc' = Ended(s)
        BY <2>4, <3>1, <3>2 DEF Stopped
      <4>2. \A t \in Strands : ~Active(t, j)'
        BY <2>1, <3>1, <3>2, <4>1 DEF Ended, Alone, Active, TypeOK
      <4> QED BY <2>z, <3>1, <3>2, <4>2, LastEnds DEF TypeOK
    <3>3. CASE i # j
      <4>1. \A t \in Strands : intent[t] = j /\ pc[t] # "idle" => pc'[t] = pc[t]
        BY <2>3, <3>1, <3>3, NoTimerAssumption DEF Stopped, Ended, HandleIsLive, TypeOK
      <4>2. \A t \in Strands : intent[t] = j /\ pc[t] = "idle" => pc'[t] = "idle"
        BY <2>3, <3>1, <3>3, NoTimerAssumption DEF Stopped, Ended, HandleIsLive, TypeOK
      <4> QED BY <2>2, <3>1, <3>3, <4>1, <4>2, Untouched DEF Active, TypeOK
    <3> QED BY <3>2, <3>3
  <2>6. CASE ReportTransient(s, i, first)
    <3>a. ReportTransient(s, i, first) /\ TakesContext(s, i, Count(i))
      BY <2>6 DEF ReportTransient
    <3>1. CASE i = j
      <4>1. Active(s, j)' /\ \A t \in Strands \ {s} : ~Active(t, j)'
        BY <2>1, <3>a, <3>1 DEF TakesContext, Alone, Active, TypeOK
      <4>2. ~HalfWritten(i)
        BY <2>4, <3>1 DEF HalfWritten
      <4>3. /\ pc'[s] = "checking"
            /\ base'[s] = fired'[j]
            /\ context'[j] = [count |-> base'[s], timer |-> NoTimer]
            /\ existing'[s] = [count |-> base'[s], owner |-> NoTimer]
            /\ late'[j] = 0
        BY <2>4, <2>z, <3>a, <3>1, <4>2 DEF TakesContext, Count, TypeOK
      <4> QED BY <4>1, <4>3, OneActive DEF ContextAt
    <3>2. CASE i # j
      <4>1. /\ context'[j] = context[j] /\ fired'[j] = fired[j] /\ late'[j] = late[j]
            /\ \A t \in Strands : Active(t, j)' <=> Active(t, j)
            /\ \A t \in Strands : Active(t, j) =>
                   pc'[t] = pc[t] /\ base'[t] = base[t] /\ existing'[t] = existing[t]
        BY <2>3, <3>a, <3>2 DEF TakesContext, Active, TypeOK
      <4> QED BY <2>2, <4>1, Untouched
    <3> QED BY <3>1, <3>2
  <2>7. CASE ReportRateLimit(s, i, first)
    <3>1. CASE i = j
      <4>1. \A t \in Strands : ~Active(t, j)'
        BY <2>1, <2>7, <3>1 DEF ReportRateLimit, Ended, Alone, Active, TypeOK
      <4> QED BY <2>4, <2>z, <2>7, <3>1, <4>1, LastEnds DEF ReportRateLimit
    <3>2. CASE i # j
      BY <2>2, <2>3, <2>7, <3>2, Untouched DEF ReportRateLimit, Ended, Active, TypeOK
    <3> QED BY <3>1, <3>2
  <2> QED BY <1>1, <2>5, <2>6, <2>7 DEF Reports
<1>2. ASSUME NEW i \in Intents, StubExhausts(i) PROVE SerialAt(j)'
  <2>1. /\ serial[j]
        /\ i = j => \A s \in Strands : ~Active(s, j)
    BY <1>2, Zenon DEF StubExhausts, TypeOK
  <2>2. SerialAt(j)
    BY <2>1, Zenon DEF SerialInv
  <2>3. CASE i = j
    <3>1. pc' = pc
      BY <1>2, <2>1, <2>2, <2>3 DEF StubExhausts, CancelRetry, Stopped, SerialAt
    <3>2. \A t \in Strands : ~Active(t, j)'
      BY <1>2, <2>1, <2>3, <3>1 DEF StubExhausts, Active
    <3> QED BY <1>2, <2>2, <2>3, <3>2, LastEnds DEF SerialAt, StubExhausts, CancelRetry, TypeOK
  <2>4. CASE i # j
    <3>1. \A t \in Strands : intent[t] = j => pc'[t] = pc[t]
      BY <1>2, <2>4, NoTimerAssumption
         DEF StubExhausts, CancelRetry, Stopped, HandleIsLive, TypeOK
    <3> QED BY <1>2, <2>2, <2>4, <3>1, Untouched DEF StubExhausts, CancelRetry, Active, TypeOK
  <2> QED BY <2>3, <2>4
<1>3. ASSUME NEW s \in Strands,
             Approve(s) \/ Refuse(s) \/ Commit(s) \/ Fire(s) \/ Die(s) \/ Unheard(s)
      PROVE  SerialAt(j)'
  <2>1. serial' = serial /\ intent' = intent
    BY <1>3, Zenon DEF Approve, Refuse, Commit, StoresContext, Fire, Die, Unheard
  <2>2. serial[j]
    BY <2>1, Zenon
  <2>3. SerialAt(j)
    BY <2>2, Zenon DEF SerialInv
  <2>4. CASE intent[s] # j
    <3>1. /\ context'[j] = context[j]
          /\ fired'[j] = fired[j]
          /\ \A t \in Strands \ {s} : pc'[t] = pc[t] /\ base'[t] = base[t]
          /\ late'[j] = late[j]
      BY <1>3, <2>4 DEF Approve, Refuse, Commit, StoresContext, Fire, Die, Unheard, TypeOK
    <3>2. s # NoTimer /\ \A t \in Strands \ {s} :
              existing[t].owner = NoTimer => existing'[t] = existing[t]
      BY <1>3, NoTimerAssumption
         DEF Approve, Refuse, Commit, StoresContext, Fire, Die, Unheard, TypeOK
    <3> QED BY <2>1, <2>3, <2>4, <3>1, <3>2, Untouched DEF Active
  <2>5. CASE intent[s] = j
    <3>1. /\ Active(s, j)
          /\ context[j] = ContextAt(s)
          /\ base[s] = IF pc[s] = "armed" THEN fired[j] + 1 ELSE fired[j]
          /\ pc[s] \in {"checking", "committing"} =>
                 existing[s] = [count |-> base[s], owner |-> NoTimer]
          /\ pc[s] # "cleared"
          /\ \A t \in Strands \ {s} : ~Active(t, j)
      BY <1>3, <2>3, <2>5 DEF SerialAt, Active, Approve, Refuse, Checked, Commit,
         StoresContext, Fire, Die, Unheard
    <3>l. late'[j] = 0
      BY <1>3, <2>3 DEF SerialAt, Approve, Refuse, Commit, StoresContext, Fire, Die, Unheard
    <3>2. \A t \in Strands \ {s} : ~Active(t, j)'
      BY <1>3, <2>1, <3>1
         DEF Active, Approve, Refuse, Commit, StoresContext, Fire, Die, Unheard, TypeOK
    <3>3. CASE Approve(s)
      <4>1. Active(s, j)' /\ context'[j] = ContextAt(s)'
            /\ base'[s] = fired'[j] /\ pc'[s] = "committing"
            /\ existing'[s] = [count |-> base'[s], owner |-> NoTimer]
        BY <2>5, <3>1, <3>3 DEF Approve, Checked, Active, ContextAt, TypeOK
      <4> QED BY <3>2, <3>l, <4>1, OneActive
    <3>4. CASE Refuse(s) \/ Die(s) \/ Unheard(s)
      <4>1. pc'[s] = "idle" /\ context'[j] = [count |-> fired'[j], timer |-> NoTimer]
        BY <3>1, <3>4 DEF Refuse, Checked, Die, Unheard, ContextAt, TypeOK
      <4>2. ~Active(s, j)'
        BY <4>1 DEF Active
      <4> QED BY <3>2, <3>l, <4>1, <4>2, LastEnds
    <3>5. CASE Commit(s)
      <4>1. Active(s, j)' /\ context'[j] = ContextAt(s)'
            /\ base'[s] = fired'[j] + 1 /\ pc'[s] = "armed"
        BY <2>5, <3>1, <3>5 DEF Commit, StoresContext, Handle, Active, ContextAt, TypeOK
      <4> QED BY <3>2, <3>l, <4>1, OneActive
    <3>6. CASE Fire(s)
      <4>1. fired'[j] = fired[j] + 1
        BY <2>2, <2>5, <3>6 DEF Fire, TypeOK
      <4>2. Active(s, j)' /\ context'[j] = ContextAt(s)'
            /\ base'[s] = fired'[j] /\ pc'[s] = "running"
        BY <2>5, <3>1, <3>6, <4>1 DEF Fire, Active, ContextAt, TypeOK
      <4> QED BY <3>2, <3>l, <4>2, OneActive
    <3> QED BY <1>3, <3>3, <3>4, <3>5, <3>6
  <2> QED BY <2>4, <2>5
<1>4. ASSUME FreezeChanges \/ UNCHANGED vars PROVE SerialAt(j)'
  <2>1. /\ context' = context /\ pc' = pc /\ intent' = intent /\ base' = base
        /\ serial' = serial /\ fired' = fired /\ existing' = existing /\ late' = late
    BY <1>4, Zenon DEF FreezeChanges, vars
  <2>2. SerialAt(j)
    BY <2>1, Zenon DEF SerialInv
  <2> QED BY <2>1, <2>2, Untouched DEF Active
<1> QED
  <2>1. CASE \E s \in Strands, i \in Intents, first \in BOOLEAN : Reports(s, i, first)
    BY <2>1, <1>1, Zenon
  <2>2. CASE \E i \in Intents : StubExhausts(i)
    BY <2>2, <1>2
  <2>3. CASE \E s \in Strands :
                 Approve(s) \/ Refuse(s) \/ Commit(s) \/ Fire(s) \/ Die(s) \/ Unheard(s)
    BY <2>3, <1>3
  <2> QED BY <2>1, <2>2, <2>3, <1>4, Zenon DEF Next

(* What is known about a serial intent accounts for its chain.             *)
LEMMA SerialAccounts == TypeOK /\ BudgetInv /\ SerialInv => ChainIsAccounted
<1> SUFFICES ASSUME TypeOK, BudgetInv, SerialInv, NEW i \in Intents, serial[i]
             PROVE  /\ \A s \in Strands : Active(s, i) /\ pc[s] = "armed" =>
                           context[i].timer = s
                    /\ \A s \in Strands : Active(s, i) /\ pc[s] = "armed" =>
                           Count(i) = fired[i] + 1
                    /\ (\A s \in Strands : ~Active(s, i)) => Count(i) = fired[i]
                    /\ fired[i] <= MaxRetries
  BY Zenon DEF ChainIsAccounted
<1>1. SerialAt(i)
  BY Zenon DEF SerialInv
<1>2. ASSUME NEW s \in Strands, Active(s, i), pc[s] = "armed"
      PROVE  context[i].timer = s /\ Count(i) = fired[i] + 1
  <2>1. /\ context[i] = ContextAt(s)
        /\ base[s] = IF pc[s] = "armed" THEN fired[i] + 1 ELSE fired[i]
    BY <1>1, <1>2, Zenon DEF SerialAt
  <2> QED BY <1>2, <2>1 DEF ContextAt, Count
<1>3. (\A s \in Strands : ~Active(s, i)) => Count(i) = fired[i]
  BY <1>1 DEF SerialAt, Count
<1>4. fired[i] <= MaxRetries
  <2>1. CASE \A s \in Strands : ~Active(s, i)
    BY <1>1, <1>3, <2>1, RetryAssumption DEF SerialAt, BudgetInv, OverrunOnlyByLateReads
  <2>2. ASSUME NEW s \in Strands, Active(s, i) PROVE fired[i] <= MaxRetries
    <3>1. context[i] = ContextAt(s)
          /\ base[s] = IF pc[s] = "armed" THEN fired[i] + 1 ELSE fired[i]
      BY <1>1, <2>2 DEF SerialAt
    <3>2. Count(i) = base[s] /\ Count(i) <= MaxRetries
      BY <1>1, <3>1, RetryAssumption
         DEF SerialAt, ContextAt, Count, BudgetInv, OverrunOnlyByLateReads
    <3> QED BY <3>1, <3>2, RetryAssumption DEF TypeOK
  <2> QED BY <2>1, <2>2
<1> QED BY <1>2, <1>3, <1>4, Zenon

(* A chain that does not overlap is accounted for, whatever is refused,    *)
(* lost, cancelled or frozen on its way.                                   *)
THEOREM ChainAccounted == Spec => []ChainIsAccounted
<1>1. Init => TypeOK /\ BudgetInv /\ HandleIsLive /\ SerialInv
  <2> SUFFICES ASSUME Init PROVE TypeOK /\ BudgetInv /\ HandleIsLive /\ SerialInv
    OBVIOUS
  <2>1. BudgetInv /\ HandleIsLive
    BY BudgetInit DEF Init, HandleIsLive
  <2>2. SerialInv
    BY DEF Init, SerialInv, SerialAt, Active
  <2> QED BY <2>1, <2>2, TypeInit
<1> QED
  BY <1>1, TypeStep, BudgetStep, HandleStep, SerialStep, SerialAccounts, PTL DEF Spec

-----------------------------------------------------------------------------
(* The chains that do not overlap implement retries in a row.              *)

(* The stage of a serial intent is where its only strand is.               *)
LEMMA StageOfStrand ==
    ASSUME TypeOK, NEW i \in Intents, serial[i], NEW s \in Strands, Active(s, i),
           \A t \in Strands \ {s} : ~Active(t, i)
    PROVE  /\ pc[s] \in {"checking", "committing", "cleared"} => StageOf(i) = "handling"
           /\ pc[s] = "armed" => StageOf(i) = "pending"
           /\ pc[s] = "running" => StageOf(i) = "running"
<1>1. \A places : At(i, places) <=> pc[s] \in places
  BY DEF At
<1> QED
  BY <1>1 DEF StageOf

LEMMA StageOfRest ==
    ASSUME NEW i \in Intents, serial[i], \A s \in Strands : ~Active(s, i)
    PROVE  StageOf(i) = "none"
BY DEF StageOf, At

(* The stage of an intent only depends on its own strands.                 *)
LEMMA StageUntouched ==
    ASSUME NEW j \in Intents, serial'[j] = serial[j], fired'[j] = fired[j],
           \A t \in Strands : Active(t, j)' <=> Active(t, j),
           \A t \in Strands : Active(t, j) => pc'[t] = pc[t]
    PROVE  StageOf(j)' = StageOf(j) /\ Started[j]' = Started[j]
<1>1. \A places : At(j, places)' <=> At(j, places)
  BY DEF At
<1>2. Started[j]' = Started[j]
  BY DEF Started
<1> QED
  BY <1>1, <1>2 DEF StageOf

(* A step of one intent's strands leaves the stages of the others.         *)
OthersStay(i) ==
    \A j \in Intents \ {i} :
        /\ serial'[j] = serial[j] /\ fired'[j] = fired[j]
        /\ \A t \in Strands : Active(t, j)' <=> Active(t, j)
        /\ \A t \in Strands : Active(t, j) => pc'[t] = pc[t]

(* Such a step takes the chain of that intent to its new stage.            *)
LEMMA ChainBecomes ==
    ASSUME NEW i \in Intents, OthersStay(i)
    PROVE  Chains!Becomes(i, StageOf(i)', Started[i]')
<1>1. \A j \in Intents \ {i} : StageOf(j)' = StageOf(j) /\ Started[j]' = Started[j]
  BY StageUntouched DEF OthersStay
<1>2. Stages' = [Stages EXCEPT ![i] = StageOf(i)']
  BY <1>1 DEF Stages
<1>3. Started' = [Started EXCEPT ![i] = Started[i]']
  BY <1>1 DEF Started
<1> QED
  BY <1>2, <1>3 DEF Chains!Becomes

(* The chain does not move when its stage and its retries stay as well.    *)
LEMMA ChainRests ==
    ASSUME NEW i \in Intents, OthersStay(i),
           StageOf(i)' = StageOf(i), Started[i]' = Started[i]
    PROVE  UNCHANGED Chains!vars
<1>1. \A j \in Intents : StageOf(j)' = StageOf(j) /\ Started[j]' = Started[j]
  BY StageUntouched DEF OthersStay
<1> QED
  BY <1>1 DEF Chains!vars, Stages, Started

LEMMA StageValue ==
    ASSUME NEW i \in Intents
    PROVE  /\ Stages[i] = StageOf(i)
           /\ Started[i] = IF serial[i] THEN fired[i] ELSE 0
BY DEF Stages, Started

(* What is reported about an intent, or exhausted by a stub, while another *)
(* strand of it is active ends its being a chain.                          *)
LEMMA EntangleStep ==
    ASSUME TypeOK, NEW i \in Intents, OthersStay(i), ~serial'[i],
           NEW s \in Strands, Active(s, i)
    PROVE  Chains!Next \/ UNCHANGED Chains!vars
<1>1. StageOf(i)' = "mixed" /\ Started[i]' = 0
  BY DEF StageOf, Started
<1>2. CASE serial[i]
  <2>1. pc[s] \in {"checking", "committing", "cleared", "armed", "running"}
    BY DEF Active, TypeOK
  <2>2. StageOf(i) \in {"handling", "pending", "running"}
    <3>1. At(i, {"checking", "committing", "cleared"}) \/ At(i, {"armed"}) \/ At(i, {"running"})
      BY <2>1 DEF At
    <3> QED
      BY <1>2, <3>1 DEF StageOf
  <2> QED
    BY <1>1, <2>2, ChainBecomes, StageValue DEF Chains!Next, Chains!Entangle
<1>3. CASE ~serial[i]
  <2>1. StageOf(i) = "mixed" /\ Started[i] = 0
    BY <1>3 DEF StageOf, Started
  <2> QED
    BY <1>1, <2>1, ChainRests
<1> QED
  BY <1>2, <1>3

(* A report about i leaves the strands of the other intents alone.         *)
LEMMA ReportStays ==
    ASSUME TypeOK, HandleIsLive, NEW s \in Strands, NEW i \in Intents,
           NEW first \in BOOLEAN, Reports(s, i, first)
    PROVE  OthersStay(i)
<1>1. /\ serial' = [serial EXCEPT ![i] = @ /\ Alone(s, i)]
      /\ \/ pc[s] = "idle"
         \/ pc[s] = "running" /\ intent[s] = i
  BY Zenon DEF Reports, ReportFinal, ReportExhausted, ReportTransient, ReportRateLimit,
     Handles, Active
<1>2. \A j \in Intents \ {i} : serial'[j] = serial[j]
  BY <1>1, Zenon DEF TypeOK
<1>3. CASE ReportFinal(s, i, first) \/ ReportExhausted(s, i, first)
  <2>1. /\ pc' = Stopped(i, Ended(s))
        /\ fired' = [fired EXCEPT ![i] = 0]
        /\ intent' = intent
    BY <1>3 DEF ReportFinal, ReportExhausted, CancelRetry
  <2>2. \A t \in Strands : intent[t] # i /\ pc[t] # "idle" => pc'[t] = pc[t]
    BY <1>1, <2>1, NoTimerAssumption DEF Stopped, Ended, HandleIsLive, TypeOK
  <2>3. \A t \in Strands : intent[t] # i /\ pc[t] = "idle" => pc'[t] = "idle"
    BY <1>1, <2>1, NoTimerAssumption DEF Stopped, Ended, HandleIsLive, TypeOK
  <2> QED
    BY <1>2, <2>1, <2>2, <2>3 DEF OthersStay, Active, TypeOK
<1>4. CASE ReportTransient(s, i, first)
  BY <1>1, <1>2, <1>4 DEF ReportTransient, TakesContext, OthersStay, Active, TypeOK
<1>5. CASE ReportRateLimit(s, i, first)
  BY <1>1, <1>2, <1>5 DEF ReportRateLimit, Ended, OthersStay, Active, TypeOK
<1> QED
  BY <1>3, <1>4, <1>5 DEF Reports

LEMMA ReportStep ==
    ASSUME TypeOK, HandleIsLive, SerialInv, NEW s \in Strands, NEW i \in Intents,
           NEW first \in BOOLEAN, Reports(s, i, first)
    PROVE  Chains!Next \/ UNCHANGED Chains!vars
<1>1. OthersStay(i)
  BY ReportStays
<1>2. /\ serial'[i] = (serial[i] /\ Alone(s, i))
      /\ \/ pc[s] = "idle"
         \/ pc[s] = "running" /\ intent[s] = i
  BY Zenon DEF Reports, ReportFinal, ReportExhausted, ReportTransient, ReportRateLimit,
     Handles, Active, TypeOK
<1>3. CASE ~serial'[i]
  <2>1. CASE serial[i]
    <3>1. PICK t \in Strands : Active(t, i)
      BY <1>2, <1>3, <2>1 DEF Alone
    <3> QED
      BY <1>1, <1>3, <3>1, EntangleStep
  <2>2. CASE ~serial[i]
    <3>1. /\ StageOf(i) = "mixed" /\ Started[i] = 0
          /\ StageOf(i)' = "mixed" /\ Started[i]' = 0
      BY <1>3, <2>2 DEF StageOf, Started
    <3> QED
      BY <1>1, <3>1, ChainRests
  <2> QED
    BY <2>1, <2>2
<1>4. CASE serial'[i]
  <2>1. serial[i] /\ \A t \in Strands \ {s} : ~Active(t, i)
    BY <1>2, <1>4, Zenon DEF Alone
  <2>2. /\ StageOf(i) = IF Active(s, i) THEN "running" ELSE "none"
        /\ context[i] = [count |-> fired[i], timer |-> NoTimer]
    <3>1. CASE Active(s, i)
      <4>1. pc[s] = "running"
        BY <1>2, <3>1 DEF Active
      <4>2. context[i] = ContextAt(s) /\ base[s] = fired[i]
        BY <2>1, <3>1, <4>1 DEF SerialInv, SerialAt
      <4> QED
        BY <2>1, <3>1, <4>1, <4>2, StageOfStrand DEF ContextAt
    <3>2. CASE ~Active(s, i)
      <4>1. \A t \in Strands : ~Active(t, i)
        BY <2>1, <3>2
      <4> QED
        BY <2>1, <3>2, <4>1, StageOfRest DEF SerialInv, SerialAt
    <3> QED
      BY <3>1, <3>2
  <2>3. StageOf(i) \in {"none", "running"} /\ Started[i] = fired[i]
    BY <2>1, <2>2 DEF Started
  <2>4. Started[i]' = fired'[i]
    BY <1>4 DEF Started
  <2>5. Stages[i] = StageOf(i) /\ Chains!Becomes(i, StageOf(i)', fired'[i])
    BY <1>1, <2>4, ChainBecomes, StageValue
  <2>6. CASE ReportFinal(s, i, first) \/ ReportExhausted(s, i, first)
    <3>1. /\ pc' = Stopped(i, Ended(s))
          /\ fired' = [fired EXCEPT ![i] = 0] /\ intent' = intent
      BY <2>6 DEF ReportFinal, ReportExhausted, CancelRetry
    <3>2. pc' = Ended(s)
      BY <2>2, <3>1 DEF Stopped
    <3>3. \A t \in Strands : ~Active(t, i)'
      BY <2>1, <3>1, <3>2 DEF Ended, Active, TypeOK
    <3>4. StageOf(i)' = "none" /\ fired'[i] = 0
      BY <1>4, <3>1, <3>3 DEF StageOf, At, TypeOK
    <3> QED
      BY <2>3, <2>5, <3>4 DEF Chains!Next, Chains!End
  <2>7. CASE ReportTransient(s, i, first)
    <3>1. /\ pc'[s] = "checking" /\ intent'[s] = i
          /\ fired'[i] = fired[i]
          /\ fired[i] < MaxRetries
      BY <2>2, <2>7, RetryAssumption DEF ReportTransient, TakesContext, Exhausted, Count, TypeOK
    <3>2. At(i, {"checking", "committing", "cleared"})'
      BY <3>1 DEF At, Active
    <3>3. StageOf(i)' = "handling"
      <4>1. \A t \in Strands \ {s} : ~Active(t, i)'
        BY <2>1, <2>7 DEF ReportTransient, TakesContext, Active, TypeOK
      <4>2. ~At(i, {"armed"})' /\ ~At(i, {"running"})'
        BY <3>1, <4>1 DEF At
      <4> QED
        BY <1>4, <3>2, <4>2 DEF StageOf
    <3> QED
      BY <2>3, <2>5, <3>1, <3>3, StageValue DEF Chains!Next, Chains!Fail
  <2>8. CASE ReportRateLimit(s, i, first)
    <3>1. \A t \in Strands : ~Active(t, i)'
      BY <2>1, <2>8 DEF ReportRateLimit, Ended, Active, TypeOK
    <3>2. StageOf(i)' = "none" /\ fired'[i] = fired[i]
      BY <1>4, <2>8, <3>1 DEF ReportRateLimit, StageOf, At
    <3>3. CASE Active(s, i)
      BY <2>2, <2>3, <2>5, <3>2, <3>3, StageValue DEF Chains!Next, Chains!Drop
    <3>4. CASE ~Active(s, i)
      BY <1>1, <2>2, <2>3, <2>4, <3>2, <3>4, ChainRests
    <3> QED
      BY <3>3, <3>4
  <2> QED
    BY <2>6, <2>7, <2>8 DEF Reports
<1> QED
  BY <1>3, <1>4

LEMMA StubStep ==
    ASSUME TypeOK, HandleIsLive, SerialInv, NEW i \in Intents, StubExhausts(i)
    PROVE  Chains!Next \/ UNCHANGED Chains!vars
<1>1. /\ serial' = [serial EXCEPT ![i] = @ /\ \A s \in Strands : ~Active(s, i)]
      /\ intent' = intent
      /\ pc' = Stopped(i, pc)
      /\ fired' = [fired EXCEPT ![i] = 0]
  BY Zenon DEF StubExhausts, CancelRetry
<1>2. /\ \A j \in Intents \ {i} : serial'[j] = serial[j]
      /\ serial'[i] = (serial[i] /\ \A s \in Strands : ~Active(s, i))
  BY <1>1, Zenon DEF TypeOK
<1>3. OthersStay(i)
  <2>1. \A t \in Strands : intent[t] # i => pc'[t] = pc[t]
    BY <1>1, NoTimerAssumption DEF Stopped, HandleIsLive, TypeOK
  <2> QED
    BY <1>1, <1>2, <2>1 DEF OthersStay, Active, TypeOK
<1>4. CASE serial'[i]
  <2>1. serial[i] /\ \A s \in Strands : ~Active(s, i)
    BY <1>2, <1>4, Zenon
  <2>2. context[i].timer = NoTimer
    <3>1. SerialAt(i)
      BY <2>1, Zenon DEF SerialInv
    <3> QED
      BY <2>1, <3>1 DEF SerialAt
  <2>3. pc' = pc /\ \A s \in Strands : ~Active(s, i)'
    BY <1>1, <2>1, <2>2 DEF Stopped, Active
  <2>4. StageOf(i) = "none" /\ StageOf(i)' = "none" /\ Started[i]' = 0
    BY <1>1, <1>4, <2>1, <2>3 DEF StageOf, At, Started, TypeOK
  <2> QED
    BY <1>3, <2>4, ChainBecomes, StageValue DEF Chains!Next, Chains!End
<1>5. CASE ~serial'[i] /\ serial[i]
  <2>1. PICK t \in Strands : Active(t, i)
    BY <1>2, <1>5, Zenon
  <2> QED
    BY <1>3, <1>5, <2>1, EntangleStep
<1>6. CASE ~serial'[i] /\ ~serial[i]
  <2>1. /\ StageOf(i) = "mixed" /\ Started[i] = 0
        /\ StageOf(i)' = "mixed" /\ Started[i]' = 0
    BY <1>6 DEF StageOf, Started
  <2> QED
    BY <1>3, <2>1, ChainRests
<1> QED
  BY <1>4, <1>5, <1>6, Zenon

(* A strand takes its own chain one stage on.                              *)
LEMMA StrandStep ==
    ASSUME TypeOK, HandleIsLive, SerialInv, NEW s \in Strands, NEW i \in Intents,
           intent[s] = i,
           Approve(s) \/ Refuse(s) \/ Commit(s) \/ Fire(s) \/ Die(s) \/ Unheard(s)
    PROVE  Chains!Next \/ UNCHANGED Chains!vars
<1>1. Active(s, i)
  BY DEF TypeOK, Active, Approve, Refuse, Checked, Commit, StoresContext, Fire, Die, Unheard
<1>2. serial' = serial /\ intent' = intent
  BY Zenon DEF Approve, Refuse, Commit, StoresContext, Fire, Die, Unheard
<1>3. OthersStay(i)
  <2>1. \A t \in Strands \ {s} : pc'[t] = pc[t]
    BY DEF Approve, Refuse, Commit, StoresContext, Fire, Die, Unheard, TypeOK
  <2>2. \A j \in Intents \ {i} : fired'[j] = fired[j]
    BY DEF Approve, Refuse, Commit, StoresContext, Fire, Die, Unheard, TypeOK
  <2> QED
    BY <1>2, <2>1, <2>2 DEF OthersStay, Active
<1>4. CASE ~serial[i]
  <2>1. /\ StageOf(i) = "mixed" /\ Started[i] = 0
        /\ StageOf(i)' = "mixed" /\ Started[i]' = 0
    <3>1. ~serial'[i]
      BY <1>2, <1>4, Zenon
    <3> QED
      BY <1>4, <3>1 DEF StageOf, Started
  <2> QED
    BY <1>1, <1>3, <2>1, ChainRests
<1>5. CASE serial[i]
  <2>1. /\ \A t \in Strands \ {s} : ~Active(t, i)
        /\ pc[s] # "cleared"
    BY <1>1, <1>5 DEF SerialInv, SerialAt
  <2>2. serial'[i]
    BY <1>2, <1>5, Zenon
  <2>3. Started[i] = fired[i] /\ Started[i]' = fired'[i]
    BY <1>1, <1>5, <2>2 DEF Started
  <2>4. Stages[i] = StageOf(i) /\ Chains!Becomes(i, StageOf(i)', fired'[i])
    BY <1>1, <1>3, <2>3, ChainBecomes, StageValue
  <2>5. \A places : (At(i, places)' <=> Active(s, i)' /\ pc'[s] \in places)
    <3>1. \A t \in Strands \ {s} : ~Active(t, i)'
      BY <1>2, <2>1, <2>2 DEF Active, Approve, Refuse, Commit, StoresContext, Fire, Die,
         Unheard, TypeOK
    <3> QED
      BY <2>2, <3>1 DEF At
  <2>6. /\ pc[s] \in {"checking", "committing"} => StageOf(i) = "handling"
        /\ pc[s] = "armed" => StageOf(i) = "pending"
        /\ pc[s] = "running" => StageOf(i) = "running"
    BY <1>1, <1>5, <2>1, StageOfStrand
  <2>7. CASE Approve(s)
    <3>1. pc[s] = "checking" /\ pc'[s] = "committing" /\ fired' = fired
      BY <2>7 DEF Approve, Checked, TypeOK
    <3>2. StageOf(i)' = "handling"
      BY <1>1, <1>2, <2>2, <2>5, <3>1 DEF StageOf, Active
    <3> QED
      BY <1>1, <1>3, <2>3, <2>6, <3>1, <3>2, ChainRests
  <2>8. CASE Refuse(s) \/ Die(s) \/ Unheard(s)
    <3>1. pc[s] \in {"checking", "running"} /\ pc'[s] = "idle" /\ fired' = fired
      BY <2>8 DEF Refuse, Checked, Die, Unheard, TypeOK
    <3>2. StageOf(i)' = "none"
      BY <1>1, <2>2, <2>5, <3>1 DEF StageOf, Active
    <3> QED
      BY <1>1, <2>3, <2>4, <2>6, <3>1, <3>2 DEF Chains!Next, Chains!Drop
  <2>9. CASE Commit(s)
    <3>1. pc[s] = "committing" /\ pc'[s] = "armed" /\ fired' = fired
      BY <2>1, <2>9 DEF Commit, StoresContext, TypeOK
    <3>2. StageOf(i)' = "pending"
      BY <1>1, <1>2, <2>2, <2>5, <3>1 DEF StageOf, Active
    <3> QED
      BY <1>1, <2>3, <2>4, <2>6, <3>1, <3>2 DEF Chains!Next, Chains!Schedule
  <2>10. CASE Fire(s)
    <3>1. pc[s] = "armed" /\ pc'[s] = "running" /\ fired'[i] = fired[i] + 1
      BY <1>1, <1>5, <2>10 DEF Fire, TypeOK
    <3>2. StageOf(i)' = "running"
      BY <1>1, <1>2, <2>2, <2>5, <3>1 DEF StageOf, Active
    <3> QED
      BY <1>1, <2>3, <2>4, <2>6, <3>1, <3>2 DEF Chains!Next, Chains!Retry
  <2> QED
    BY <2>7, <2>8, <2>9, <2>10
<1> QED
  BY <1>4, <1>5

(* What the invariants know of the chains holds for ever.                  *)
LEMMA SerialHolds == Spec => [](TypeOK /\ HandleIsLive /\ SerialInv)
<1>1. Init => SerialInv
  BY DEF Init, SerialInv, SerialAt, Active
<1>2. Init => TypeOK /\ HandleIsLive
  BY TypeInit DEF Init, HandleIsLive
<1> QED
  BY <1>1, <1>2, TypeStep, HandleStep, SerialStep, PTL DEF Spec

(* Until something overlaps, the retries of an intent are a chain within   *)
(* the budget: each step of the FSM, the timers and the workers is a step  *)
(* of one chain or is not seen.                                            *)
THEOREM RetriesInARow == Spec => IsRetryChains
<1>1. Init => Chains!Init
  BY DEF Init, Chains!Init, Stages, Started, StageOf, At, Active
<1>2. TypeOK /\ HandleIsLive /\ SerialInv /\ [Next]_vars => [Chains!Next]_(Chains!vars)
  <2> SUFFICES ASSUME TypeOK, HandleIsLive, SerialInv, [Next]_vars
               PROVE  Chains!Next \/ UNCHANGED Chains!vars
    OBVIOUS
  <2>1. CASE \E s \in Strands, i \in Intents, first \in BOOLEAN : Reports(s, i, first)
    <3>1. PICK s \in Strands, i \in Intents, first \in BOOLEAN : Reports(s, i, first)
      BY <2>1, Zenon
    <3> QED BY <3>1, ReportStep
  <2>2. CASE \E i \in Intents : StubExhausts(i)
    BY <2>2, StubStep
  <2>3. CASE \E s \in Strands :
                 Approve(s) \/ Refuse(s) \/ Commit(s) \/ Fire(s) \/ Die(s) \/ Unheard(s)
    <3>1. PICK s \in Strands :
              Approve(s) \/ Refuse(s) \/ Commit(s) \/ Fire(s) \/ Die(s) \/ Unheard(s)
      BY <2>3
    <3>2. intent[s] \in Intents
      BY DEF TypeOK
    <3> QED BY <3>1, <3>2, StrandStep
  <2>4. CASE FreezeChanges \/ UNCHANGED vars
    <3>1. pc' = pc /\ intent' = intent /\ serial' = serial /\ fired' = fired
      BY <2>4, Zenon DEF FreezeChanges, vars
    <3>2. \A i \in Intents : StageOf(i)' = StageOf(i) /\ Started[i]' = Started[i]
      BY <3>1, StageUntouched, Zenon DEF Active
    <3> QED BY <3>2 DEF Chains!vars, Stages, Started
  <2> QED BY <2>1, <2>2, <2>3, <2>4, Zenon DEF Next
<1> QED
  BY <1>1, <1>2, SerialHolds, PTL DEF Spec, IsRetryChains, Chains!Spec

(* Cancelling does stop the retries of an intent that nothing overlaps:    *)
(* the promise of _cancelRetry is only broken by overlapping handlers.     *)
SerialCancelStops ==
    \A i \in Intents : serial[i] /\ context[i] = NoContext =>
        \A s \in Strands : ~(Active(s, i) /\ pc[s] = "armed")

(* A serial intent without a context has no timer that is pending.         *)
THEOREM SerialCancelStopsRetries == Spec => []SerialCancelStops
<1>1. TypeOK /\ SerialInv => SerialCancelStops
  <2> SUFFICES ASSUME SerialInv, NEW i \in Intents, serial[i], context[i] = NoContext,
                      NEW s \in Strands, Active(s, i), pc[s] = "armed"
               PROVE  FALSE
    BY Zenon DEF SerialCancelStops
  <2>1. SerialAt(i)
    BY Zenon DEF SerialInv
  <2>2. context[i].timer = s
    <3>1. context[i] = ContextAt(s)
      BY <2>1 DEF SerialAt
    <3> QED
      BY <3>1 DEF ContextAt
  <2> QED
    BY <2>2, NoTimerAssumption
<1> QED BY <1>1, SerialHolds, PTL
=============================================================================
