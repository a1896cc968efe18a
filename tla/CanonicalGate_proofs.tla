------------------------ MODULE CanonicalGate_proofs ------------------------
(***************************************************************************)
(* Proofs about the canonical source gate, for any set of domains and any  *)
(* number of concurrent invocations.                                       *)
(***************************************************************************)
EXTENDS CanonicalGate, SequenceTheorems, TLAPS

(* A sequence without its last element is a sequence, with the same        *)
(* elements in the same places.                                            *)
LEMMA PopProperties ==
    ASSUME NEW S, NEW s \in Seq(S)
    PROVE  /\ Len(s) \in Nat
           /\ s = <<>> <=> Len(s) = 0
           /\ SubSeq(s, 1, Len(s) - 1) \in Seq(S)
           /\ s # <<>> => /\ Len(SubSeq(s, 1, Len(s) - 1)) = Len(s) - 1
                          /\ \A k \in 1..(Len(s) - 1) :
                                SubSeq(s, 1, Len(s) - 1)[k] = s[k]
<1>1. Len(s) \in Nat /\ (s = <<>> <=> Len(s) = 0)
  BY EmptySeq, LenProperties
<1>2. Len(s) - 1 \in Int /\ 1 \in Int
  BY <1>1
<1>3. \A k \in 1..(Len(s) - 1) : s[k] \in S
  BY <1>1, LenProperties
<1>4. /\ SubSeq(s, 1, Len(s) - 1) \in Seq(S)
      /\ Len(SubSeq(s, 1, Len(s) - 1)) = IF 1 <= Len(s) - 1 THEN Len(s) - 1 - 1 + 1 ELSE 0
      /\ \A k \in 1..(Len(s) - 1 - 1 + 1) : SubSeq(s, 1, Len(s) - 1)[k] = s[1 + k - 1]
  BY <1>2, <1>3, SubSeqProperties
<1>5. ASSUME s # <<>> PROVE Len(SubSeq(s, 1, Len(s) - 1)) = Len(s) - 1
  <2>1. Len(s) \in Nat \ {0}
    BY <1>1, <1>5
  <2>2. CASE Len(s) = 1
    <3>1. ~(1 <= Len(s) - 1) /\ Len(s) - 1 = 0
      BY <2>2
    <3> QED
      BY <1>4, <3>1
  <2>3. CASE Len(s) # 1
    <3>1. \A n \in Nat : n # 0 /\ n # 1 => 1 <= n - 1 /\ n - 1 - 1 + 1 = n - 1
      OBVIOUS
    <3>2. 1 <= Len(s) - 1 /\ Len(s) - 1 - 1 + 1 = Len(s) - 1
      BY <2>1, <2>3, <3>1
    <3> QED
      BY <1>4, <3>2, Zenon
  <2> QED
    BY <2>2, <2>3
<1>6. ASSUME NEW k \in 1..(Len(s) - 1) PROVE SubSeq(s, 1, Len(s) - 1)[k] = s[k]
  <2>1. k \in 1..(Len(s) - 1 - 1 + 1) /\ 1 + k - 1 = k
    BY <1>1, <1>6
  <2> QED
    BY <1>4, <2>1
<1> QED
  BY <1>1, <1>4, <1>5, <1>6

-----------------------------------------------------------------------------
(* Every variable keeps its type.                                          *)
THEOREM GateTypeCorrect == Spec => []TypeOK
<1>1. Init => TypeOK
  <2>1. <<>> \in Seq(Invocations)
    BY EmptySeq
  <2> QED
    BY <2>1, Zenon DEF Init, TypeOK, Contexts
<1>2. TypeOK /\ [Next]_vars => TypeOK'
  <2> SUFFICES ASSUME TypeOK, [Next]_vars
               PROVE  TypeOK'
    OBVIOUS
  <2> USE DEF TypeOK
  <2>1. ASSUME NEW d \in Domains, RegisterDomain(d) PROVE TypeOK'
    BY <2>1 DEF RegisterDomain
  <2>2. ASSUME NEW e \in Events, Deliver(e) PROVE TypeOK'
    <3>1. last' \in [event : Events, busy : BOOLEAN, nested : BOOLEAN]
      BY <2>2, Zenon DEF Deliver
    <3> QED
      BY <2>2, <3>1 DEF Deliver
  <2>3. ASSUME NEW i \in Invocations, Request(i) PROVE TypeOK'
    BY <2>3 DEF Request
  <2>4. ASSUME NEW i \in Invocations, Reject(i) PROVE TypeOK'
    BY <2>4 DEF Reject
  <2>5. ASSUME NEW i \in Invocations, Start(i) PROVE TypeOK'
    <3>1. Append(stack, i) \in Seq(Invocations)
      BY AppendProperties
    <3> QED
      BY <2>5, <3>1 DEF Start, Contexts
  <2>6. ASSUME NEW i \in Invocations, Finish(i) PROVE TypeOK'
    <3>1. stack' \in Seq(Invocations)
      BY <2>6, PopProperties, EmptySeq DEF Finish
    <3>2. nested' \in BOOLEAN
      BY <2>6, Zenon DEF Finish
    <3>3. pc' \in [Invocations -> {"idle", "checking", "running"}]
      BY <2>6 DEF Finish
    <3>4. ctx' \in Contexts /\ prev' \in [Invocations -> Contexts]
      BY <2>6 DEF Finish, Contexts
    <3> QED
      BY <2>6, <3>1, <3>2, <3>3, <3>4, Zenon DEF Finish
  <2>7. CASE UNCHANGED vars
    BY <2>7 DEF vars
  <2> QED
    BY <2>1, <2>2, <2>3, <2>4, <2>5, <2>6, <2>7 DEF Next
<1> QED
  BY <1>1, <1>2, PTL DEF Spec

-----------------------------------------------------------------------------
(* Starting an invocation pushes it on the stack of contexts.              *)
LEMMA NestStart ==
    ASSUME TypeOK, NestInv, NEW i \in Invocations, Start(i)
    PROVE  NestInv'
<1> SUFFICES ASSUME nested PROVE NestInv'
  BY DEF Start, NestInv
<1>1. /\ Len(stack) \in Nat /\ (stack = <<>> <=> Len(stack) = 0)
      /\ stack' = Append(stack, i)
      /\ stack' # <<>>
      /\ Len(stack') = Len(stack) + 1
      /\ \A k \in 1..Len(stack) : stack'[k] = stack[k] /\ stack[k] \in Invocations
      /\ stack'[Len(stack) + 1] = i
  BY AppendProperties, PopProperties, LenProperties DEF Start, TypeOK
<1>2. /\ pc[i] # "running"
      /\ \A j \in Invocations : pc'[j] = IF j = i THEN "running" ELSE pc[j]
      /\ \A j \in Invocations : prev'[j] = IF j = i THEN ctx ELSE prev[j]
      /\ ctx' = i
  BY DEF Start, TypeOK
<1>3. \A k \in 1..Len(stack) : stack[k] # i
  BY <1>1, <1>2 DEF NestInv
<1>4. ASSUME NEW j \in Invocations
      PROVE  pc'[j] = "running" <=> \E k \in 1..Len(stack') : stack'[k] = j
  <2>1. CASE j = i
    BY <1>1, <1>2, <2>1
  <2>2. CASE j # i
    <3>1. (\E k \in 1..Len(stack') : stack'[k] = j) <=> \E k \in 1..Len(stack) : stack[k] = j
      BY <1>1, <2>2
    <3> QED
      BY <1>2, <2>2, <3>1 DEF NestInv
  <2> QED
    BY <2>1, <2>2
<1>5. ASSUME NEW j \in 1..Len(stack'), NEW k \in 1..Len(stack'), stack'[j] = stack'[k]
      PROVE  j = k
  <2>1. CASE j = Len(stack) + 1 \/ k = Len(stack) + 1
    BY <1>1, <1>3, <1>5, <2>1
  <2>2. CASE j # Len(stack) + 1 /\ k # Len(stack) + 1
    <3>1. j \in 1..Len(stack) /\ k \in 1..Len(stack)
      BY <1>1, <2>2
    <3> QED
      BY <1>1, <1>5, <3>1 DEF NestInv
  <2> QED
    BY <2>1, <2>2
<1>6. ctx' = IF stack' = <<>> THEN NoContext ELSE Top'
  BY <1>1, <1>2 DEF Top
<1>7. ASSUME NEW k \in 1..Len(stack')
      PROVE  prev'[stack'[k]] = IF k = 1 THEN NoContext ELSE stack'[k - 1]
  <2>1. CASE k = Len(stack) + 1
    <3>1. prev'[stack'[k]] = ctx
      BY <1>1, <1>2, <2>1
    <3>2. CASE Len(stack) = 0
      BY <1>1, <2>1, <3>1, <3>2 DEF NestInv
    <3>3. CASE Len(stack) # 0
      <4>1. k # 1 /\ k - 1 = Len(stack) /\ Len(stack) \in 1..Len(stack)
        BY <1>1, <2>1, <3>3
      <4>2. ctx = stack[Len(stack)]
        BY <1>1, <3>3 DEF NestInv, Top
      <4> QED
        BY <1>1, <3>1, <4>1, <4>2
    <3> QED
      BY <3>2, <3>3
  <2>2. CASE k # Len(stack) + 1
    <3>1. k \in 1..Len(stack) /\ (k # 1 => k - 1 \in 1..Len(stack))
      BY <1>1, <2>2
    <3>2. prev'[stack'[k]] = prev[stack[k]]
      BY <1>1, <1>2, <1>3, <3>1
    <3>3. prev[stack[k]] = IF k = 1 THEN NoContext ELSE stack[k - 1]
      BY <3>1 DEF NestInv
    <3> QED
      BY <1>1, <3>1, <3>2, <3>3
  <2> QED
    BY <2>1, <2>2
<1> QED
  BY <1>4, <1>5, <1>6, <1>7 DEF NestInv

(* Ending the invocation on top pops it; any other end leaves the nesting. *)
LEMMA NestFinish ==
    ASSUME TypeOK, NestInv, NEW i \in Invocations, Finish(i)
    PROVE  NestInv'
<1> SUFFICES ASSUME nested' PROVE NestInv'
  BY DEF NestInv
<1>0. nested /\ Top = i
  BY Zenon DEF Finish
<1>1. /\ pc[i] = "running"
      /\ \A j \in Invocations : pc'[j] = IF j = i THEN "idle" ELSE pc[j]
      /\ \A j \in Invocations : prev'[j] = IF j = i THEN NoContext ELSE prev[j]
      /\ ctx' = prev[i]
  BY DEF Finish, TypeOK
<1>2. /\ Len(stack) \in Nat \ {0}
      /\ stack[Len(stack)] = i
      /\ \A k \in 1..Len(stack) : stack[k] \in Invocations
  <2>1. \E k \in 1..Len(stack) : stack[k] = i
    BY <1>0, <1>1 DEF NestInv
  <2> QED
    BY <1>0, <2>1, PopProperties, LenProperties DEF TypeOK, Top
<1>3. /\ Len(stack') = Len(stack) - 1
      /\ stack' = <<>> <=> Len(stack) = 1
      /\ \A k \in 1..(Len(stack) - 1) : stack'[k] = stack[k]
  <2>1. stack' = SubSeq(stack, 1, Len(stack) - 1)
    BY DEF Finish
  <2>2. stack # <<>>
    BY <1>2, PopProperties DEF TypeOK
  <2>3. stack' \in Seq(Invocations)
    BY <2>1, PopProperties DEF TypeOK
  <2>4. stack' = <<>> <=> Len(stack') = 0
    BY <2>3, PopProperties
  <2>5. /\ Len(stack') = Len(stack) - 1
        /\ \A k \in 1..(Len(stack) - 1) : stack'[k] = stack[k]
    BY <2>1, <2>2, PopProperties DEF TypeOK
  <2> QED
    BY <1>2, <2>4, <2>5
<1>4. \A k \in 1..(Len(stack) - 1) : stack[k] # i
  <2> SUFFICES ASSUME NEW k \in 1..(Len(stack) - 1) PROVE stack[k] # i
    OBVIOUS
  <2>1. k \in 1..Len(stack) /\ Len(stack) \in 1..Len(stack) /\ k # Len(stack)
    BY <1>2
  <2> QED
    BY <1>0, <1>2, <2>1 DEF NestInv
<1>5. ASSUME NEW j \in Invocations
      PROVE  pc'[j] = "running" <=> \E k \in 1..Len(stack') : stack'[k] = j
  <2>1. CASE j = i
    BY <1>1, <1>3, <1>4, <2>1
  <2>2. CASE j # i
    <3>1. (\E k \in 1..Len(stack') : stack'[k] = j) <=> \E k \in 1..Len(stack) : stack[k] = j
      BY <1>2, <1>3, <2>2
    <3> QED
      BY <1>0, <1>1, <2>2, <3>1 DEF NestInv
  <2> QED
    BY <2>1, <2>2
<1>6. ASSUME NEW j \in 1..Len(stack'), NEW k \in 1..Len(stack'), stack'[j] = stack'[k]
      PROVE  j = k
  <2>1. j \in 1..Len(stack) /\ k \in 1..Len(stack) /\ stack[j] = stack[k]
    BY <1>2, <1>3, <1>6
  <2> QED
    BY <1>0, <2>1 DEF NestInv
<1>7. ctx' = IF stack' = <<>> THEN NoContext ELSE Top'
  <2>1. prev[i] = IF Len(stack) = 1 THEN NoContext ELSE stack[Len(stack) - 1]
    <3>1. Len(stack) \in 1..Len(stack)
      BY <1>2
    <3>2. prev[stack[Len(stack)]]
            = IF Len(stack) = 1 THEN NoContext ELSE stack[Len(stack) - 1]
      BY <1>0, <3>1 DEF NestInv
    <3> QED
      BY <1>2, <3>2
  <2>2. Len(stack) # 1 => Top' = stack[Len(stack) - 1]
    BY <1>2, <1>3 DEF Top
  <2> QED
    BY <1>1, <1>3, <2>1, <2>2
<1>8. ASSUME NEW k \in 1..Len(stack')
      PROVE  prev'[stack'[k]] = IF k = 1 THEN NoContext ELSE stack'[k - 1]
  <2>1. k \in 1..(Len(stack) - 1) /\ k \in 1..Len(stack)
        /\ (k # 1 => k - 1 \in 1..(Len(stack) - 1))
    BY <1>2, <1>3
  <2>2. prev'[stack'[k]] = prev[stack[k]]
    BY <1>1, <1>2, <1>3, <1>4, <2>1
  <2>3. prev[stack[k]] = IF k = 1 THEN NoContext ELSE stack[k - 1]
    BY <1>0, <2>1 DEF NestInv
  <2> QED
    BY <1>3, <2>1, <2>2, <2>3
<1> QED
  BY <1>5, <1>6, <1>7, <1>8 DEF NestInv

(* While invocations nest, the gate is open exactly when a worker runs.    *)
THEOREM GateFollows == Spec => []GateFollowsWorkers
<1>1. Init => NestInv
  <2> SUFFICES ASSUME Init PROVE NestInv
    OBVIOUS
  <2>1. Len(stack) = 0 /\ stack = <<>> /\ ctx = NoContext
    BY EmptySeq DEF Init
  <2>2. \A i \in Invocations : pc[i] # "running"
    BY DEF Init
  <2> QED
    BY <2>1, <2>2 DEF NestInv
<1>2. TypeOK /\ NestInv /\ [Next]_vars => NestInv'
  <2> SUFFICES ASSUME TypeOK, NestInv, [Next]_vars
               PROVE  NestInv'
    OBVIOUS
  <2>1. ASSUME UNCHANGED <<ctx, prev, stack, nested>>,
               \A i \in Invocations : pc'[i] = "running" <=> pc[i] = "running"
        PROVE  NestInv'
    BY <2>1 DEF NestInv, Top
  <2>2. ASSUME NEW d \in Domains, RegisterDomain(d) PROVE NestInv'
    BY <2>1, <2>2 DEF RegisterDomain
  <2>3. ASSUME NEW e \in Events, Deliver(e) PROVE NestInv'
    BY <2>1, <2>3 DEF Deliver
  <2>4. ASSUME NEW i \in Invocations, Request(i) PROVE NestInv'
    BY <2>1, <2>4 DEF Request, TypeOK
  <2>5. ASSUME NEW i \in Invocations, Reject(i) PROVE NestInv'
    BY <2>1, <2>5 DEF Reject, TypeOK
  <2>6. CASE UNCHANGED vars
    BY <2>1, <2>6 DEF vars
  <2> QED
    BY <2>2, <2>3, <2>4, <2>5, <2>6, NestStart, NestFinish DEF Next
<1>3. TypeOK /\ NestInv => GateFollowsWorkers
  <2> SUFFICES ASSUME TypeOK, NestInv, nested
               PROVE  ctx # NoContext <=> Running # {}
    BY DEF GateFollowsWorkers
  <2>1. Len(stack) \in Nat /\ (stack = <<>> <=> Len(stack) = 0)
    BY PopProperties DEF TypeOK
  <2>2. CASE stack = <<>>
    BY <2>1, <2>2 DEF NestInv, Running
  <2>3. CASE stack # <<>>
    <3>1. Len(stack) \in 1..Len(stack)
      BY <2>1, <2>3
    <3>2. stack[Len(stack)] \in Invocations
      BY <3>1, LenProperties DEF TypeOK
    <3>3. stack[Len(stack)] \in Running
      BY <3>1, <3>2 DEF NestInv, Running
    <3>4. ctx = stack[Len(stack)]
      BY <2>3 DEF NestInv, Top
    <3> QED
      BY <3>2, <3>3, <3>4, GateAssumption
  <2> QED
    BY <2>2, <2>3
<1> QED
  BY <1>1, <1>2, <1>3, GateTypeCorrect, PTL DEF Spec

-----------------------------------------------------------------------------
(* Once open with no worker running, the gate never closes again: a stuck  *)
(* gate hands its stale context to every later invocation, none of which   *)
(* can restore an empty one.                                               *)
THEOREM StuckForever == Spec => StuckIsForever
<1>1. Running = {} /\ ctx # NoContext => GateIsStuck
  BY DEF GateIsStuck
<1>2. TypeOK /\ GateIsStuck /\ [Next]_vars => GateIsStuck'
  <2> SUFFICES ASSUME TypeOK, GateIsStuck, [Next]_vars
               PROVE  GateIsStuck'
    OBVIOUS
  <2> USE DEF GateIsStuck, Running
  <2>1. ASSUME NEW d \in Domains, RegisterDomain(d) PROVE GateIsStuck'
    BY <2>1 DEF RegisterDomain
  <2>2. ASSUME NEW e \in Events, Deliver(e) PROVE GateIsStuck'
    BY <2>2 DEF Deliver
  <2>3. ASSUME NEW i \in Invocations, Request(i) PROVE GateIsStuck'
    BY <2>3 DEF Request, TypeOK
  <2>4. ASSUME NEW i \in Invocations, Reject(i) PROVE GateIsStuck'
    BY <2>4 DEF Reject, TypeOK
  <2>5. ASSUME NEW i \in Invocations, Start(i) PROVE GateIsStuck'
    <3>1. ctx' = i /\ i # NoContext
      BY <2>5, GateAssumption DEF Start
    <3>2. ASSUME NEW j \in Invocations, pc'[j] = "running" PROVE prev'[j] # NoContext
      BY <2>5, <3>2 DEF Start, TypeOK
    <3> QED
      BY <3>1, <3>2
  <2>6. ASSUME NEW i \in Invocations, Finish(i) PROVE GateIsStuck'
    <3>1. ctx' # NoContext
      BY <2>6 DEF Finish
    <3>2. ASSUME NEW j \in Invocations, pc'[j] = "running" PROVE prev'[j] # NoContext
      BY <2>6, <3>2 DEF Finish, TypeOK
    <3> QED
      BY <3>1, <3>2
  <2>7. CASE UNCHANGED vars
    BY <2>7 DEF vars
  <2> QED
    BY <2>1, <2>2, <2>3, <2>4, <2>5, <2>6, <2>7 DEF Next
<1>3. GateIsStuck => ctx # NoContext
  BY DEF GateIsStuck
<1> QED
  BY <1>1, <1>2, <1>3, GateTypeCorrect, PTL DEF Spec, StuckIsForever

-----------------------------------------------------------------------------
(* Under the gate's invariant, what a step delivers is canonical.          *)
LEMMA CanonicalStep ==
    TypeOK /\ GateFollowsWorkers /\ DeliveredIsCanonical /\ [Next]_vars => DeliveredIsCanonical'
<1> SUFFICES ASSUME TypeOK, GateFollowsWorkers, DeliveredIsCanonical, [Next]_vars
             PROVE  DeliveredIsCanonical'
  OBVIOUS
<1>1. CASE UNCHANGED last
  BY <1>1, Zenon DEF DeliveredIsCanonical
<1>2. ASSUME NEW e \in Events, Deliver(e) PROVE DeliveredIsCanonical'
  <2>1. /\ last'.event = e
        /\ last'.busy = (Running # {})
        /\ last'.nested = nested
    BY <1>2 DEF Deliver
  <2>2. e.lineage \notin Strangers
    BY <1>2, GateAssumption DEF Deliver, Admits, TypeOK
  <2>3. e.lineage # NoLineage \/ e.internal \/ ctx # NoContext
    BY <1>2, Zenon DEF Deliver, Admits
  <2>4. ctx # NoContext => Running # {} \/ ~nested
    BY Zenon DEF GateFollowsWorkers
  <2> QED
    BY <2>1, <2>2, <2>3, <2>4, Zenon DEF DeliveredIsCanonical
<1>3. ASSUME NEW d \in Domains, RegisterDomain(d) PROVE UNCHANGED last
  BY <1>3, Zenon DEF RegisterDomain
<1>4. ASSUME NEW i \in Invocations, Request(i) \/ Reject(i) \/ Start(i) \/ Finish(i)
      PROVE  UNCHANGED last
  BY <1>4, Zenon DEF Request, Reject, Start, Finish
<1>5. CASE UNCHANGED vars
  BY <1>5, <1>1, Zenon DEF vars
<1> QED
  BY <1>1, <1>2, <1>3, <1>4, <1>5, Zenon DEF Next

(* Whatever the interleaving of the invocations, an event that reached its *)
(* FSM was vouched for, or came in while a worker ran or after the         *)
(* invocations had stopped nesting.                                        *)
THEOREM Canonical == Spec => []DeliveredIsCanonical
<1>1. Init => DeliveredIsCanonical
  BY GateAssumption DEF Init, DeliveredIsCanonical, Nothing
<1> QED
  BY <1>1, GateTypeCorrect, GateFollows, CanonicalStep, PTL DEF Spec
=============================================================================
