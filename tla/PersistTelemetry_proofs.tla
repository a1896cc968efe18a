----------------------- MODULE PersistTelemetry_proofs -----------------------
(***************************************************************************)
(* Proofs about the data plane: types, the exact read counter, the wedge   *)
(* of the writes, starvation, and the semaphore the reads implement.       *)
(***************************************************************************)
EXTENDS PersistTelemetry, FiniteSetTheorems, TLAPS

(* The types are kept by every step.                                       *)
LEMMA TypeStep == TypeOK /\ [Next]_vars => TypeOK'
<1> SUFFICES ASSUME TypeOK, [Next]_vars PROVE TypeOK'
  OBVIOUS
<1> USE DEF TypeOK, States
<1>1. CASE GlobalFlip
  BY <1>1, Zenon DEF GlobalFlip
<1>2. ASSUME NEW r \in Reads,
             AskRead(r) \/ GovernedRead(r) \/ RefuseRead(r) \/ DropRead(r)
               \/ FinishRead(r) \/ LoseRead(r)
      PROVE  TypeOK'
  BY <1>2 DEF AskRead, GovernedRead, RefuseRead, DropRead, FinishRead, LoseRead, ReadPhases
<1>3. ASSUME NEW r \in Reads, AcceptRead(r) \/ CompleteRead(r) PROVE TypeOK'
  BY <1>3 DEF AcceptRead, CompleteRead, ReadPhases
<1>4. ASSUME NEW w \in Writes,
             AskWrite(w) \/ RefuseWrite(w) \/ BeginWrite(w) \/ GateWrite(w)
               \/ FinishWrite(w) \/ FailWrite(w)
      PROVE  TypeOK'
  BY <1>4 DEF AskWrite, RefuseWrite, BeginWrite, GateWrite, FinishWrite, FailWrite, WritePhases
<1>5. CASE BedrockEmits
  BY <1>5 DEF BedrockEmits
<1>6. CASE CompleteWrite
  BY <1>6 DEF CompleteWrite
<1>7. CASE UNCHANGED vars
  BY <1>7, Zenon DEF vars
<1> QED
  BY <1>1, <1>2, <1>3, <1>4, <1>5, <1>6, <1>7, Zenon DEF Next

(* Every variable keeps its type.                                          *)
THEOREM TypeCorrect == Spec => []TypeOK
<1>1. Init => TypeOK
  BY DEF Init, TypeOK, States, ReadPhases, WritePhases
<1> QED
  BY <1>1, TypeStep, PTL DEF Spec

-----------------------------------------------------------------------------
(* A phase changes for one read only: the set of the reads in P gains it,  *)
(* loses it or stays.                                                      *)
LEMMA OneMoves ==
    ASSUME TypeOK, NEW r \in Reads, NEW p, read' = [read EXCEPT ![r] = p], NEW P
    PROVE  /\ InPhase(P)' = IF p \in P THEN InPhase(P) \cup {r} ELSE InPhase(P) \ {r}
           /\ r \in InPhase(P) <=> read[r] \in P
BY DEF TypeOK, InPhase

(* The sets of reads are finite.                                           *)
LEMMA PhaseFinite ==
    ASSUME NEW P
    PROVE  IsFiniteSet(InPhase(P)) /\ Cardinality(InPhase(P)) \in Nat
<1>1. InPhase(P) \in SUBSET Reads
  BY DEF InPhase
<1>2. IsFiniteSet(InPhase(P))
  BY <1>1, FS_Subset, PersistAssumption
<1> QED
  BY <1>2, FS_CardinalityType

(* A step that gives one read another phase moves the number of counted    *)
(* reads by what that read contributes.                                    *)
LEMMA CountMoves ==
    ASSUME TypeOK, NEW r \in Reads, NEW p, read' = [read EXCEPT ![r] = p], NEW P
    PROVE  /\ (read[r] \in P <=> p \in P)
                => Cardinality(InPhase(P)') = Cardinality(InPhase(P))
           /\ read[r] \notin P /\ p \in P
                => Cardinality(InPhase(P)') = Cardinality(InPhase(P)) + 1
           /\ read[r] \in P /\ p \notin P
                => Cardinality(InPhase(P)') = Cardinality(InPhase(P)) - 1
<1>1. IsFiniteSet(InPhase(P))
  BY PhaseFinite
<1>2. /\ Cardinality(InPhase(P) \cup {r}) =
             IF r \in InPhase(P) THEN Cardinality(InPhase(P)) ELSE Cardinality(InPhase(P)) + 1
      /\ Cardinality(InPhase(P) \ {r}) =
             IF r \in InPhase(P) THEN Cardinality(InPhase(P)) - 1 ELSE Cardinality(InPhase(P))
  BY <1>1, FS_AddElement, FS_RemoveElement, Zenon
<1>3. /\ InPhase(P)' = IF p \in P THEN InPhase(P) \cup {r} ELSE InPhase(P) \ {r}
      /\ r \in InPhase(P) <=> read[r] \in P
  BY OneMoves
<1> QED
  BY <1>2, <1>3

(* The read counter is exact after every step.                             *)
LEMMA AccountStep == TypeOK /\ ReadsAreAccounted /\ [Next]_vars => ReadsAreAccounted'
<1> SUFFICES ASSUME TypeOK, ReadsAreAccounted, [Next]_vars PROVE ReadsAreAccounted'
  OBVIOUS
<1> USE DEF ReadsAreAccounted
<1>n. Cardinality(InPhase(Counted)) \in Nat
  BY PhaseFinite
<1>1. CASE read' = read /\ readsInFlight' = readsInFlight
  BY <1>1 DEF InPhase
<1>2. ASSUME NEW r \in Reads,
             AskRead(r) \/ GovernedRead(r) \/ RefuseRead(r) \/ DropRead(r)
               \/ FinishRead(r) \/ LoseRead(r)
      PROVE  ReadsAreAccounted'
  <2>1. PICK p : /\ read' = [read EXCEPT ![r] = p]
                 /\ read[r] \in Counted <=> p \in Counted
    BY <1>2 DEF AskRead, GovernedRead, RefuseRead, DropRead, FinishRead, LoseRead,
       Counted, Serving, Leaked
  <2>2. readsInFlight' = readsInFlight
    BY <1>2 DEF AskRead, GovernedRead, RefuseRead, DropRead, FinishRead, LoseRead
  <2> QED BY <2>1, <2>2, CountMoves
<1>3. ASSUME NEW r \in Reads, AcceptRead(r) PROVE ReadsAreAccounted'
  <2> DEFINE p == IF readsInFlight' > ReadLimit THEN "starved" ELSE "executing"
  <2>1. read' = [read EXCEPT ![r] = p] /\ p \in Counted
    BY <1>3 DEF AcceptRead, Counted, Serving, Leaked
  <2>2. read[r] \notin Counted /\ readsInFlight' = readsInFlight + 1
    BY <1>3 DEF AcceptRead, Counted, Serving, Leaked
  <2> HIDE DEF p
  <2> QED BY <2>1, <2>2, CountMoves
<1>4. ASSUME NEW r \in Reads, CompleteRead(r) PROVE ReadsAreAccounted'
  <2> DEFINE p == IF read[r] = "done" THEN "answered" ELSE "failed"
  <2>1. read' = [read EXCEPT ![r] = p] /\ p \notin Counted
    BY <1>4 DEF CompleteRead, Counted, Serving, Leaked
  <2>2. read[r] \in Counted /\ readsInFlight' = readsInFlight - 1
    BY <1>4 DEF CompleteRead, Counted, Serving, Leaked
  <2> HIDE DEF p
  <2> QED BY <2>1, <2>2, CountMoves
<1>5. CASE GlobalFlip \/ BedrockEmits \/ CompleteWrite \/ UNCHANGED vars
  BY <1>5, <1>1 DEF GlobalFlip, BedrockEmits, CompleteWrite, vars
<1>6. ASSUME NEW w \in Writes,
             AskWrite(w) \/ RefuseWrite(w) \/ BeginWrite(w) \/ GateWrite(w)
               \/ FinishWrite(w) \/ FailWrite(w)
      PROVE  ReadsAreAccounted'
  BY <1>6, <1>1 DEF AskWrite, RefuseWrite, BeginWrite, GateWrite, FinishWrite, FailWrite
<1> QED
  BY <1>2, <1>3, <1>4, <1>5, <1>6, Zenon DEF Next

(* Initially nothing is counted.                                           *)
LEMMA AccountInit == Init => ReadsAreAccounted
<1> SUFFICES ASSUME Init PROVE ReadsAreAccounted
  OBVIOUS
<1>1. InPhase(Counted) = {}
  BY DEF Init, InPhase, Counted, Serving, Leaked
<1> QED
  BY <1>1, FS_EmptySet DEF Init, ReadsAreAccounted

(* The read counter is the number of the reads that execute, complete or   *)
(* leaked.                                                                 *)
THEOREM Accounted == Spec => []ReadsAreAccounted
<1>1. Init => TypeOK
  BY DEF Init, TypeOK, States, ReadPhases, WritePhases
<1> QED
  BY <1>1, AccountInit, TypeStep, AccountStep, PTL DEF Spec
-----------------------------------------------------------------------------
(* READ_EXECUTING is left when the last of the two counters reaches zero.  *)
LEMMA BusyStep == TypeOK /\ BusyIsCounted /\ [Next]_vars => BusyIsCounted'
<1> SUFFICES ASSUME TypeOK, BusyIsCounted, [Next]_vars PROVE BusyIsCounted'
  OBVIOUS
<1> USE DEF BusyIsCounted, TypeOK
<1>1. CASE state' = state /\ readsInFlight' = readsInFlight /\ inFlight' = inFlight
  BY <1>1
<1>2. ASSUME NEW r \in Reads,
             AskRead(r) \/ GovernedRead(r) \/ RefuseRead(r) \/ DropRead(r)
               \/ FinishRead(r) \/ LoseRead(r)
      PROVE  BusyIsCounted'
  BY <1>2, <1>1 DEF AskRead, GovernedRead, RefuseRead, DropRead, FinishRead, LoseRead
<1>3. ASSUME NEW r \in Reads, AcceptRead(r) \/ CompleteRead(r) PROVE BusyIsCounted'
  BY <1>3 DEF AcceptRead, CompleteRead
<1>4. ASSUME NEW w \in Writes, AskWrite(w) \/ RefuseWrite(w) \/ FinishWrite(w) \/ FailWrite(w)
      PROVE  BusyIsCounted'
  BY <1>4, <1>1 DEF AskWrite, RefuseWrite, FinishWrite, FailWrite
<1>5. ASSUME NEW w \in Writes, BeginWrite(w) \/ GateWrite(w) PROVE BusyIsCounted'
  BY <1>5 DEF BeginWrite, GateWrite
<1>6. CASE CompleteWrite
  BY <1>6 DEF CompleteWrite
<1>7. CASE GlobalFlip \/ BedrockEmits \/ UNCHANGED vars
  BY <1>7, <1>1 DEF GlobalFlip, BedrockEmits, vars
<1> QED
  BY <1>2, <1>3, <1>4, <1>5, <1>6, <1>7, Zenon DEF Next

(* The FSM says READ_EXECUTING only while something is counted.            *)
THEOREM Busy == Spec => []BusyIsCounted
<1>1. Init => TypeOK /\ BusyIsCounted
  BY DEF Init, TypeOK, States, ReadPhases, WritePhases, BusyIsCounted
<1> QED
  BY <1>1, TypeStep, BusyStep, PTL DEF Spec

-----------------------------------------------------------------------------
(* While a write is counted and the FSM says READ_EXECUTING, no completion *)
(* counts a write down; only an overflow of writes ends it.                *)
THEOREM Wedge == Spec => WedgeEndsByOverflow
<1> DEFINE Wedged == state = "READ_EXECUTING" /\ inFlight > 0
           Kept == /\ inFlight' >= inFlight
                   /\ state' \in {"READ_EXECUTING", "BACKPRESSURE"}
                   /\ state' = "BACKPRESSURE" => inFlight >= WriteLimit
<1>1. TypeOK /\ [Next]_vars => [Wedged => Kept]_vars
  <2> SUFFICES ASSUME TypeOK, [Next]_vars, Wedged PROVE Kept
    OBVIOUS
  <2> USE DEF TypeOK
  <2>1. CASE state' = state /\ inFlight' = inFlight
    BY <2>1
  <2>2. ASSUME NEW r \in Reads,
               AskRead(r) \/ GovernedRead(r) \/ RefuseRead(r) \/ DropRead(r)
                 \/ FinishRead(r) \/ LoseRead(r)
        PROVE  Kept
    BY <2>2, <2>1 DEF AskRead, GovernedRead, RefuseRead, DropRead, FinishRead, LoseRead
  <2>3. ASSUME NEW r \in Reads, AcceptRead(r) \/ CompleteRead(r) PROVE Kept
    BY <2>3 DEF AcceptRead, CompleteRead
  <2>4. ASSUME NEW w \in Writes,
               AskWrite(w) \/ RefuseWrite(w) \/ FinishWrite(w) \/ FailWrite(w)
        PROVE  Kept
    BY <2>4, <2>1 DEF AskWrite, RefuseWrite, FinishWrite, FailWrite
  <2>5. ASSUME NEW w \in Writes, BeginWrite(w) \/ GateWrite(w) PROVE Kept
    BY <2>5, PersistAssumption DEF BeginWrite, GateWrite
  <2>6. CASE CompleteWrite
    BY <2>6 DEF CompleteWrite
  <2>7. CASE GlobalFlip \/ BedrockEmits \/ UNCHANGED vars
    BY <2>7, <2>1 DEF GlobalFlip, BedrockEmits, vars
  <2> QED
    BY <2>2, <2>3, <2>4, <2>5, <2>6, <2>7, Zenon DEF Next
<1>2. Spec => []TypeOK /\ [][Next]_vars
  BY TypeCorrect DEF Spec
<1> QED
  BY <1>1, <1>2, PTL DEF WedgeEndsByOverflow

-----------------------------------------------------------------------------
(* Leaked permits never come back: with the limit leaked, every read that  *)
(* is accepted starves.                                                    *)
THEOREM Starvation == Spec => StarvationIsForever
<1> DEFINE Full == Cardinality(InPhase(Leaked)) >= ReadLimit
           NoneStarts == \A r \in Reads : read'[r] = "executing" => read[r] = "executing"
<1>1. TypeOK /\ ReadsAreAccounted /\ [Next]_vars => [Full => NoneStarts]_vars
  <2> SUFFICES ASSUME TypeOK, ReadsAreAccounted, [Next]_vars, Full PROVE NoneStarts
    OBVIOUS
  <2>1. readsInFlight >= ReadLimit
    <3>1. InPhase(Leaked) \in SUBSET InPhase(Counted)
      BY DEF InPhase, Counted
    <3>2. Cardinality(InPhase(Leaked)) <= Cardinality(InPhase(Counted))
      BY <3>1, PhaseFinite, FS_Subset
    <3> QED
      BY <3>2, PhaseFinite, PersistAssumption DEF ReadsAreAccounted
  <2>2. CASE read' = read
    BY <2>2
  <2>3. ASSUME NEW r \in Reads, AcceptRead(r) PROVE NoneStarts
    <3>1. readsInFlight' > ReadLimit
      BY <2>1, <2>3, PersistAssumption DEF AcceptRead, TypeOK
    <3>2. read' = [read EXCEPT ![r] = "starved"]
      BY <2>3, <3>1 DEF AcceptRead
    <3> QED BY <3>2 DEF TypeOK
  <2>4. ASSUME NEW r \in Reads,
               AskRead(r) \/ GovernedRead(r) \/ RefuseRead(r) \/ DropRead(r)
                 \/ FinishRead(r) \/ LoseRead(r) \/ CompleteRead(r)
        PROVE  NoneStarts
    BY <2>4 DEF AskRead, GovernedRead, RefuseRead, DropRead, FinishRead, LoseRead,
       CompleteRead, TypeOK
  <2>5. ASSUME NEW w \in Writes,
               AskWrite(w) \/ RefuseWrite(w) \/ BeginWrite(w) \/ GateWrite(w)
                 \/ FinishWrite(w) \/ FailWrite(w)
        PROVE  NoneStarts
    BY <2>5, <2>2 DEF AskWrite, RefuseWrite, BeginWrite, GateWrite, FinishWrite, FailWrite
  <2>6. CASE GlobalFlip \/ BedrockEmits \/ CompleteWrite \/ UNCHANGED vars
    BY <2>6, <2>2 DEF GlobalFlip, BedrockEmits, CompleteWrite, vars
  <2> QED
    BY <2>3, <2>4, <2>5, <2>6, Zenon DEF Next
<1>2. Spec => []TypeOK /\ []ReadsAreAccounted /\ [][Next]_vars
  BY TypeCorrect, Accounted DEF Spec
<1> QED
  BY <1>1, <1>2, PTL DEF StarvationIsForever
-----------------------------------------------------------------------------
(* A read that changes phase leaves the other members of each set alone.   *)
LEMMA PhasesMove ==
    ASSUME TypeOK, NEW r \in Reads, NEW p, read' = [read EXCEPT ![r] = p]
    PROVE  /\ InPhase(Serving)' = IF p \in Serving THEN InPhase(Serving) \cup {r}
                                   ELSE InPhase(Serving) \ {r}
           /\ InPhase(Leaked)' = IF p \in Leaked THEN InPhase(Leaked) \cup {r}
                                  ELSE InPhase(Leaked) \ {r}
           /\ r \in InPhase(Serving) <=> read[r] \in Serving
           /\ r \in InPhase(Leaked) <=> read[r] \in Leaked
BY OneMoves

(* Every step of the data plane is a step of the semaphore, or a stutter.  *)
LEMMA SemaphoreStep ==
    TypeOK /\ [Next]_vars => [Semaphore!Next]_(Semaphore!permitVars)
<1> SUFFICES ASSUME TypeOK, [Next]_vars
             PROVE  [Semaphore!Next]_(Semaphore!permitVars)
  OBVIOUS
<1> USE DEF Semaphore!permitVars
<1>1. CASE read' = read /\ readsInFlight' = readsInFlight
  BY <1>1 DEF InPhase
<1>2. ASSUME NEW r \in Reads, AskRead(r) \/ GovernedRead(r) \/ RefuseRead(r) \/ FinishRead(r)
      PROVE  UNCHANGED Semaphore!permitVars
  <2>1. PICK p : /\ read' = [read EXCEPT ![r] = p]
                 /\ read[r] \in Serving <=> p \in Serving
                 /\ read[r] \notin Leaked /\ p \notin Leaked
    BY <1>2 DEF AskRead, GovernedRead, RefuseRead, FinishRead, Serving, Leaked
  <2>2. readsInFlight' = readsInFlight
    BY <1>2 DEF AskRead, GovernedRead, RefuseRead, FinishRead
  <2>3. /\ r \in InPhase(Serving) <=> p \in Serving
        /\ r \notin InPhase(Leaked)
    BY <2>1 DEF InPhase
  <2>4. InPhase(Serving)' = InPhase(Serving)
    <3>1. InPhase(Serving)' = IF p \in Serving THEN InPhase(Serving) \cup {r}
                              ELSE InPhase(Serving) \ {r}
      BY <2>1, PhasesMove
    <3> QED BY <2>3, <3>1
  <2>5. InPhase(Leaked)' = InPhase(Leaked)
    <3>1. InPhase(Leaked)' = InPhase(Leaked) \ {r}
      BY <2>1, PhasesMove
    <3> QED BY <2>3, <3>1
  <2> QED BY <2>2, <2>4, <2>5
<1>3. ASSUME NEW r \in Reads, DropRead(r) \/ LoseRead(r) PROVE Semaphore!Lose(r)
  <2>1. PICK p : /\ read' = [read EXCEPT ![r] = p]
                 /\ read[r] \in Serving /\ p \in Leaked /\ p \notin Serving
    BY <1>3 DEF DropRead, LoseRead, Serving, Leaked
  <2>2. readsInFlight' = readsInFlight
    BY <1>3 DEF DropRead, LoseRead
  <2> QED BY <2>1, <2>2, PhasesMove DEF Semaphore!Lose
<1>4. ASSUME NEW r \in Reads, AcceptRead(r)
      PROVE  Semaphore!Take(r) \/ Semaphore!Starve(r)
  <2>1. read[r] \notin Serving /\ read[r] \notin Leaked
    BY <1>4 DEF AcceptRead, Serving, Leaked
  <2>2. CASE readsInFlight' > ReadLimit
    <3>1. read' = [read EXCEPT ![r] = "starved"]
      BY <1>4, <2>2 DEF AcceptRead
    <3>2. "starved" \in Leaked /\ "starved" \notin Serving
      BY DEF Leaked, Serving
    <3>3. readsInFlight >= ReadLimit /\ readsInFlight' = readsInFlight + 1
      BY <1>4, <2>2, PersistAssumption DEF AcceptRead, TypeOK
    <3>4. r \notin InPhase(Serving) /\ r \notin InPhase(Leaked)
      BY <2>1 DEF InPhase
    <3>5. /\ InPhase(Leaked)' = InPhase(Leaked) \cup {r}
          /\ InPhase(Serving)' = InPhase(Serving) \ {r}
      BY <3>1, <3>2, PhasesMove
    <3>6. InPhase(Serving) \ {r} = InPhase(Serving)
      BY <3>4
    <3> QED BY <3>3, <3>4, <3>5, <3>6 DEF Semaphore!Starve
  <2>3. CASE ~(readsInFlight' > ReadLimit)
    <3>1. read' = [read EXCEPT ![r] = "executing"]
      BY <1>4, <2>3 DEF AcceptRead
    <3>2. "executing" \in Serving /\ "executing" \notin Leaked
      BY DEF Leaked, Serving
    <3>3. readsInFlight < ReadLimit /\ readsInFlight' = readsInFlight + 1
      BY <1>4, <2>3, PersistAssumption DEF AcceptRead, TypeOK
    <3>4. r \notin InPhase(Serving) /\ r \notin InPhase(Leaked)
      BY <2>1, <3>1, PhasesMove
    <3>5. /\ InPhase(Serving)' = InPhase(Serving) \cup {r}
          /\ InPhase(Leaked)' = InPhase(Leaked) \ {r}
      BY <3>1, <3>2, PhasesMove
    <3>6. InPhase(Leaked) \ {r} = InPhase(Leaked)
      BY <3>4
    <3> QED BY <3>3, <3>4, <3>5, <3>6 DEF Semaphore!Take
  <2> QED BY <2>2, <2>3
<1>5. ASSUME NEW r \in Reads, CompleteRead(r) PROVE Semaphore!Return(r)
  <2> DEFINE p == IF read[r] = "done" THEN "answered" ELSE "failed"
  <2>1. /\ read' = [read EXCEPT ![r] = p]
        /\ p \notin Serving /\ p \notin Leaked
        /\ read[r] \in Serving /\ read[r] \notin Leaked
    BY <1>5 DEF CompleteRead, Serving, Leaked
  <2>2. readsInFlight' = readsInFlight - 1
    BY <1>5 DEF CompleteRead
  <2> HIDE DEF p
  <2>3. r \in InPhase(Serving) /\ r \notin InPhase(Leaked)
    BY <2>1 DEF InPhase
  <2>4. /\ InPhase(Serving)' = InPhase(Serving) \ {r}
        /\ InPhase(Leaked)' = InPhase(Leaked) \ {r}
    BY <2>1, PhasesMove
  <2>5. InPhase(Leaked) \ {r} = InPhase(Leaked)
    BY <2>3
  <2> QED BY <2>2, <2>3, <2>4, <2>5 DEF Semaphore!Return
<1>6. ASSUME NEW w \in Writes,
             AskWrite(w) \/ RefuseWrite(w) \/ BeginWrite(w) \/ GateWrite(w)
               \/ FinishWrite(w) \/ FailWrite(w)
      PROVE  read' = read /\ readsInFlight' = readsInFlight
  BY <1>6 DEF AskWrite, RefuseWrite, BeginWrite, GateWrite, FinishWrite, FailWrite
<1>7. CASE GlobalFlip \/ BedrockEmits \/ CompleteWrite \/ UNCHANGED vars
  BY <1>7, <1>1 DEF GlobalFlip, BedrockEmits, CompleteWrite, vars
<1> QED
  BY <1>1, <1>2, <1>3, <1>4, <1>5, <1>6, <1>7, Zenon DEF Next, Semaphore!Next

(* The reads of persist-telemetry implement the semaphore that leaks.      *)
THEOREM Refinement == Spec => IsLeakySemaphore
<1>1. Init => Semaphore!Init
  BY DEF Init, Semaphore!Init, InPhase, Serving, Leaked
<1>2. Spec => []TypeOK /\ Init /\ [][Next]_vars
  BY TypeCorrect DEF Spec
<1> QED
  BY <1>1, <1>2, SemaphoreStep, PTL DEF IsLeakySemaphore, Semaphore!Spec

-----------------------------------------------------------------------------
(* The limit is kept from the database: however completions are delayed,   *)
(* no more than ReadLimit reads are with the orchestrator or on their way  *)
(* back.                                                                   *)
WithinLimit == Cardinality(InPhase(Serving)) <= ReadLimit

(* The reads in service are among the counted ones.                        *)
LEMMA ServingIsCounted ==
    ASSUME ReadsAreAccounted
    PROVE  Cardinality(InPhase(Serving)) <= readsInFlight
<1>1. InPhase(Serving) \in SUBSET InPhase(Counted)
  BY DEF InPhase, Counted
<1> QED
  BY <1>1, PhaseFinite, FS_Subset DEF ReadsAreAccounted

LEMMA LimitStep == TypeOK /\ ReadsAreAccounted /\ WithinLimit /\ [Next]_vars => WithinLimit'
<1> SUFFICES ASSUME TypeOK, ReadsAreAccounted, WithinLimit, [Next]_vars PROVE WithinLimit'
  OBVIOUS
<1> USE PersistAssumption DEF WithinLimit
<1>n. Cardinality(InPhase(Serving)) \in Nat
  BY PhaseFinite
<1>1. CASE read' = read
  BY <1>1 DEF InPhase
<1>2. ASSUME NEW r \in Reads, AcceptRead(r) PROVE WithinLimit'
  <2>1. CASE readsInFlight + 1 > ReadLimit
    <3>1. read' = [read EXCEPT ![r] = "starved"] /\ read[r] = "asked"
      BY <1>2, <2>1 DEF AcceptRead
    <3>2. read[r] \notin Serving /\ "starved" \notin Serving
      BY <3>1 DEF Serving
    <3>3. Cardinality(InPhase(Serving)') = Cardinality(InPhase(Serving))
      BY <3>1, <3>2, CountMoves
    <3> QED BY <3>3
  <2>2. CASE ~(readsInFlight + 1 > ReadLimit)
    <3>1. read' = [read EXCEPT ![r] = "executing"] /\ read[r] = "asked"
      BY <1>2, <2>2 DEF AcceptRead
    <3>2. Cardinality(InPhase(Serving)') = Cardinality(InPhase(Serving)) + 1
      BY <3>1, CountMoves DEF Serving
    <3> QED BY <1>n, <2>2, <3>2, ServingIsCounted DEF TypeOK
  <2> QED BY <2>1, <2>2
<1>3. ASSUME NEW r \in Reads,
             AskRead(r) \/ GovernedRead(r) \/ RefuseRead(r) \/ DropRead(r)
               \/ FinishRead(r) \/ LoseRead(r) \/ CompleteRead(r)
      PROVE  WithinLimit'
  <2>1. PICK p : read' = [read EXCEPT ![r] = p] /\ (p \in Serving => read[r] \in Serving)
    BY <1>3 DEF AskRead, GovernedRead, RefuseRead, DropRead, FinishRead, LoseRead,
       CompleteRead, Serving
  <2>2. \/ Cardinality(InPhase(Serving)') = Cardinality(InPhase(Serving))
        \/ Cardinality(InPhase(Serving)') = Cardinality(InPhase(Serving)) - 1
    BY <2>1, CountMoves
  <2> QED BY <1>n, <2>2
<1>4. ASSUME NEW w \in Writes,
             AskWrite(w) \/ RefuseWrite(w) \/ BeginWrite(w) \/ GateWrite(w)
               \/ FinishWrite(w) \/ FailWrite(w)
      PROVE  WithinLimit'
  BY <1>4, <1>1 DEF AskWrite, RefuseWrite, BeginWrite, GateWrite, FinishWrite, FailWrite
<1>5. CASE GlobalFlip \/ BedrockEmits \/ CompleteWrite \/ UNCHANGED vars
  BY <1>5, <1>1 DEF GlobalFlip, BedrockEmits, CompleteWrite, vars
<1> QED
  BY <1>2, <1>3, <1>4, <1>5, Zenon DEF Next

(* Reads past the limit are counted, but the database never sees more than *)
(* the limit at a time.                                                    *)
THEOREM LimitIsKept == Spec => []WithinLimit
<1>1. Init => WithinLimit
  <2> SUFFICES ASSUME Init PROVE WithinLimit
    OBVIOUS
  <2>1. InPhase(Serving) = {}
    BY DEF Init, InPhase, Serving
  <2> QED BY <2>1, FS_EmptySet, PersistAssumption DEF WithinLimit
<1> QED
  BY <1>1, LimitStep, TypeCorrect, Accounted, PTL DEF Spec

(* The completion of a read is refused for one reason only, that the       *)
(* runtime is frozen: the guard on the counter, which would also refuse    *)
(* it, never does, because the read itself is still counted.               *)
LostOnlyWhenFrozen ==
    [][\A r \in Reads :
           read[r] \in {"done", "broken"} /\ read'[r] = "lost" => ~open]_vars

(* The guard on the counter never refuses the completion of a read.        *)
THEOREM LostWhenFrozen == Spec => LostOnlyWhenFrozen
<1> DEFINE Frozen ==
        \A r \in Reads : read[r] \in {"done", "broken"} /\ read'[r] = "lost" => ~open
<1>1. TypeOK /\ ReadsAreAccounted /\ [Next]_vars => [Frozen]_vars
  <2> SUFFICES ASSUME TypeOK, ReadsAreAccounted, Next,
                      NEW r \in Reads, read[r] \in {"done", "broken"}, read'[r] = "lost"
               PROVE  ~open
    BY DEF vars
  <2>1. LoseRead(r)
    <3>1. CASE \E s \in Reads :
                   AskRead(s) \/ GovernedRead(s) \/ RefuseRead(s) \/ AcceptRead(s)
                     \/ DropRead(s) \/ FinishRead(s) \/ LoseRead(s) \/ CompleteRead(s)
      BY <3>1 DEF AskRead, GovernedRead, RefuseRead, AcceptRead, DropRead, FinishRead,
         LoseRead, CompleteRead, TypeOK
    <3>2. CASE \E w \in Writes :
                   AskWrite(w) \/ RefuseWrite(w) \/ BeginWrite(w) \/ GateWrite(w)
                     \/ FinishWrite(w) \/ FailWrite(w)
      BY <3>2 DEF AskWrite, RefuseWrite, BeginWrite, GateWrite, FinishWrite, FailWrite
    <3>3. CASE GlobalFlip \/ BedrockEmits \/ CompleteWrite
      BY <3>3 DEF GlobalFlip, BedrockEmits, CompleteWrite
    <3> QED BY <3>1, <3>2, <3>3, Zenon DEF Next
  <2>2. Cardinality(InPhase(Counted)) # 0
    <3>1. r \in InPhase(Counted)
      BY DEF InPhase, Counted, Serving
    <3> QED BY <3>1, PhaseFinite, FS_EmptySet
  <2> QED BY <2>1, <2>2 DEF LoseRead, ReadsAreAccounted
<1>2. Spec => []TypeOK /\ []ReadsAreAccounted /\ [][Next]_vars
  BY TypeCorrect, Accounted DEF Spec
<1> QED
  BY <1>1, <1>2, PTL DEF LostOnlyWhenFrozen
=============================================================================
