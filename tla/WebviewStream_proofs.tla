------------------------- MODULE WebviewStream_proofs -------------------------
(***************************************************************************)
(* Proofs about the WebView pump: its types, the reader it implements, and *)
(* the order of its receipts.                                              *)
(***************************************************************************)
EXTENDS WebviewStream, SequenceTheorems, TLAPS

(* TypeOK in two parts: the flags with the loop's place, and the rest.     *)
Flags ==
    /\ redis \in BOOLEAN /\ running \in BOOLEAN /\ stopping \in BOOLEAN
    /\ pc \in {"off", "top", "backoff", "blocked", "deciding", "emitting"}
    /\ running <=> pc # "off"

Numbers ==
    /\ length \in 0..MaxEntries
    /\ attempts \in 0..MAX_PUMP_ATTEMPTS
    /\ cursor \in 0..length /\ from \in 0..length /\ upto \in 0..length
    /\ receipts \in Seq(1..length)

(* Where the pump is in the stream: the position is the last entry taken,  *)
(* the entry to answer or the next of the batch exists, and an attempt is  *)
(* left to whoever begins one.                                             *)
Position ==
    /\ cursor = 0 \/ cursor = from
    /\ pc = "emitting" => cursor # 0
    /\ pc = "deciding" => from < upto
    /\ pc \notin {"off", "blocked"} => attempts < MAX_PUMP_ATTEMPTS

IInv == Flags /\ Numbers /\ Position

(* The flags are kept by every step.                                       *)
LEMMA FlagsStep == Flags /\ [Next]_vars => Flags'
<1> SUFFICES ASSUME Flags, [Next]_vars PROVE Flags'
  OBVIOUS
<1> USE DEF Flags
<1>1. CASE Produce \/ RedisFlip \/ Stop
  <2>1. /\ UNCHANGED <<running, pc>>
        /\ redis' \in BOOLEAN /\ stopping' \in BOOLEAN
    BY <1>1, Zenon DEF Produce, RedisFlip, Stop
  <2> QED BY <2>1, Zenon
<1>2. CASE Crash \/ Start
  <2>1. running' /\ pc' = "top" /\ stopping' = FALSE /\ running' = TRUE
    BY <1>2, Zenon DEF Crash, Start
  <2>2. redis' \in BOOLEAN
    BY <1>2, Zenon DEF Crash, Start
  <2> QED BY <2>1, <2>2, Zenon
<1>3. CASE Exit
  BY <1>3, Zenon DEF Exit
<1>4. CASE Read \/ Backoff \/ ReadTimesOut \/ ReadReturns \/ Decide
  BY <1>4, Zenon DEF Read, Backoff, ReadTimesOut, ReadReturns, Decide
<1>5. CASE NotReady \/ ReadFails
  <2>1. PICK n : Failed(n)
    BY <1>5, Zenon DEF NotReady, ReadFails
  <2>2. pc # "off" /\ UNCHANGED <<redis, stopping>>
    BY <1>5, Zenon DEF NotReady, ReadFails
  <2> QED BY <2>1, <2>2, Zenon DEF Failed
<1>6. CASE Emit \/ EmitFails
  BY <1>6, Zenon DEF Emit, EmitFails, AfterReceipt
<1>7. CASE UNCHANGED vars
  BY <1>7, Zenon DEF vars
<1> QED
  BY <1>1, <1>2, <1>3, <1>4, <1>5, <1>6, <1>7, Zenon DEF Next, Loop

(* The numbers and the position are kept by every step.                    *)
LEMMA NumbersStep == IInv /\ [Next]_vars => Numbers' /\ Position'
<1> SUFFICES ASSUME IInv, [Next]_vars PROVE Numbers' /\ Position'
  OBVIOUS
<1> USE WebviewAssumption DEF IInv, Numbers, Position
<1>1. CASE Produce
  <2>1. receipts \in Seq(1..length')
    BY <1>1 DEF Produce
  <2> QED BY <1>1, <2>1 DEF Produce
<1>2. CASE RedisFlip \/ Stop
  BY <1>2 DEF RedisFlip, Stop
<1>3. CASE Crash
  BY <1>3 DEF Crash
<1>4. CASE Start
  BY <1>4 DEF Start
<1>5. CASE Exit \/ Backoff
  BY <1>5 DEF Exit, Backoff
<1>6. CASE ReadTimesOut
  BY <1>6 DEF ReadTimesOut
<1>7. CASE Read
  BY <1>7 DEF Read
<1>8. CASE NotReady \/ ReadFails
  BY <1>8 DEF NotReady, ReadFails, Failed
<1>9. CASE ReadReturns
  BY <1>9 DEF ReadReturns
<1>10. CASE Decide
  BY <1>10 DEF Decide
<1>11. CASE Emit \/ EmitFails
  <2>1. from \in 1..length
    BY <1>11 DEF Emit, EmitFails
  <2>2. Append(receipts, from) \in Seq(1..length)
    BY <2>1
  <2> QED BY <1>11, <2>2 DEF Emit, EmitFails, AfterReceipt
<1>12. CASE UNCHANGED vars
  BY <1>12 DEF vars
<1> QED
  BY <1>1, <1>2, <1>3, <1>4, <1>5, <1>6, <1>7, <1>8, <1>9, <1>10, <1>11, <1>12, Zenon
     DEF Next, Loop

(* Initially the pump is at the top of its loop, behind nothing.           *)
LEMMA InitIInv == Init => IInv
<1> SUFFICES ASSUME Init PROVE IInv
  OBVIOUS
<1>1. Flags
  BY Zenon DEF Init, Flags
<1>2. Numbers /\ Position
  BY WebviewAssumption DEF Init, Numbers, Position
<1> QED
  BY <1>1, <1>2 DEF IInv

(* The strengthened invariant.                                             *)
THEOREM Invariant == Spec => []IInv
<1>1. IInv /\ [Next]_vars => IInv'
  BY FlagsStep, NumbersStep DEF IInv
<1> QED
  BY <1>1, InitIInv, PTL DEF Spec

(* Every variable keeps its type, and the attempts stay within the limit.  *)
THEOREM TypeCorrect == Spec => []TypeOK
<1>1. IInv => TypeOK
  BY Zenon DEF IInv, Flags, Numbers, TypeOK
<1> QED
  BY <1>1, Invariant, PTL

-----------------------------------------------------------------------------
(* Every step of the pump is a step of the reader, or none.                *)
LEMMA ReaderStep == IInv /\ [Next]_vars => [Reader!Next]_(Reader!readerVars)
<1> SUFFICES ASSUME IInv, [Next]_vars PROVE [Reader!Next]_(Reader!readerVars)
  OBVIOUS
<1> USE DEF IInv, Position, Numbers, Reader!readerVars
<1>1. CASE Produce
  BY <1>1 DEF Produce, Reader!Next, Reader!Produce
<1>2. CASE RedisFlip \/ Stop
  BY <1>2 DEF RedisFlip, Stop
<1>3. CASE Crash
  BY <1>3 DEF Crash, Reader!Next, Reader!Restart
<1>4. CASE Start
  <2>1. pc # "emitting"
    BY <1>4 DEF Start, Flags
  <2> QED BY <1>4, <2>1 DEF Start
<1>5. CASE Exit \/ Backoff \/ ReadTimesOut \/ ReadReturns
  BY <1>5 DEF Exit, Backoff, ReadTimesOut, ReadReturns
<1>6. CASE Read
  <2>1. CASE cursor = 0
    BY <1>6, <2>1 DEF Read, Reader!Next, Reader!Jump
  <2>2. CASE cursor # 0
    BY <1>6, <2>2 DEF Read
  <2> QED BY <2>1, <2>2
<1>7. CASE NotReady \/ ReadFails
  BY <1>7 DEF NotReady, ReadFails, Failed
<1>8. CASE Decide
  BY <1>8 DEF Decide, Reader!Next, Reader!Take
<1>9. CASE Emit \/ EmitFails
  <2>1. pc' # "emitting" /\ UNCHANGED <<length, from, cursor>>
    BY <1>9 DEF Emit, EmitFails, AfterReceipt
  <2>2. receipts' = receipts \/ receipts' = Append(receipts, from)
    BY <1>9 DEF Emit, EmitFails
  <2>3. pc = "emitting"
    BY <1>9 DEF Emit, EmitFails
  <2> QED BY <2>1, <2>2, <2>3 DEF Reader!Next, Reader!Answer, Reader!Forfeit
<1>10. CASE UNCHANGED vars
  BY <1>10 DEF vars
<1> QED
  BY <1>1, <1>2, <1>3, <1>4, <1>5, <1>6, <1>7, <1>8, <1>9, <1>10, Zenon DEF Next, Loop

(* The pump implements the reader that skips nothing once it has begun.    *)
THEOREM Refinement == Spec => IsStreamReader
<1>1. Init => Reader!Init
  BY WebviewAssumption DEF Init, Reader!Init
<1> QED
  BY <1>1, Invariant, ReaderStep, PTL DEF Spec, IsStreamReader, Reader!Spec

-----------------------------------------------------------------------------
(* The receipts are for distinct entries, in the order of the stream: over *)
(* lost connections, stops and crashes no entry is answered twice.         *)
InOrder ==
    \A i, j \in 1..Len(receipts) : i < j => receipts[i] < receipts[j]

(* No receipt is ahead of the position, and the entry being answered has   *)
(* none yet.                                                               *)
Behind ==
    \A i \in 1..Len(receipts) :
        receipts[i] <= from /\ (pc = "emitting" => receipts[i] < from)

(* The order is kept: a receipt is added only for the entry being answered.*)
LEMMA OrderStep == IInv /\ InOrder /\ Behind /\ [Next]_vars => InOrder' /\ Behind'
<1> SUFFICES ASSUME IInv, InOrder, Behind, [Next]_vars PROVE InOrder' /\ Behind'
  OBVIOUS
<1> USE DEF IInv, Position, Numbers, InOrder, Behind
<1>1. ASSUME receipts' = receipts, from' = from, pc' = "emitting" => pc = "emitting"
      PROVE  InOrder' /\ Behind'
  BY <1>1
<1>2. CASE Read
  <2>1. from <= from' /\ receipts' = receipts /\ pc' # "emitting"
    BY <1>2 DEF Read
  <2>2. \A i \in 1..Len(receipts) : receipts[i] \in Nat
    OBVIOUS
  <2>3. from \in Nat /\ from' \in Nat
    BY <1>2, WebviewAssumption DEF Read
  <2> QED BY <2>1, <2>2, <2>3
<1>3. CASE Decide
  <2>1. from' = from + 1 /\ receipts' = receipts
    BY <1>3 DEF Decide
  <2>2. \A i \in 1..Len(receipts) : receipts[i] \in Nat
    OBVIOUS
  <2>3. from \in Nat
    BY WebviewAssumption
  <2> QED BY <2>1, <2>2, <2>3
<1>4. CASE Emit \/ EmitFails
  <2>1. pc = "emitting" /\ from' = from /\ pc' # "emitting"
    BY <1>4 DEF Emit, EmitFails, AfterReceipt
  <2>2. CASE receipts' = receipts
    BY <1>1, <2>1, <2>2
  <2>3. CASE receipts' = Append(receipts, from)
    <3>1. receipts \in Seq(Nat) /\ from \in Nat
      BY WebviewAssumption
    <3>2. /\ Len(receipts') = Len(receipts) + 1
          /\ receipts'[Len(receipts) + 1] = from
          /\ \A i \in 1..Len(receipts) : receipts'[i] = receipts[i]
      BY <2>3, <3>1
    <3>3. Len(receipts) \in Nat
      BY <3>1
    <3>4. \A i \in 1..Len(receipts') : i \in 1..Len(receipts) \/ i = Len(receipts) + 1
      BY <3>2, <3>3
    <3>5. \A i \in 1..Len(receipts) : receipts'[i] < from /\ receipts[i] \in Nat
      BY <2>1, <3>1, <3>2
    <3>6. InOrder'
      <4> SUFFICES ASSUME NEW i \in 1..Len(receipts'), NEW j \in 1..Len(receipts'), i < j
                   PROVE  receipts'[i] < receipts'[j]
        OBVIOUS
      <4>1. i \in 1..Len(receipts)
        BY <3>2, <3>3
      <4>2. CASE j \in 1..Len(receipts)
        BY <3>2, <4>1, <4>2
      <4>3. CASE j = Len(receipts) + 1
        BY <3>2, <3>5, <4>1, <4>3
      <4> QED BY <3>4, <4>2, <4>3
    <3>7. Behind'
      BY <2>1, <3>1, <3>2, <3>4, <3>5
    <3> QED BY <3>6, <3>7
  <2> QED BY <1>4, <2>2, <2>3 DEF Emit, EmitFails
<1>5. CASE Produce \/ RedisFlip \/ Crash \/ Start \/ Stop
  BY <1>5, <1>1 DEF Produce, RedisFlip, Crash, Start, Stop
<1>6. CASE Exit \/ NotReady \/ ReadFails \/ Backoff \/ ReadTimesOut \/ ReadReturns
  BY <1>6, <1>1 DEF Exit, NotReady, ReadFails, Failed, Backoff, ReadTimesOut, ReadReturns
<1>7. CASE UNCHANGED vars
  BY <1>7, <1>1 DEF vars
<1> QED
  BY <1>2, <1>3, <1>4, <1>5, <1>6, <1>7, Zenon DEF Next, Loop

(* No entry is answered twice or out of order.                             *)
THEOREM ReceiptsInOrder == Spec => []InOrder
<1>1. Init => InOrder /\ Behind
  BY DEF Init, InOrder, Behind
<1> QED
  BY <1>1, Invariant, OrderStep, PTL DEF Spec

-----------------------------------------------------------------------------
(* The pump is off for one of two reasons: somebody stopped it, or it used *)
(* up its attempts.  No error of Redis ends it before its last attempt.    *)
OffIsExplained ==
    ~running => stopping \/ attempts = MAX_PUMP_ATTEMPTS

(* The loop of the pump gives up for these reasons only.                   *)
LEMMA OffStep == IInv /\ OffIsExplained /\ [Next]_vars => OffIsExplained'
<1> SUFFICES ASSUME IInv, OffIsExplained, [Next]_vars, ~running'
             PROVE  stopping' \/ attempts' = MAX_PUMP_ATTEMPTS
  BY DEF OffIsExplained
<1>1. CASE Produce \/ RedisFlip
  BY <1>1 DEF Produce, RedisFlip, OffIsExplained
<1>2. CASE Crash \/ Start \/ Stop
  BY <1>2 DEF Crash, Start, Stop
<1>3. CASE Exit
  BY <1>3 DEF Exit
<1>4. CASE NotReady \/ ReadFails
  <2>1. PICK n \in 1..MAX_PUMP_ATTEMPTS : Failed(n)
    <3>1. CASE NotReady
      <4>1. attempts + 1 \in 1..MAX_PUMP_ATTEMPTS
        BY <3>1, WebviewAssumption DEF NotReady, IInv, Numbers, Position
      <4> QED BY <3>1, <4>1 DEF NotReady
    <3>2. CASE ReadFails
      <4>1. CASE attempts = 0
        <5>1. attempts' = 0 /\ running' = running
          BY <3>2, <4>1, WebviewAssumption DEF ReadFails, Failed
        <5>2. running
          BY <3>2, Zenon DEF ReadFails, IInv, Flags
        <5> QED BY <5>1, <5>2
      <4>2. CASE attempts # 0
        <5>1. attempts \in 1..MAX_PUMP_ATTEMPTS
          BY <4>2, WebviewAssumption DEF IInv, Numbers
        <5> QED BY <3>2, <5>1 DEF ReadFails
      <4> QED BY <4>1, <4>2
    <3> QED BY <1>4, <3>1, <3>2
  <2>2. running
    BY <1>4, Zenon DEF NotReady, ReadFails, IInv, Flags
  <2>3. attempts' = n /\ n >= MAX_PUMP_ATTEMPTS
    BY <2>1, <2>2, Zenon DEF Failed
  <2> QED BY <2>3, WebviewAssumption
<1>5. CASE Read \/ Backoff \/ ReadTimesOut \/ ReadReturns \/ Decide \/ Emit \/ EmitFails
  <2>1. running' = running /\ pc # "off"
    BY <1>5 DEF Read, Backoff, ReadTimesOut, ReadReturns, Decide, Emit, EmitFails
  <2> QED BY <2>1, Zenon DEF IInv, Flags
<1>6. CASE UNCHANGED vars
  BY <1>6 DEF vars, OffIsExplained
<1> QED
  BY <1>1, <1>2, <1>3, <1>4, <1>5, <1>6, Zenon DEF Next, Loop

(* A pump that nobody stopped goes on until its attempts are used up.      *)
THEOREM OffExplained == Spec => []OffIsExplained
<1>1. Init => OffIsExplained
  BY DEF Init, OffIsExplained
<1> QED
  BY <1>1, Invariant, OffStep, PTL DEF Spec
=============================================================================
