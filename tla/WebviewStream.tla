---------------------------- MODULE WebviewStream ----------------------------
(***************************************************************************)
(* The WebView reactive membrane: the pump that XREADs the transitions the *)
(* WebView kernel adds to a Redis stream, has webview-fsm decide each of   *)
(* them, and adds a receipt to another stream.                             *)
(*                                                                         *)
(* The position in the stream is kept in memory only.  It starts as "$",   *)
(* which Redis takes for the end of the stream at the time of each XREAD;  *)
(* it becomes an entry's id when the first entry is taken.  Redis may be   *)
(* lost and come back at any time; after too many failed attempts in a row *)
(* the pump stops for good.  The process may crash; its bootstrap starts   *)
(* the pump again.  The verdict on an entry is a pure function of it and   *)
(* is left out.                                                            *)
(***************************************************************************)
EXTENDS Naturals, Sequences

CONSTANTS
    MaxEntries,     \* bound on the entries produced
    XREAD_COUNT,    \* entries per XREAD
    MAX_PUMP_ATTEMPTS

ASSUME WebviewAssumption ==
    /\ MaxEntries \in Nat
    /\ XREAD_COUNT \in Nat \ {0}
    /\ MAX_PUMP_ATTEMPTS \in Nat \ {0}

VARIABLES
    length,     \* entries in lineage:webview:transitions
    redis,      \* the client is ready
    running,    \* _running
    stopping,   \* _stopRequested
    pc,         \* where the loop is
    attempts,   \* _attemptCount
    cursor,     \* _lastStreamId; 0 stands for "$"
    from,       \* the entry the pending XREAD, or the batch, goes on after
    upto,       \* last entry of the batch
    receipts    \* lineage:webview:read-results

vars == <<length, redis, running, stopping, pc, attempts, cursor, from, upto, receipts>>

Init ==
    /\ length \in 0..MaxEntries
    /\ redis \in BOOLEAN
    /\ running = TRUE /\ stopping = FALSE
    /\ pc = "top"
    /\ attempts = 0
    /\ cursor = 0 /\ from = length /\ upto = length
    /\ receipts = << >>

-----------------------------------------------------------------------------
(* The WebView kernel adds a transition.                                   *)
Produce ==
    /\ length < MaxEntries
    /\ length' = length + 1
    /\ UNCHANGED <<redis, running, stopping, pc, attempts, cursor, from, upto, receipts>>

RedisFlip ==
    /\ redis' = ~redis
    /\ UNCHANGED <<length, running, stopping, pc, attempts, cursor, from, upto, receipts>>

(* The process dies at any point and comes back.                           *)
Crash ==
    /\ running' = TRUE /\ stopping' = FALSE
    /\ pc' = "top"
    /\ attempts' = 0
    /\ cursor' = 0
    /\ UNCHANGED <<length, redis, from, upto, receipts>>

(* start() while it runs is a no-op, also after stop() and before the loop *)
(* has noticed.                                                            *)
Start ==
    /\ ~running
    /\ running' = TRUE /\ stopping' = FALSE
    /\ pc' = "top"
    /\ attempts' = 0
    /\ UNCHANGED <<length, redis, cursor, from, upto, receipts>>

Stop ==
    /\ running /\ ~stopping
    /\ stopping' = TRUE
    /\ UNCHANGED <<length, redis, running, pc, attempts, cursor, from, upto, receipts>>

-----------------------------------------------------------------------------
Exit ==
    /\ pc = "top" /\ stopping
    /\ running' = FALSE
    /\ pc' = "off"
    /\ UNCHANGED <<length, redis, stopping, attempts, cursor, from, upto, receipts>>

(* The XREAD is sent: "$" is the end of the stream now.                    *)
Read ==
    /\ pc = "top" /\ ~stopping /\ redis
    /\ attempts' = attempts + 1
    /\ from' = IF cursor = 0 THEN length ELSE cursor
    /\ pc' = "blocked"
    /\ UNCHANGED <<length, redis, running, stopping, cursor, upto, receipts>>

(* An attempt that failed: the n-th in a row.                              *)
Failed(n) ==
    /\ attempts' = n
    /\ IF n >= MAX_PUMP_ATTEMPTS
       THEN pc' = "off" /\ running' = FALSE
       ELSE pc' = "backoff" /\ UNCHANGED running

(* Faulty variant of NotReady: one attempt too many.                       *)
NotReadyOnceMore ==
    /\ pc = "top" /\ ~stopping /\ ~redis
    /\ attempts' = attempts + 1
    /\ IF attempts' > MAX_PUMP_ATTEMPTS
       THEN pc' = "off" /\ running' = FALSE
       ELSE pc' = "backoff" /\ UNCHANGED running
    /\ UNCHANGED <<length, redis, stopping, cursor, from, upto, receipts>>

(* Redis is not ready.                                                     *)
NotReady ==
    /\ pc = "top" /\ ~stopping /\ ~redis
    /\ Failed(attempts + 1)
    /\ UNCHANGED <<length, redis, stopping, cursor, from, upto, receipts>>

(* XREAD rejects: the connection was lost.                                 *)
ReadFails ==
    /\ pc = "blocked" /\ ~redis
    /\ Failed(attempts)
    /\ UNCHANGED <<length, redis, stopping, cursor, from, upto, receipts>>

Backoff ==
    /\ pc = "backoff"
    /\ pc' = "top"
    /\ UNCHANGED <<length, redis, running, stopping, attempts, cursor, from, upto, receipts>>

(* Nothing was added within the BLOCK time.                                *)
ReadTimesOut ==
    /\ pc = "blocked" /\ redis /\ length = from
    /\ attempts' = 0
    /\ pc' = "top"
    /\ UNCHANGED <<length, redis, running, stopping, cursor, from, upto, receipts>>

(* Faulty variant of ReadReturns: it waits for a full batch.               *)
ReadReturnsFull ==
    /\ pc = "blocked" /\ redis /\ length >= from + XREAD_COUNT
    /\ attempts' = 0
    /\ upto' = from + XREAD_COUNT
    /\ pc' = "deciding"
    /\ UNCHANGED <<length, redis, running, stopping, cursor, from, receipts>>

ReadReturns ==
    /\ pc = "blocked" /\ redis /\ length > from
    /\ attempts' = 0
    /\ upto' = IF length > from + XREAD_COUNT THEN from + XREAD_COUNT ELSE length
    /\ pc' = "deciding"
    /\ UNCHANGED <<length, redis, running, stopping, cursor, from, receipts>>

(* The next entry of the batch: the position moves before it is decided.   *)
Decide ==
    /\ pc = "deciding"
    /\ from' = from + 1
    /\ cursor' = from + 1
    /\ pc' = "emitting"
    /\ UNCHANGED <<length, redis, running, stopping, attempts, upto, receipts>>

AfterReceipt == pc' = IF from < upto THEN "deciding" ELSE "top"

Emit ==
    /\ pc = "emitting" /\ redis
    /\ receipts' = Append(receipts, from)
    /\ AfterReceipt
    /\ UNCHANGED <<length, redis, running, stopping, attempts, cursor, from, upto>>

(* Faulty variant of EmitFails: the entry is decided again.                *)
EmitFailsRetrying ==
    /\ pc = "emitting" /\ ~redis
    /\ receipts' \in {receipts, Append(receipts, from)}
    /\ from' = from - 1
    /\ pc' = "deciding"
    /\ UNCHANGED <<length, redis, running, stopping, attempts, cursor, upto>>

(* The XADD fails, before or after Redis stored it; the entry is not       *)
(* decided again.                                                          *)
EmitFails ==
    /\ pc = "emitting" /\ ~redis
    /\ receipts' \in {receipts, Append(receipts, from)}
    /\ AfterReceipt
    /\ UNCHANGED <<length, redis, running, stopping, attempts, cursor, from, upto>>

Loop == \/ Exit \/ Read \/ NotReady \/ ReadFails \/ Backoff \/ ReadTimesOut \/ ReadReturns
        \/ Decide \/ Emit \/ EmitFails

Next == Produce \/ RedisFlip \/ Crash \/ Start \/ Stop \/ Loop

Spec == Init /\ [][Next]_vars

(* Timers fire and Redis answers or fails: the loop goes on.               *)
LiveSpec == Spec /\ WF_vars(Loop)

-----------------------------------------------------------------------------
(* Every variable has its type; the attempts never exceed their limit.     *)
TypeOK ==
    /\ length \in 0..MaxEntries
    /\ redis \in BOOLEAN /\ running \in BOOLEAN /\ stopping \in BOOLEAN
    /\ pc \in {"off", "top", "backoff", "blocked", "deciding", "emitting"}
    /\ running <=> pc # "off"
    /\ attempts \in 0..MAX_PUMP_ATTEMPTS
    /\ cursor \in 0..length /\ from \in 0..length /\ upto \in 0..length
    /\ receipts \in Seq(1..length)

(* The pump is a reader of the stream: whatever Redis, stop and start do,  *)
(* and over crashes, the receipts are for distinct entries in their order, *)
(* and once an entry is taken none is skipped until the process restarts.  *)
Reader == INSTANCE StreamReader WITH
    position <- from, fresh <- cursor = 0, taken <- pc = "emitting", answered <- receipts
IsStreamReader == Reader!Spec

(* A pump that has taken an entry takes every later one, as long as Redis  *)
(* is there and nobody stops it.                                           *)
CatchesUp ==
    \A e \in 1..MaxEntries :
        [](length >= e /\ [](cursor > 0 /\ redis /\ running /\ ~stopping) => <>(cursor >= e))
=============================================================================
