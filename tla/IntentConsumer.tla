--------------------------- MODULE IntentConsumer ---------------------------
(***************************************************************************)
(* What a telemetry coordination FSM promises the projection workers,      *)
(* whatever it awaits: their partition of the log has one reader, which    *)
(* takes up all that lies after its cursor, settles what it took before it *)
(* reads again, and takes an intent up anew only after it lost its cursor, *)
(* to an outage of the store or to a crash.                                *)
(***************************************************************************)
EXTENDS Naturals

CONSTANT Capacity       \* intents ever appended

VARIABLES
    size,       \* intents appended
    cursor,     \* the last one taken up in this pass
    stage,      \* of the reader: idle, reading, or read
    hand,       \* intents taken up and not yet settled
    settled,    \* how often each was settled
    losses      \* how often the cursor was lost

vars == <<size, cursor, stage, hand, settled, losses>>

Init ==
    /\ size = 0 /\ cursor = 0
    /\ stage = "idle" /\ hand = {}
    /\ settled = [i \in 1..Capacity |-> 0]
    /\ losses = 0

(* A worker appends an intent.                                             *)
Append ==
    /\ size < Capacity
    /\ size' = size + 1
    /\ UNCHANGED <<cursor, stage, hand, settled, losses>>

(* The reader asks for what follows its cursor.                            *)
Begin ==
    /\ stage = "idle"
    /\ stage' = "reading"
    /\ UNCHANGED <<size, cursor, hand, settled, losses>>

(* The answer is everything after the cursor.                              *)
Take ==
    /\ stage = "reading"
    /\ stage' = "read"
    /\ hand' = (cursor + 1)..size
    /\ cursor' = size
    /\ UNCHANGED <<size, settled, losses>>

(* The read fails.                                                         *)
Miss ==
    /\ stage = "reading"
    /\ stage' = "read"
    /\ UNCHANGED <<size, cursor, hand, settled, losses>>

(* The read meets an outage, which costs the cursor.                       *)
Lose ==
    /\ stage = "reading"
    /\ stage' = "read"
    /\ cursor' = 0
    /\ losses' = losses + 1
    /\ UNCHANGED <<size, hand, settled>>

(* Everything in the hand is settled, once.                                *)
Settle ==
    /\ stage = "read"
    /\ stage' = "idle"
    /\ settled' = [i \in 1..Capacity |-> IF i \in hand THEN settled[i] + 1 ELSE settled[i]]
    /\ hand' = {}
    /\ UNCHANGED <<size, cursor, losses>>

(* The reader crashes, and starts over.                                    *)
Crash ==
    /\ stage' = "idle" /\ hand' = {}
    /\ cursor' = 0
    /\ losses' = losses + 1
    /\ UNCHANGED <<size, settled>>

Next == Append \/ Begin \/ Take \/ Miss \/ Lose \/ Settle \/ Crash

Spec == Init /\ [][Next]_vars
=============================================================================
