------------------------------ MODULE MetricLog ------------------------------
(***************************************************************************)
(* What the scheduling FSM promises to those who record and query metrics: *)
(* a write-behind log.  A record is accepted at once and stored later, in  *)
(* batches, exactly once; it is never dropped in between.  The kept answer *)
(* to a query shows stored records only, but may lag behind them.          *)
(***************************************************************************)
CONSTANTS
    Records,    \* what is recorded
    NoAnswer    \* no answer is kept

VARIABLES
    pending,    \* accepted and not stored
    stored,     \* in the store
    answer      \* the answer kept for the next query

logVars == <<pending, stored, answer>>

Init == pending = {} /\ stored = {} /\ answer = NoAnswer

Accept(r) ==
    /\ r \notin pending \cup stored
    /\ pending' = pending \cup {r}
    /\ UNCHANGED <<stored, answer>>

Store(batch) ==
    /\ pending' = pending \ batch
    /\ stored' = stored \cup batch
    /\ UNCHANGED answer

Keep(shown) ==
    /\ answer' = shown
    /\ UNCHANGED <<pending, stored>>

Forget ==
    /\ answer' = NoAnswer
    /\ UNCHANGED <<pending, stored>>

Next ==
    \/ \E r \in Records : Accept(r)
    \/ \E batch \in (SUBSET pending) \ {{}} : Store(batch)
    \/ \E shown \in SUBSET stored : Keep(shown)
    \/ Forget

Spec == Init /\ [][Next]_logVars
=============================================================================
