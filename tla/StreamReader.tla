----------------------------- MODULE StreamReader -----------------------------
(***************************************************************************)
(* What the WebView pump promises to the producer of transitions: it takes *)
(* the entries of the stream one by one, in order, and answers an entry at *)
(* most once, before it takes the next.  A fresh reader may jump to the    *)
(* end of the stream; once it has taken an entry it skips none, until it   *)
(* is restarted.                                                           *)
(***************************************************************************)
EXTENDS Naturals, Sequences

VARIABLES
    length,     \* entries produced
    position,   \* the last entry taken or jumped over
    fresh,      \* nothing was taken since the last restart
    taken,      \* the entry at position waits for its answer
    answered    \* the entries answered, in order

readerVars == <<length, position, fresh, taken, answered>>

Init ==
    /\ length \in Nat
    /\ position = length
    /\ fresh = TRUE
    /\ taken = FALSE
    /\ answered = << >>

Produce ==
    /\ length' = length + 1
    /\ UNCHANGED <<position, fresh, taken, answered>>

Jump ==
    /\ fresh /\ ~taken
    /\ position' = length
    /\ UNCHANGED <<length, fresh, taken, answered>>

Take ==
    /\ ~taken /\ position < length
    /\ position' = position + 1
    /\ fresh' = FALSE
    /\ taken' = TRUE
    /\ UNCHANGED <<length, answered>>

Answer ==
    /\ taken
    /\ taken' = FALSE
    /\ answered' = Append(answered, position)
    /\ UNCHANGED <<length, position, fresh>>

Forfeit ==
    /\ taken
    /\ taken' = FALSE
    /\ UNCHANGED <<length, position, fresh, answered>>

Restart ==
    /\ fresh' = TRUE
    /\ taken' = FALSE
    /\ UNCHANGED <<length, position, answered>>

Next == Produce \/ Jump \/ Take \/ Answer \/ Forfeit \/ Restart

Spec == Init /\ [][Next]_readerVars
=============================================================================
