----------------------------- MODULE ReadPermits -----------------------------
(***************************************************************************)
(* What the read side of persist-telemetry amounts to: a counting          *)
(* semaphore that leaks.  A client that finds the permits exhausted takes  *)
(* one all the same and is never served; a permit is given back by the     *)
(* client that is served with it, or never.                                *)
(***************************************************************************)
EXTENDS Naturals

CONSTANTS
    Clients,    \* who takes permits
    Permits     \* how many there are

VARIABLES
    used,       \* permits taken and not given back
    serving,    \* clients being served
    lost        \* clients whose permit will not come back

permitVars == <<used, serving, lost>>

Init == used = 0 /\ serving = {} /\ lost = {}

Take(c) ==
    /\ c \notin serving \cup lost /\ used < Permits
    /\ used' = used + 1
    /\ serving' = serving \cup {c}
    /\ UNCHANGED lost

Starve(c) ==
    /\ c \notin serving \cup lost /\ used >= Permits
    /\ used' = used + 1
    /\ lost' = lost \cup {c}
    /\ UNCHANGED serving

Return(c) ==
    /\ c \in serving
    /\ used' = used - 1
    /\ serving' = serving \ {c}
    /\ UNCHANGED lost

Lose(c) ==
    /\ c \in serving
    /\ serving' = serving \ {c}
    /\ lost' = lost \cup {c}
    /\ UNCHANGED used

Next == \E c \in Clients : Take(c) \/ Starve(c) \/ Return(c) \/ Lose(c)

Spec == Init /\ [][Next]_permitVars
=============================================================================
