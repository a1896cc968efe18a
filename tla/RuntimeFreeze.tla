----------------------------- MODULE RuntimeFreeze -----------------------------
(***************************************************************************)
(* What the constitutional kernel promises to the domains: the runtime is  *)
(* open to all of them from the end of its boot on, but for freezes.  A    *)
(* freeze is lifted by an all-clear while it is a degradation; one that    *)
(* goes over into a recovery was given its time before, and runs its       *)
(* course.  Only a boot halts, and a halted runtime is only restarted by a *)
(* boot that still goes on.                                                *)
(***************************************************************************)
EXTENDS Naturals

CONSTANTS
    MinDegraded,    \* time a degradation gets before a recovery begins
    MinRecovery     \* time a recovery takes

VARIABLES
    mode,       \* starting, open, degraded, recovering or halted
    lasted,     \* how long the freeze has lasted
    booting     \* the boot is under way

freezeVars == <<mode, lasted, booting>>

Init == mode = "starting" /\ lasted = 0 /\ booting = TRUE

Open ==
    /\ mode = "starting" /\ booting
    /\ mode' = "open" /\ booting' = FALSE
    /\ UNCHANGED lasted

(* The boot ends without opening the runtime: it failed, or halted.        *)
Abandon ==
    /\ booting /\ booting' = FALSE
    /\ UNCHANGED <<mode, lasted>>

Freeze ==
    /\ mode = "open" /\ mode' = "degraded"
    /\ UNCHANGED <<lasted, booting>>

Thaw ==
    /\ mode = "degraded" /\ mode' = "open"
    /\ lasted' = 0
    /\ UNCHANGED booting

Last ==
    /\ mode \in {"degraded", "recovering"}
    /\ lasted' = lasted + 1
    /\ UNCHANGED <<mode, booting>>

(* The freeze lasts until within this step.                                *)
Recover ==
    /\ mode = "degraded" /\ mode' = "recovering"
    /\ lasted' \in {lasted, lasted + 1} /\ lasted' >= MinDegraded
    /\ UNCHANGED booting

Recovered ==
    /\ mode = "recovering" /\ mode' = "open"
    /\ lasted + 1 >= MinDegraded + MinRecovery
    /\ lasted' = 0
    /\ UNCHANGED booting

Halt ==
    /\ mode = "starting" /\ mode' = "halted"
    /\ UNCHANGED <<lasted, booting>>

Restart ==
    /\ mode = "halted" /\ booting /\ mode' = "starting"
    /\ UNCHANGED <<lasted, booting>>

Next == Open \/ Abandon \/ Freeze \/ Thaw \/ Last \/ Recover \/ Recovered \/ Halt \/ Restart

Spec == Init /\ [][Next]_freezeVars
=============================================================================
