------------------------------ MODULE ModeSwitch ------------------------------
(***************************************************************************)
(* What the orchestrator promises its user, without goroutines: the system *)
(* is in one mode; a switch to another mode is made by one request at a    *)
(* time, and while it is under way the mode does not change again;         *)
(* background disk access begins to be throttled only in a settled Extreme *)
(* mode.  Orchestrator implements this specification.                      *)
(***************************************************************************)
VARIABLES
    mode,       \* the mode the user sees
    switching,  \* a mode function is changing the system
    throttled   \* background processes have reduced disk priority

vars == <<mode, switching, throttled>>

Modes == {"Extreme", "Balanced", "SafeDefault"}

TypeOK == mode \in Modes /\ switching \in BOOLEAN /\ throttled \in BOOLEAN

Init == mode = "SafeDefault" /\ switching = FALSE /\ throttled = FALSE

\* A request for another mode takes effect.
BeginSwitch ==
    /\ ~switching
    /\ mode' \in Modes \ {mode}
    /\ switching' = TRUE
    /\ UNCHANGED throttled

\* The new mode is in place.
EndSwitch ==
    /\ switching
    /\ switching' = FALSE
    /\ UNCHANGED <<mode, throttled>>

\* A game starts in Extreme mode.
Throttle ==
    /\ ~switching
    /\ mode = "Extreme"
    /\ throttled' = TRUE
    /\ UNCHANGED <<mode, switching>>

\* The game exits, or the mode that throttled is left or rolled back.
Release ==
    /\ throttled' = FALSE
    /\ UNCHANGED <<mode, switching>>

Next == BeginSwitch \/ EndSwitch \/ Throttle \/ Release

Spec == Init /\ [][Next]_vars

-----------------------------------------------------------------------------
(* The same across restarts of the program, as Lifecycle implements it *)

\* The program ends, maybe in the middle of a switch, and starts again in the
\* initial mode, whatever state the system is in: what is throttled stays so.
Restart ==
    /\ mode' = "SafeDefault"
    /\ switching' = FALSE
    /\ UNCHANGED throttled

RestartNext == Next \/ Restart

RestartingSpec == Init /\ [][RestartNext]_vars
===============================================================================
