--------------------------- MODULE InteractionBoost ---------------------------
(***************************************************************************)
(* What the power HAL promises about the INTERACTION boost: a touch is     *)
(* boosted for as long as it asked for, or until the display has been idle *)
(* after it; and the boost ends.                                           *)
(***************************************************************************)
EXTENDS Integers

CONSTANT Lengths       \* how long a boost may be asked for

VARIABLES
    on,        \* is the processor boosted?
    left,      \* how long the boost is still owed
    quiet,     \* was the display idle since the boost was last prolonged?
    open       \* does the handler run? without it nothing watches the display

vars == <<on, left, quiet, open>>
-----------------------------------------------------------------------------
Init == ~on /\ left = 0 /\ quiet \in BOOLEAN /\ open \in BOOLEAN

\* A touch that asks for more than is owed.
Prolong(d) ==
    /\ ~on \/ d > left
    /\ on' = TRUE
    /\ left' = d
    /\ quiet' \in BOOLEAN
    /\ UNCHANGED open

DisplayIsIdle ==
    /\ quiet' = TRUE
    /\ UNCHANGED <<on, left, open>>

Tick ==
    /\ left > 0
    /\ left' = left - 1
    /\ UNCHANGED <<on, quiet, open>>

\* Nothing is owed any more, or the display shows nothing new.
End ==
    /\ on
    /\ left = 0 \/ (open /\ quiet)
    /\ on' = FALSE
    /\ left' = 0
    /\ UNCHANGED <<quiet, open>>

\* The handler is destroyed: a boost that is on stays on.
Close ==
    /\ open
    /\ open' = FALSE
    /\ left' = 0
    /\ UNCHANGED <<on, quiet>>

Next == (\E d \in Lengths : Prolong(d)) \/ DisplayIsIdle \/ Tick \/ End \/ Close

Safety == Init /\ [][Next]_vars

\* A boost ends once nothing is owed, if nobody prolongs it.
Spec == Safety /\ WF_vars(open /\ left = 0 /\ End)
=============================================================================
