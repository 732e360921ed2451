----------------------------- MODULE MCPowerModes -----------------------------
(* Two systems in one run: the InteractionHandler by itself, which may be    *)
(* destroyed, and the power HAL with its modes and its crashes.              *)
EXTENDS PowerModes

VARIABLE part

MCRequests == {0, 2, -3}

MCInit ==
    \/ part = "handler" /\ Init /\ hints = {}
       /\ mSustainedPerfModeOn = FALSE /\ mBatterySaverOn = FALSE
       /\ asked = [m \in AllModes |-> FALSE]
    \/ part = "modes" /\ ModesInit

MCNext ==
    /\ UNCHANGED part
    /\ \/ part = "handler" /\ Next /\ UNCHANGED modes
       \/ part = "modes" /\ ModesNext

MCSpec == MCInit /\ [][MCNext]_<<pvars, part>> /\ Fairness

HandlerBoost == INSTANCE InteractionBoost
    WITH on    <- part = "handler" /\ hint # "off",
         left  <- IF part = "handler" THEN Left ELSE 0,
         quiet <- part = "handler" /\ quiet,
         open  <- part = "handler" /\ mState # "UNINITIALIZED",
         Lengths <- kMinDurationMs .. kMaxDurationMs

\* A boost is given for every touch, is not taken away before its time unless the
\* display was idle after it, and ends when the touches do (the handler by itself:
\* endAllHints takes it away at any time).
TouchesAreBoosted == HandlerBoost!Spec
=============================================================================
