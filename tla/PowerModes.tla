------------------------------ MODULE PowerModes ------------------------------
(***************************************************************************)
(* The power HAL's Power and PowerExt: modes and boosts that the framework *)
(* and vendor clients set, on the one binder thread the service has, with  *)
(* the InteractionHandler they share HintManager with; the death of the    *)
(* service, which keeps the properties its hints have set, and of the      *)
(* framework, upon which init clears them and restarts the service.        *)
(***************************************************************************)
EXTENDS InteractionHandler, FiniteSets

CONSTANTS
    ModeHints,      \* the modes of Power that are hints and no more
    ExtHints,       \* those of PowerExt, which have names of their own
    Restored        \* those whose hint sets a property read at start

ASSUME ModeConstants ==
    /\ Restored \subseteq ModeHints
    /\ ModeHints \cap ExtHints = {}
    /\ {"SUSTAINED_PERFORMANCE", "LOW_POWER"} \cap (ModeHints \cup ExtHints) = {}

VARIABLES
    hints,                  \* the modes whose hint HintManager has on
    mSustainedPerfModeOn, mBatterySaverOn,
    asked                   \* history: what the clients have asked for last

modes == <<hints, mSustainedPerfModeOn, mBatterySaverOn, asked>>
pvars == <<vars, modes>>
-----------------------------------------------------------------------------
AllModes == ModeHints \cup ExtHints \cup {"SUSTAINED_PERFORMANCE", "LOW_POWER"}
Suppressed == mSustainedPerfModeOn \/ mBatterySaverOn

\* endAllHints, then the hint of the mode. The handler is not told.
EndAllHints(on) ==
    /\ hints' = on
    /\ hint' = "off"

SetSustainedPerformance(enabled) ==
    /\ IF enabled THEN EndAllHints({"SUSTAINED_PERFORMANCE"})
       ELSE hints' = hints \ {"SUSTAINED_PERFORMANCE"} /\ UNCHANGED hint
    /\ mSustainedPerfModeOn' = enabled
    /\ asked' = [asked EXCEPT !["SUSTAINED_PERFORMANCE"] = enabled]
    /\ UNCHANGED <<handler, timed, screen, thread, exit, mBatterySaverOn>>

(* Mutant: what runs when the battery saver begins goes on. *)
SetLowPowerOnly(enabled) ==
    /\ hints' = IF enabled THEN hints \cup {"LOW_POWER"} ELSE hints \ {"LOW_POWER"}
    /\ mBatterySaverOn' = enabled
    /\ asked' = [asked EXCEPT !["LOW_POWER"] = enabled]
    /\ UNCHANGED <<handler, hint, timed, screen, thread, exit, mSustainedPerfModeOn>>

SetLowPower(enabled) ==
    /\ IF enabled THEN EndAllHints({"LOW_POWER"})
       ELSE hints' = hints \ {"LOW_POWER"} /\ UNCHANGED hint
    /\ mBatterySaverOn' = enabled
    /\ asked' = [asked EXCEPT !["LOW_POWER"] = enabled]
    /\ UNCHANGED <<handler, timed, screen, thread, exit, mSustainedPerfModeOn>>

\* The other modes are ignored, also when switched off, while one of the two is on.
SetMode(m, enabled) ==
    /\ hints' = IF Suppressed THEN hints
                ELSE IF enabled THEN hints \cup {m} ELSE hints \ {m}
    /\ asked' = [asked EXCEPT ![m] = enabled]
    /\ UNCHANGED <<vars, mSustainedPerfModeOn, mBatterySaverOn>>

\* PowerExt never ignores a mode.
ExtSetMode(m, enabled) ==
    /\ hints' = IF enabled THEN hints \cup {m} ELSE hints \ {m}
    /\ asked' = [asked EXCEPT ![m] = enabled]
    /\ UNCHANGED <<vars, mSustainedPerfModeOn, mBatterySaverOn>>

\* setBoost(INTERACTION). The other boosts are HintManager's alone.
SetInteractionBoost(r) ==
    /\ ~Suppressed
    /\ Acquire(r)
    /\ UNCHANGED modes

\* The constructor with what is left of the properties.
Started(on) ==
    /\ hints' = on
    /\ mSustainedPerfModeOn' = ("SUSTAINED_PERFORMANCE" \in on)
    /\ mBatterySaverOn' = FALSE
    /\ mDurationMs' = 0 /\ age' = kMaxDurationMs /\ mEventFd' = FALSE
    /\ hint' = "off" /\ timed' = 0
    /\ changed' = FALSE /\ quiet' = FALSE /\ timer' = 0 /\ timeout' = 0
    /\ \/ mState' = "IDLE" /\ pc' = "lock"
       \/ mState' = "UNINITIALIZED" /\ pc' = "none"
    /\ UNCHANGED <<display, exit>>

\* The framework does not notice, and does not set its modes again.
ServiceDies ==
    /\ Started(hints \cap (Restored \cup {"SUSTAINED_PERFORMANCE"}))
    /\ UNCHANGED asked

FrameworkDies ==
    /\ Started({})
    /\ asked' = [m \in AllModes |-> FALSE]
-----------------------------------------------------------------------------
ModesInit ==
    /\ Init
    /\ hints = {}
    /\ mSustainedPerfModeOn = FALSE /\ mBatterySaverOn = FALSE
    /\ asked = [m \in AllModes |-> FALSE]

ModesNext ==
    \/ \E b \in BOOLEAN :
          \/ SetSustainedPerformance(b) \/ SetLowPower(b)
          \/ \E m \in ModeHints : SetMode(m, b)
          \/ \E m \in ExtHints : ExtSetMode(m, b)
    \/ \E r \in Requests : SetInteractionBoost(r)
    \/ ServiceDies \/ FrameworkDies
    \/ (DispIdle \/ DisplayChanges \/ Tick \/ HintExpires) /\ UNCHANGED modes

ModesSpec == ModesInit /\ [][ModesNext]_pvars
-----------------------------------------------------------------------------
ModesTypeOK ==
    /\ TypeOK
    /\ hints \subseteq AllModes
    /\ {mSustainedPerfModeOn, mBatterySaverOn} \subseteq BOOLEAN
    /\ asked \in [AllModes -> BOOLEAN]

\* A mode that its client has switched off last is never left on, although the
\* call that switches it off may be ignored, and its hint may be set again by the
\* constructor of the next service.
NoStuckMode == \A m \in hints : asked[m]

\* endAllHints behind the handler's back, or a restart, never leaves a boost on
\* that no thread is going to end (only the handler's Exit does), and while the
\* battery saver or the sustained mode is on none is left or begun: neither by a
\* touch nor by the thread that waits for the end of the last one.
NoLeakedBoost == hint = "on" => /\ exit = "no" => mState \in Busy /\ pc # "none"
                                /\ ~Suppressed
=============================================================================
