--------------------------- MODULE PowerModesProofs ---------------------------
(***************************************************************************)
(* What holds of InteractionHandler for any durations, any requests of the *)
(* framework and any width of an int: the waits are for the last touch,    *)
(* the hint follows the state, and every step is one of InteractionBoost.  *)
(* Then what holds of Power and PowerExt, whose requests share its hint,   *)
(* for any modes, any properties that outlive the service and any          *)
(* requests: no mode is stuck, and no boost is left on by endAllHints or   *)
(* by a restart.                                                           *)
(***************************************************************************)
EXTENDS PowerModes, TLAPS

(* The thread is where the state says: asleep when IDLE, in its wait when  *)
(* WAITING.                                                                *)
ThreadFollowsState ==
    /\ mState = "WAITING" => pc \in InWait
    /\ mState = "IDLE" => pc = "lock"

(* Only a handler without a thread leaves the end of a hint to HintManager. *)
HintIsOwned == mState # "UNINITIALIZED" =>
    /\ hint = IF mState \in Busy THEN "on" ELSE "off"
    /\ timed = 0

(* While a boost is owed, a display that is idle was seen to be.           *)
QuietIsRecorded == mState \in Busy => (display = "idle" => quiet)

(* What the thread knows in its second poll and after it: it never gives   *)
(* up before the time, unless the display was idle after the last touch.   *)
EndIsDue ==
    /\ (pc = "idle" /\ mState = "WAITING") =>
          /\ timer + age >= mDurationMs
          /\ IF changed THEN quiet ELSE display = "active"
    /\ (pc = "release" /\ mState = "WAITING") => quiet \/ age >= mDurationMs

Inv ==
    /\ TypeOK
    /\ ThreadFollowsState
    /\ WaitIsForLastTouch
    /\ HintIsOwned
    /\ QuietIsRecorded
    /\ EndIsDue
-----------------------------------------------------------------------------
(* Whatever the framework asks for, wrapped or not, a touch is boosted for *)
(* a time within the limits.                                               *)
LEMMA FinalDurationWithinLimits ==
    ASSUME NEW r \in Requests
    PROVE  FinalDuration(r) \in kMinDurationMs .. kMaxDurationMs
<1> DEFINE input == (r + kDurationOffsetMs) % Modulus
<1>1. r + kDurationOffsetMs \in Int /\ Modulus \in Nat \ {0}
  BY HandlerConstants
<1>2. input \in Int
  BY <1>1
<1> HIDE DEF input
<1>3. FinalDuration(r) = IF input > kMaxDurationMs THEN kMaxDurationMs
                         ELSE IF input > kMinDurationMs THEN input ELSE kMinDurationMs
  BY DEF FinalDuration, input
<1> QED
  BY <1>2, <1>3, HandlerConstants

LEMMA InitInv == Init => Inv
<1> SUFFICES ASSUME Init PROVE Inv
  OBVIOUS
<1>1. ~mEventFd /\ {mEventFd, changed, quiet} \subseteq BOOLEAN
  BY DEF Init
<1>2. /\ mState \in {"UNINITIALIZED", "IDLE"} /\ (mState = "IDLE" => pc = "lock")
      /\ pc \in {"none", "lock"}
  BY DEF Init
<1>3. TypeOK
  BY <1>1, <1>2, HandlerConstants DEF Init, TypeOK, Busy, InWait, Durations
<1>4. ThreadFollowsState /\ QuietIsRecorded /\ EndIsDue
  BY <1>2 DEF ThreadFollowsState, QuietIsRecorded, EndIsDue, Busy
<1>5. WaitIsForLastTouch /\ HintIsOwned
  BY <1>1, <1>2 DEF Init, WaitIsForLastTouch, HintIsOwned, Busy
<1> QED
  BY <1>3, <1>4, <1>5 DEF Inv

LEMMA AcquireInv ==
    ASSUME Inv, NEW r \in Requests, Acquire(r)
    PROVE  Inv'
<1> DEFINE d == FinalDuration(r)
<1>1. d \in kMinDurationMs .. kMaxDurationMs
  BY FinalDurationWithinLimits
<1>2. CASE mState = "UNINITIALIZED"
  <2>1. /\ hint' \in {"on", "timed"}
        /\ timed' = (IF hint = "on" \/ timed > d THEN timed ELSE d)
        /\ UNCHANGED <<handler, screen, thread, exit>>
    BY <1>2 DEF Acquire
  <2> HIDE DEF d
  <2>2. TypeOK'
    BY <1>1, <2>1, HandlerConstants
       DEF Inv, TypeOK, Durations, handler, screen, thread, Busy, InWait
  <2> QED
    BY <1>2, <2>1, <2>2
       DEF Inv, ThreadFollowsState, WaitIsForLastTouch, HintIsOwned, QuietIsRecorded,
           EndIsDue, Busy, InWait, handler, screen, thread
<1>3. CASE mState # "UNINITIALIZED"
  <2>1. /\ mDurationMs' = d /\ age' = 0
        /\ quiet' = (display = "idle")
        /\ IF mState = "WAITING" THEN mEventFd' = TRUE ELSE mEventFd' = mEventFd
        /\ hint' = IF mState = "IDLE" THEN "on" ELSE hint
        /\ mState' = "INTERACTION"
        /\ UNCHANGED <<timed, display, changed, thread, exit>>
    BY <1>3 DEF Acquire, AbortWait
  <2> HIDE DEF d
  <2>2. TypeOK'
    <3>1. quiet' \in BOOLEAN
      BY <2>1
    <3>2. mEventFd' \in BOOLEAN
      BY <2>1 DEF Inv, TypeOK
    <3> QED
      BY <1>1, <2>1, <3>1, <3>2, HandlerConstants
         DEF Inv, TypeOK, Durations, thread, Busy, InWait
  <2>3. ThreadFollowsState' /\ HintIsOwned' /\ EndIsDue'
    BY <1>3, <2>1 DEF Inv, TypeOK, ThreadFollowsState, HintIsOwned, EndIsDue, Busy
  <2>4. QuietIsRecorded'
    BY <2>1 DEF QuietIsRecorded
  <2>5. WaitIsForLastTouch'
    BY <1>3, <2>1 DEF Inv, TypeOK, ThreadFollowsState, WaitIsForLastTouch, Busy, thread
  <2> QED
    BY <2>2, <2>3, <2>4, <2>5 DEF Inv
<1> QED
  BY <1>2, <1>3

LEMMA ExitInv ==
    ASSUME Inv, ExitBegins \/ ExitEnds
    PROVE  Inv'
<1> USE DEF Inv, TypeOK, ThreadFollowsState, WaitIsForLastTouch, HintIsOwned,
            QuietIsRecorded, EndIsDue, Busy, InWait, Durations
<1>1. CASE ExitBegins
  <2>1. /\ mEventFd' = TRUE /\ mState' = "UNINITIALIZED" /\ exit' = "joining"
        /\ UNCHANGED <<mDurationMs, age, hint, timed, screen, thread>>
    BY <1>1 DEF ExitBegins, AbortWait
  <2> QED
    BY <2>1 DEF screen, thread
<1>2. CASE ExitEnds
  BY <1>2 DEF ExitEnds, handler, screen, thread
<1> QED
  BY <1>1, <1>2

LEMMA DispIdleInv ==
    ASSUME Inv, DispIdle
    PROVE  Inv'
<1> USE DEF Inv, TypeOK, ThreadFollowsState, WaitIsForLastTouch, HintIsOwned,
            QuietIsRecorded, EndIsDue, Busy, InWait, Durations
<1>1. CASE Starts
  BY <1>1 DEF Starts, screen
<1>2. CASE ReadsDuration
  BY <1>2, HandlerConstants DEF ReadsDuration, handler, screen
<1>3. CASE Aborted
  BY <1>3 DEF Aborted, handler, screen
<1>4. CASE LooksAtDisplay
  <2>1. /\ pc = "wait" /\ ~mEventFd /\ ~changed' /\ changed' \in BOOLEAN
        /\ UNCHANGED <<mState, mDurationMs, age, mEventFd, hint, timed, display, quiet>>
        /\ UNCHANGED <<timeout, exit>>
    BY <1>4 DEF LooksAtDisplay, handler
  <2>2. CASE display = "idle"
    <3>1. pc' = "release" /\ timer' = timer
      BY <1>4, <2>2 DEF LooksAtDisplay
    <3> QED
      BY <2>1, <2>2, <3>1
  <2>3. CASE display # "idle"
    <3>1. pc' = "idle" /\ timer' = timeout
      BY <1>4, <2>3 DEF LooksAtDisplay
    <3> QED
      BY <2>1, <2>3, <3>1, HandlerConstants
  <2> QED
    BY <2>2, <2>3
<1>5. CASE WaitEnds
  BY <1>5, HandlerConstants DEF WaitEnds, handler, screen
<1>6. CASE Release
  BY <1>6 DEF Release, screen
<1> QED
  BY <1>1, <1>2, <1>3, <1>4, <1>5, <1>6 DEF DispIdle

LEMMA EnvironmentInv ==
    ASSUME Inv, DisplayChanges \/ Tick \/ HintExpires
    PROVE  Inv'
<1> USE DEF Inv, TypeOK, ThreadFollowsState, WaitIsForLastTouch, HintIsOwned,
            QuietIsRecorded, EndIsDue, Busy, InWait, Durations
<1>1. CASE DisplayChanges
  BY <1>1 DEF DisplayChanges, handler, thread
<1>2. CASE Tick
  BY <1>2, HandlerConstants DEF Tick, screen
<1>3. CASE HintExpires
  BY <1>3 DEF HintExpires, handler, screen, thread
<1> QED
  BY <1>1, <1>2, <1>3

LEMMA NextInv == Inv /\ [Next]_vars => Inv'
<1> SUFFICES ASSUME Inv, [Next]_vars PROVE Inv'
  OBVIOUS
<1>1. CASE UNCHANGED vars
  BY <1>1 DEF vars, handler, screen, thread, Inv, TypeOK, ThreadFollowsState,
              WaitIsForLastTouch, HintIsOwned, QuietIsRecorded, EndIsDue
<1>2. CASE Next
  BY <1>2, AcquireInv, ExitInv, DispIdleInv, EnvironmentInv DEF Next
<1> QED
  BY <1>1, <1>2

LEMMA Invariance == Spec => []Inv
BY InitInv, NextInv, PTL DEF Spec
-----------------------------------------------------------------------------
(* Every variable keeps its type: the duration of a touch never leaves the *)
(* limits, whatever the framework sends to setBoost.                       *)
THEOREM TypeCorrect == Spec => []TypeOK
BY Invariance, PTL DEF Inv

(* No abort is left behind for a later wait, and a wait whose touch is     *)
(* still the last one has that touch's duration, although WaitForIdle is   *)
(* called with a duration read after the lock was given away.              *)
THEOREM WaitsForLastTouch == Spec => []WaitIsForLastTouch
BY Invariance, PTL DEF Inv

(* While the handler runs, the INTERACTION hint is on exactly while it is  *)
(* owed: PerfLock and PerfRel alternate on every path.                     *)
THEOREM HintIsOnWhileOwed == Spec => []HintFollowsState
<1>1. Inv => HintFollowsState
  BY DEF Inv, HintIsOwned, HintFollowsState
<1> QED
  BY <1>1, Invariance, PTL
-----------------------------------------------------------------------------
(* The steps seen as steps of InteractionBoost.                            *)

LEMMA AcquireBoosts ==
    ASSUME Inv, NEW r \in Requests, Acquire(r)
    PROVE  [Boost!Next]_(Boost!vars)
<1> DEFINE d == FinalDuration(r)
<1>1. d \in kMinDurationMs .. kMaxDurationMs
  BY FinalDurationWithinLimits
<1>2. kMinDurationMs \in Nat \ {0} /\ kMaxDurationMs \in Nat
  BY HandlerConstants
<1>3. CASE mState = "UNINITIALIZED"
  <2>1. /\ hint' = (IF hint = "on" THEN "on" ELSE "timed")
        /\ timed' = (IF hint = "on" \/ timed > d THEN timed ELSE d)
        /\ UNCHANGED <<mState, quiet>>
    BY <1>3 DEF Acquire, handler, screen
  <2> HIDE DEF d
  <2>2. Left = timed /\ Left' = timed' /\ timed \in Durations /\ quiet \in BOOLEAN
    BY <1>3, <2>1 DEF Left, Inv, TypeOK
  <2>3. CASE hint # "off" /\ timed' = timed
    BY <2>1, <2>2, <2>3 DEF Boost!vars
  <2>4. CASE hint = "off" \/ timed' # timed
    <3>1. timed' \in kMinDurationMs .. kMaxDurationMs
      BY <1>1, <1>2, <2>1, <2>2, <2>4 DEF Durations
    <3>2. Boost!Prolong(timed')
      BY <1>1, <1>2, <1>3, <2>1, <2>2, <2>4, <3>1 DEF Boost!Prolong, Durations
    <3> QED
      BY <3>1, <3>2 DEF Boost!Next
  <2> QED
    BY <2>3, <2>4
<1>4. CASE mState # "UNINITIALIZED"
  <2>1. /\ ~Covered(d)
        /\ mDurationMs' = d /\ age' = 0
        /\ quiet' = (display = "idle")
        /\ hint' = IF mState = "IDLE" THEN "on" ELSE hint
        /\ mState' = "INTERACTION"
    BY <1>4 DEF Acquire
  <2> HIDE DEF d
  <2>2. Left' = d
    BY <1>1, <1>2, <2>1 DEF Left
  <2>3. hint = "off" \/ d > Left
    BY <1>1, <1>2, <1>4, <2>1
       DEF Left, Covered, Inv, TypeOK, HintIsOwned, Durations, Busy
  <2>4. hint' = "on" /\ quiet' \in BOOLEAN
    BY <1>4, <2>1 DEF Inv, TypeOK, HintIsOwned, Busy
  <2>5. Boost!Prolong(d)
    BY <1>4, <2>1, <2>2, <2>3, <2>4 DEF Boost!Prolong
  <2> QED
    BY <1>1, <2>5 DEF Boost!Next
<1> QED
  BY <1>3, <1>4

LEMMA StepBoosts == Inv /\ [Next]_vars => [Boost!Next]_(Boost!vars)
<1> SUFFICES ASSUME Inv, [Next]_vars PROVE [Boost!Next]_(Boost!vars)
  OBVIOUS
<1> USE DEF Left, Boost!vars
<1>1. CASE UNCHANGED vars
  BY <1>1 DEF vars, handler, screen
<1>2. ASSUME NEW r \in Requests, Acquire(r) PROVE [Boost!Next]_(Boost!vars)
  BY <1>2, AcquireBoosts
<1>3. CASE ExitBegins
  <2>1. Boost!Close
    BY <1>3 DEF ExitBegins, Boost!Close, Inv, HintIsOwned, screen
  <2> QED
    BY <2>1 DEF Boost!Next
<1>4. CASE ExitEnds
  BY <1>4 DEF ExitEnds, handler, screen
<1>5. CASE Starts
  BY <1>5 DEF Starts, Inv, Busy, screen
<1>6. CASE ReadsDuration \/ Aborted \/ LooksAtDisplay \/ WaitEnds
  BY <1>6 DEF ReadsDuration, Aborted, LooksAtDisplay, WaitEnds, handler, screen
<1>7. CASE Release
  <2>1. CASE mState = "WAITING"
    <3>1. Boost!End
      BY <1>7, <2>1
         DEF Release, Boost!End, Inv, TypeOK, EndIsDue, HintIsOwned, Busy, Durations, screen
    <3> QED
      BY <3>1 DEF Boost!Next
  <2>2. CASE mState # "WAITING"
    BY <1>7, <2>2 DEF Release, screen
  <2> QED
    BY <2>1, <2>2
<1>8. CASE DisplayChanges
  <2>1. UNCHANGED <<hint, mState, timed, mDurationMs, age>> /\ quiet' \in {quiet, TRUE}
    BY <1>8 DEF DisplayChanges, handler, Inv, TypeOK
  <2>2. CASE quiet' = quiet
    BY <2>1, <2>2
  <2>3. CASE quiet' = TRUE
    <3>1. Boost!DisplayIsIdle
      BY <2>1, <2>3 DEF Boost!DisplayIsIdle
    <3> QED
      BY <3>1 DEF Boost!Next
  <2> QED
    BY <2>1, <2>2, <2>3
<1>9. CASE Tick
  <2>1. UNCHANGED <<hint, mState, mDurationMs, quiet>>
    BY <1>9 DEF Tick, screen
  <2>2. Left' = (IF Left > 0 THEN Left - 1 ELSE Left)
    BY <1>9, <2>1, HandlerConstants DEF Tick, Inv, TypeOK, Durations
  <2>3. CASE Left > 0
    <3>1. Boost!Tick
      BY <2>1, <2>2, <2>3 DEF Boost!Tick
    <3> QED
      BY <3>1 DEF Boost!Next
  <2>4. CASE ~(Left > 0)
    BY <2>1, <2>2, <2>4
  <2> QED
    BY <2>3, <2>4
<1>10. CASE HintExpires
  <2>1. mState = "UNINITIALIZED"
    BY <1>10 DEF HintExpires, Inv, HintIsOwned
  <2>2. Boost!End
    BY <1>10, <2>1 DEF HintExpires, Boost!End, handler, screen
  <2> QED
    BY <2>2 DEF Boost!Next
<1> QED
  BY <1>1, <1>2, <1>3, <1>4, <1>5, <1>6, <1>7, <1>8, <1>9, <1>10 DEF Next, DispIdle

(* The handler implements the safety part of the promise: a boost is given *)
(* for every touch that asks for more than is owed, and is taken away only *)
(* when nothing is owed or the display was idle after the touch.           *)
THEOREM ImplementsBoost == Spec => Boost!Safety
<1>1. Init => Boost!Init
  BY DEF Init, Boost!Init, Left
<1> QED
  BY <1>1, Invariance, StepBoosts, PTL DEF Spec, Boost!Safety
-----------------------------------------------------------------------------
(***************************************************************************)
(* Power and PowerExt.                                                     *)
(***************************************************************************)

(* What makes NoStuckMode inductive. A mode that is ignored has no hint:   *)
(* endAllHints has ended it, and only a mode that is not ignored sets one; *)
(* the constructor, which sets hints again, reads the flag from them.      *)
IgnoredModesAreOff ==
    /\ Suppressed => hints \cap ModeHints = {}
    /\ "SUSTAINED_PERFORMANCE" \in hints => mSustainedPerfModeOn

(* What makes NoLeakedBoost inductive, whatever the handler's exit.        *)
BoostHasThread ==
    /\ mState # "UNINITIALIZED" => pc # "none"
    /\ hint = "on" => mState \in Busy /\ ~Suppressed

ModesInv ==
    /\ ModesTypeOK
    /\ IgnoredModesAreOff
    /\ NoStuckMode
    /\ BoostHasThread
-----------------------------------------------------------------------------
(* Types alone: the handler under PowerModes does not keep the rest of Inv,*)
(* because endAllHints ends its hint.                                      *)

LEMMA AcquireType ==
    ASSUME TypeOK, NEW r \in Requests, Acquire(r)
    PROVE  TypeOK'
<1> DEFINE d == FinalDuration(r)
<1>1. d \in kMinDurationMs .. kMaxDurationMs
  BY FinalDurationWithinLimits
<1>2. d \in Durations
  BY <1>1, HandlerConstants DEF Durations
<1>3. CASE mState = "UNINITIALIZED"
  <2>1. /\ hint' \in {"on", "timed"} /\ timed' \in {timed, d}
        /\ UNCHANGED <<handler, screen, thread, exit>>
    BY <1>3 DEF Acquire
  <2> HIDE DEF d
  <2> QED
    BY <1>2, <2>1 DEF TypeOK, handler, screen, thread
<1>4. CASE mState # "UNINITIALIZED"
  <2>1. /\ mDurationMs' = d /\ age' = 0 /\ mState' = "INTERACTION"
        /\ hint' \in {"on", hint}
        /\ UNCHANGED <<timed, display, changed, thread, exit>>
    BY <1>4 DEF Acquire
  <2>2. quiet' \in BOOLEAN
    BY <1>4 DEF Acquire
  <2>3. mEventFd' \in BOOLEAN
    BY <1>4 DEF Acquire, AbortWait, TypeOK
  <2> HIDE DEF d
  <2> QED
    BY <1>2, <2>1, <2>2, <2>3, HandlerConstants DEF TypeOK, Durations, Busy, thread
<1> QED
  BY <1>3, <1>4

LEMMA StepType ==
    ASSUME TypeOK, DispIdle \/ DisplayChanges \/ Tick \/ HintExpires
    PROVE  TypeOK'
<1> USE DEF TypeOK, Busy, InWait, Durations
<1>1. CASE Starts
  BY <1>1 DEF Starts, screen
<1>2. CASE ReadsDuration
  BY <1>2, HandlerConstants DEF ReadsDuration, handler, screen
<1>3. CASE Aborted \/ WaitEnds
  BY <1>3 DEF Aborted, WaitEnds, handler, screen
<1>4. CASE LooksAtDisplay
  <2>1. changed' \in BOOLEAN
    BY <1>4 DEF LooksAtDisplay
  <2>2. pc' \in InWait /\ timer' \in {timer, timeout}
    BY <1>4 DEF LooksAtDisplay
  <2>3. UNCHANGED <<mState, mDurationMs, age, mEventFd, hint, timed, display, quiet, timeout, exit>>
    BY <1>4 DEF LooksAtDisplay, handler
  <2> QED
    BY <2>1, <2>2, <2>3, HandlerConstants
<1>5. CASE Release
  <2>1. mEventFd' \in BOOLEAN
    BY <1>5 DEF Release
  <2>2. /\ hint' \in {hint, "off"} /\ mState' \in {mState, "IDLE"} /\ pc' = "lock"
        /\ UNCHANGED <<mDurationMs, age, timed, display, changed, quiet, timer, timeout, exit>>
    BY <1>5 DEF Release, screen
  <2> QED
    BY <2>1, <2>2
<1>6. CASE DisplayChanges
  <2>1. display' \in {"active", "idle"} /\ UNCHANGED <<handler, hint, timed, thread, exit>>
    BY <1>6 DEF DisplayChanges
  <2>2. changed' \in BOOLEAN /\ quiet' \in BOOLEAN
    BY <1>6 DEF DisplayChanges
  <2> QED
    BY <2>1, <2>2 DEF handler, thread
<1>7. CASE Tick
  BY <1>7, HandlerConstants DEF Tick, screen
<1>8. CASE HintExpires
  BY <1>8 DEF HintExpires, handler, screen, thread
<1> QED
  BY <1>1, <1>2, <1>3, <1>4, <1>5, <1>6, <1>7, <1>8 DEF DispIdle
-----------------------------------------------------------------------------
LEMMA ModesInitInv == ModesInit => ModesInv
<1> SUFFICES ASSUME ModesInit PROVE ModesInv
  OBVIOUS
<1>1. TypeOK
  BY InitInv DEF ModesInit, Inv
<1>2. hints = {} /\ mSustainedPerfModeOn = FALSE /\ mBatterySaverOn = FALSE
  BY DEF ModesInit
<1>3. asked \in [AllModes -> BOOLEAN]
  BY DEF ModesInit
<1>4. hint = "off" /\ (mState # "UNINITIALIZED" => pc # "none")
  BY DEF ModesInit, Init
<1> QED
  BY <1>1, <1>2, <1>3, <1>4
     DEF ModesInv, ModesTypeOK, IgnoredModesAreOff, NoStuckMode, BoostHasThread, Suppressed

(* The calls that change modes touch nothing of the handler but its hint.  *)
LEMMA ModeCallInv ==
    ASSUME ModesInv, NEW b \in BOOLEAN,
           \/ SetSustainedPerformance(b) \/ SetLowPower(b)
           \/ \E m \in ModeHints : SetMode(m, b)
           \/ \E m \in ExtHints : ExtSetMode(m, b)
    PROVE  ModesInv'
<1> USE DEF ModesInv, ModesTypeOK, IgnoredModesAreOff, NoStuckMode, BoostHasThread,
            Suppressed, AllModes
<1>1. CASE SetSustainedPerformance(b)
  <2>1. TypeOK' /\ hint' \in {hint, "off"} /\ UNCHANGED <<mState, pc>>
    BY <1>1 DEF SetSustainedPerformance, EndAllHints, TypeOK, handler, screen, thread
  <2>2. mSustainedPerfModeOn' = b /\ mBatterySaverOn' = mBatterySaverOn
    BY <1>1 DEF SetSustainedPerformance
  <2>3. asked' = [asked EXCEPT !["SUSTAINED_PERFORMANCE"] = b]
    BY <1>1 DEF SetSustainedPerformance
  <2>4. CASE b
    <3>1. hints' = {"SUSTAINED_PERFORMANCE"} /\ hint' = "off"
      BY <1>1, <2>4 DEF SetSustainedPerformance, EndAllHints
    <3> QED
      BY <2>1, <2>2, <2>3, <2>4, <3>1, ModeConstants
  <2>5. CASE ~b
    <3>1. hints' = hints \ {"SUSTAINED_PERFORMANCE"} /\ hint' = hint
      BY <1>1, <2>5 DEF SetSustainedPerformance
    <3> QED
      BY <2>1, <2>2, <2>3, <2>5, <3>1, ModeConstants
  <2> QED
    BY <2>4, <2>5
<1>2. CASE SetLowPower(b)
  <2>1. TypeOK' /\ hint' \in {hint, "off"} /\ UNCHANGED <<mState, pc>>
    BY <1>2 DEF SetLowPower, EndAllHints, TypeOK, handler, screen, thread
  <2>2. mBatterySaverOn' = b /\ mSustainedPerfModeOn' = mSustainedPerfModeOn
    BY <1>2 DEF SetLowPower
  <2>3. asked' = [asked EXCEPT !["LOW_POWER"] = b]
    BY <1>2 DEF SetLowPower
  <2>4. CASE b
    <3>1. hints' = {"LOW_POWER"} /\ hint' = "off"
      BY <1>2, <2>4 DEF SetLowPower, EndAllHints
    <3> QED
      BY <2>1, <2>2, <2>3, <2>4, <3>1, ModeConstants
  <2>5. CASE ~b
    <3>1. hints' = hints \ {"LOW_POWER"} /\ hint' = hint
      BY <1>2, <2>5 DEF SetLowPower
    <3> QED
      BY <2>1, <2>2, <2>3, <2>5, <3>1, ModeConstants
  <2> QED
    BY <2>4, <2>5
<1>3. ASSUME NEW m \in ModeHints, SetMode(m, b) PROVE ModesInv'
  <2>1. TypeOK' /\ UNCHANGED <<hint, mState, pc, mSustainedPerfModeOn, mBatterySaverOn>>
    BY <1>3 DEF SetMode, TypeOK, vars, handler, screen, thread
  <2>2. asked' = [asked EXCEPT ![m] = b]
    BY <1>3 DEF SetMode
  <2>3. CASE Suppressed
    <3>1. hints' = hints /\ m \notin hints
      BY <1>3, <2>3 DEF SetMode
    <3> QED
      BY <2>1, <2>2, <2>3, <3>1
  <2>4. CASE ~Suppressed
    <3>1. hints' = IF b THEN hints \cup {m} ELSE hints \ {m}
      BY <1>3, <2>4 DEF SetMode
    <3> QED
      BY <2>1, <2>2, <2>4, <3>1, ModeConstants
  <2> QED
    BY <2>3, <2>4
<1>4. ASSUME NEW m \in ExtHints, ExtSetMode(m, b) PROVE ModesInv'
  <2>1. TypeOK' /\ UNCHANGED <<hint, mState, pc, mSustainedPerfModeOn, mBatterySaverOn>>
    BY <1>4 DEF ExtSetMode, TypeOK, vars, handler, screen, thread
  <2>2. asked' = [asked EXCEPT ![m] = b] /\ hints' = IF b THEN hints \cup {m} ELSE hints \ {m}
    BY <1>4 DEF ExtSetMode
  <2> QED
    BY <2>1, <2>2, ModeConstants
<1> QED
  BY <1>1, <1>2, <1>3, <1>4

LEMMA TouchInv ==
    ASSUME ModesInv, NEW r \in Requests, SetInteractionBoost(r)
    PROVE  ModesInv'
<1>1. Acquire(r) /\ ~Suppressed /\ UNCHANGED modes
  BY DEF SetInteractionBoost
<1>2. TypeOK'
  BY <1>1, AcquireType DEF ModesInv, ModesTypeOK
<1>3. pc' = pc /\ (mState = "UNINITIALIZED" => mState' = mState)
  BY <1>1 DEF Acquire, handler, thread
<1>4. hint' = "on" => mState' \in Busy
  BY <1>1 DEF Acquire, handler, ModesInv, BoostHasThread, Busy
<1> QED
  BY <1>1, <1>2, <1>3, <1>4
     DEF ModesInv, ModesTypeOK, IgnoredModesAreOff, NoStuckMode, BoostHasThread,
         Suppressed, modes

LEMMA DeathInv ==
    ASSUME ModesInv, ServiceDies \/ FrameworkDies
    PROVE  ModesInv'
<1>1. PICK on \in SUBSET AllModes :
         /\ Started(on)
         /\ \A m \in on : asked'[m]
         /\ asked' \in [AllModes -> BOOLEAN]
         /\ ("SUSTAINED_PERFORMANCE" \in on => on \cap ModeHints = {})
  <2>1. CASE ServiceDies
    <3> DEFINE on == hints \cap (Restored \cup {"SUSTAINED_PERFORMANCE"})
    <3>1. Started(on) /\ asked' = asked
      BY <2>1 DEF ServiceDies
    <3>2. on \subseteq hints /\ hints \in SUBSET AllModes
      BY DEF ModesInv, ModesTypeOK
    <3>3. "SUSTAINED_PERFORMANCE" \in hints => hints \cap ModeHints = {}
      BY DEF ModesInv, IgnoredModesAreOff, Suppressed
    <3> QED
      BY <3>1, <3>2, <3>3 DEF ModesInv, ModesTypeOK, NoStuckMode
  <2>2. CASE FrameworkDies
    BY <2>2 DEF FrameworkDies
  <2> QED
    BY <2>1, <2>2
<1>2. mEventFd' \in BOOLEAN /\ changed' \in BOOLEAN /\ quiet' \in BOOLEAN
  BY <1>1 DEF Started
<1>3. /\ mDurationMs' = 0 /\ age' = kMaxDurationMs /\ hint' = "off" /\ timed' = 0
      /\ timer' = 0 /\ timeout' = 0 /\ UNCHANGED <<display, exit>>
      /\ mState' \in {"IDLE", "UNINITIALIZED"} /\ pc' \in {"lock", "none"}
      /\ mState' # "UNINITIALIZED" => pc' # "none"
  BY <1>1 DEF Started
<1>4. TypeOK'
  BY <1>2, <1>3, HandlerConstants DEF ModesInv, ModesTypeOK, TypeOK, Durations, Busy, InWait
<1>5. hints' = on /\ ~mBatterySaverOn' /\ mBatterySaverOn' \in BOOLEAN
  BY <1>1 DEF Started
<1>6. mSustainedPerfModeOn' \in BOOLEAN /\ (mSustainedPerfModeOn' <=> "SUSTAINED_PERFORMANCE" \in on)
  <2>1. mSustainedPerfModeOn' = ("SUSTAINED_PERFORMANCE" \in on)
    BY <1>1 DEF Started
  <2>2. ("SUSTAINED_PERFORMANCE" \in on) \in BOOLEAN
    OBVIOUS
  <2>3. mSustainedPerfModeOn' \in BOOLEAN
    BY <2>1, <2>2
  <2>4. CASE "SUSTAINED_PERFORMANCE" \in on
    BY <2>1, <2>3, <2>4
  <2>5. CASE "SUSTAINED_PERFORMANCE" \notin on
    BY <2>1, <2>3, <2>5
  <2> QED
    BY <2>3, <2>4, <2>5
<1>7. ModesTypeOK'
  BY <1>1, <1>4, <1>5, <1>6 DEF ModesTypeOK, AllModes
<1>8. IgnoredModesAreOff' /\ NoStuckMode'
  BY <1>1, <1>5, <1>6 DEF IgnoredModesAreOff, NoStuckMode, Suppressed
<1>9. BoostHasThread'
  BY <1>3 DEF BoostHasThread
<1> QED
  BY <1>7, <1>8, <1>9 DEF ModesInv

LEMMA ThreadInv ==
    ASSUME ModesInv, DispIdle \/ DisplayChanges \/ Tick \/ HintExpires, UNCHANGED modes
    PROVE  ModesInv'
<1>1. TypeOK'
  BY StepType DEF ModesInv, ModesTypeOK
<1>2. BoostHasThread'
  <2> USE DEF ModesInv, BoostHasThread, Busy
  <2>1. UNCHANGED <<mSustainedPerfModeOn, mBatterySaverOn>>
    BY DEF modes
  <2>2. CASE Starts
    BY <2>1, <2>2 DEF Starts, Suppressed
  <2>3. CASE ReadsDuration \/ Aborted \/ LooksAtDisplay \/ WaitEnds
    BY <2>1, <2>3 DEF ReadsDuration, Aborted, LooksAtDisplay, WaitEnds, handler, Suppressed
  <2>4. CASE Release
    BY <2>1, <2>4 DEF Release, Suppressed
  <2>5. CASE DisplayChanges \/ Tick \/ HintExpires
    BY <2>1, <2>5 DEF DisplayChanges, Tick, HintExpires, handler, thread, Suppressed
  <2> QED
    BY <2>2, <2>3, <2>4, <2>5 DEF DispIdle
<1> QED
  BY <1>1, <1>2
     DEF ModesInv, ModesTypeOK, IgnoredModesAreOff, NoStuckMode, Suppressed, modes

LEMMA ModesNextInv == ModesInv /\ [ModesNext]_pvars => ModesInv'
<1> SUFFICES ASSUME ModesInv, [ModesNext]_pvars PROVE ModesInv'
  OBVIOUS
<1>1. CASE ModesNext
  BY <1>1, ModeCallInv, TouchInv, DeathInv, ThreadInv DEF ModesNext
<1>2. CASE UNCHANGED pvars
  <2>1. TypeOK' /\ UNCHANGED <<hint, mState, pc>>
    BY <1>2 DEF pvars, vars, handler, screen, thread, ModesInv, ModesTypeOK, TypeOK
  <2>2. UNCHANGED <<hints, mSustainedPerfModeOn, mBatterySaverOn, asked>>
    BY <1>2 DEF pvars, modes
  <2> QED
    BY <2>1, <2>2 DEF ModesInv, ModesTypeOK, IgnoredModesAreOff, NoStuckMode,
                      BoostHasThread, Suppressed
<1> QED
  BY <1>1, <1>2

LEMMA ModesInvariance == ModesSpec => []ModesInv
BY ModesInitInv, ModesNextInv, PTL DEF ModesSpec
-----------------------------------------------------------------------------
(* Every variable of the HAL and of its handler keeps its type, through    *)
(* every call and every restart.                                           *)
THEOREM ModesTypeCorrect == ModesSpec => []ModesTypeOK
BY ModesInvariance, PTL DEF ModesInv

(* Whatever setMode ignores and whatever properties a dead service leaves, *)
(* a mode whose client has switched it off has no hint.                    *)
THEOREM NoModeIsStuck == ModesSpec => []NoStuckMode
BY ModesInvariance, PTL DEF ModesInv

(* endAllHints behind the handler's back, its thread's Release and the     *)
(* restarts never leave the INTERACTION hint on without a thread that ends *)
(* it, nor on while a mode suppresses it.                                  *)
THEOREM NoBoostLeaks == ModesSpec => []NoLeakedBoost
<1>1. ModesInv => NoLeakedBoost
  <2> SUFFICES ASSUME ModesInv, hint = "on"
               PROVE  mState \in Busy /\ pc # "none" /\ ~Suppressed
    BY DEF NoLeakedBoost
  <2> QED
    BY DEF ModesInv, BoostHasThread, Busy
<1> QED
  BY <1>1, ModesInvariance, PTL
=============================================================================
