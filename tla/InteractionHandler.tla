-------------------------- MODULE InteractionHandler --------------------------
(***************************************************************************)
(* The power HAL's InteractionHandler: touches (Acquire) on the binder     *)
(* thread, the DispIdle thread that ends the boost once the display is     *)
(* idle or the time is over, and the event file descriptor by which a      *)
(* touch aborts that thread's wait. Time is counted in ticks.              *)
(* A poll that fails (a signal) is left out.                               *)
(***************************************************************************)
EXTENDS Integers

CONSTANTS
    kWaitMs, kMinDurationMs, kMaxDurationMs, kDurationOffsetMs,
    Modulus,       \* 2^w, w the width of an int
    Requests,      \* durations the framework asks for
    Exits          \* may the handler be destroyed?

ASSUME HandlerConstants ==
    /\ {kWaitMs, kMinDurationMs, kMaxDurationMs, kDurationOffsetMs} \subseteq Nat
    /\ 0 < kMinDurationMs /\ kMinDurationMs <= kMaxDurationMs
    /\ Modulus \in Nat \ {0}
    /\ Requests \subseteq Int
    /\ Exits \in BOOLEAN

VARIABLES
    mState,
    mDurationMs,
    age,           \* time since mLastTimespec, as far as it matters
    mEventFd,      \* can the event file descriptor be read?
    hint,          \* the INTERACTION hint: "off", "on", or "timed" by HintManager
    timed,         \* how long a timed hint lasts
    display,       \* what the idle_state node says
    changed,       \* has it changed since the thread read it?
    quiet,         \* history: was the display idle since the last accepted touch?
    pc,            \* where the DispIdle thread is
    timer,         \* time until its poll gives up
    timeout,       \* WaitForIdle's second argument
    exit           \* the thread in Exit

handler == <<mState, mDurationMs, age, mEventFd>>
thread  == <<pc, timer, timeout>>
screen  == <<display, changed, quiet>>
vars    == <<handler, hint, timed, screen, thread, exit>>
-----------------------------------------------------------------------------
Busy == {"INTERACTION", "WAITING"}
InWait == {"args", "wait", "idle", "release"}

\* The duration plus the offset is compared as an unsigned number.
FinalDuration(d) ==
    LET input == (d + kDurationOffsetMs) % Modulus
    IN IF input > kMaxDurationMs THEN kMaxDurationMs
       ELSE IF input > kMinDurationMs THEN input ELSE kMinDurationMs

\* The touch asks for no more than is left of the last accepted one.
Covered(d) == mState # "IDLE" /\ d <= mDurationMs /\ age <= mDurationMs - d

\* AbortWaitLocked
AbortWait == mEventFd' = TRUE

\* Acquire, under the lock from its first line to its last.
Acquire(r) ==
    LET d == FinalDuration(r) IN
    \/ /\ mState = "UNINITIALIZED"
       /\ hint' = IF hint = "on" THEN "on" ELSE "timed"
       /\ timed' = IF hint = "on" \/ timed > d THEN timed ELSE d
       /\ UNCHANGED <<handler, screen, thread, exit>>
    \/ /\ mState # "UNINITIALIZED"
       /\ ~Covered(d)
       /\ mDurationMs' = d /\ age' = 0
       /\ quiet' = (display = "idle")
       /\ IF mState = "WAITING" THEN AbortWait ELSE UNCHANGED mEventFd
       /\ hint' = IF mState = "IDLE" THEN "on" ELSE hint
       /\ mState' = "INTERACTION"
       /\ UNCHANGED <<timed, display, changed, thread, exit>>

\* Exit sets the state, wakes the thread and joins it.
ExitBegins ==
    /\ Exits /\ exit = "no"
    /\ mState # "UNINITIALIZED"
    /\ AbortWait
    /\ mState' = "UNINITIALIZED"
    /\ exit' = "joining"
    /\ UNCHANGED <<mDurationMs, age, hint, timed, screen, thread>>

ExitEnds ==
    /\ exit = "joining" /\ pc = "none"
    /\ exit' = "done"
    /\ UNCHANGED <<handler, hint, timed, screen, thread>>
-----------------------------------------------------------------------------
(* The DispIdle thread.                                                    *)

\* It sleeps on mCond while the state is IDLE.
Starts ==
    /\ pc = "lock"
    /\ \/ /\ mState \in Busy
          /\ mState' = "WAITING"
          /\ pc' = "args"
       \/ /\ mState = "UNINITIALIZED"
          /\ pc' = "none"
          /\ UNCHANGED mState
    /\ UNCHANGED <<mDurationMs, age, mEventFd, hint, timed, screen,
                   timer, timeout, exit>>

\* The duration is read after the lock was given away.
ReadsDuration ==
    /\ pc = "args"
    /\ timeout' = mDurationMs
    /\ timer' = kWaitMs
    /\ pc' = "wait"
    /\ UNCHANGED <<handler, hint, timed, screen, exit>>

Aborted ==
    /\ pc \in {"wait", "idle"}
    /\ mEventFd
    /\ pc' = "release"
    /\ UNCHANGED <<handler, hint, timed, screen, timer, timeout, exit>>

(* Mutant: the first wait is taken for the whole of it. *)
WaitsOnlyMinimum ==
    /\ pc = "wait" /\ timer = 0 /\ ~mEventFd
    /\ pc' = "release"
    /\ UNCHANGED <<handler, hint, timed, screen, timer, timeout, exit>>

\* The first poll gives up: a display that is idle already ends the wait.
LooksAtDisplay ==
    /\ pc = "wait" /\ timer = 0 /\ ~mEventFd
    /\ changed' = FALSE
    /\ IF display = "idle" THEN pc' = "release" /\ UNCHANGED timer
       ELSE pc' = "idle" /\ timer' = timeout
    /\ UNCHANGED <<handler, hint, timed, display, quiet, timeout, exit>>

\* The second poll gives up, or the idle_state node says that it changed.
WaitEnds ==
    /\ pc = "idle" /\ ~mEventFd
    /\ timer = 0 \/ changed
    /\ pc' = "release"
    /\ UNCHANGED <<handler, hint, timed, screen, timer, timeout, exit>>

(* Mutant: the abort of the wait that ends is left for the next one. *)
ReleaseKeepsEvent ==
    /\ pc = "release"
    /\ pc' = "lock"
    /\ IF mState = "WAITING" THEN hint' = "off" /\ mState' = "IDLE"
       ELSE UNCHANGED <<hint, mState>>
    /\ UNCHANGED <<mDurationMs, age, mEventFd, timed, screen, timer, timeout, exit>>

(* Mutant: the boost ends only if no touch came, but the thread sleeps in any case. *)
ReleaseLosesTouch ==
    /\ pc = "release"
    /\ pc' = "lock"
    /\ IF mState \in Busy
       THEN /\ mState' = "IDLE" /\ mEventFd' = FALSE
            /\ hint' = IF mState = "WAITING" THEN "off" ELSE hint
       ELSE mEventFd' = FALSE /\ UNCHANGED <<hint, mState>>
    /\ UNCHANGED <<mDurationMs, age, timed, screen, timer, timeout, exit>>

(* Mutant: whatever is no new touch is the end of the boost, an exit too. *)
ReleaseForgetsExit ==
    /\ pc = "release"
    /\ pc' = "lock"
    /\ IF mState # "INTERACTION"
       THEN hint' = "off" /\ mState' = "IDLE" /\ UNCHANGED mEventFd
       ELSE mEventFd' = FALSE /\ UNCHANGED <<hint, mState>>
    /\ UNCHANGED <<mDurationMs, age, timed, screen, timer, timeout, exit>>

\* Release ends the boost, unless a touch came since the wait began.
Release ==
    /\ pc = "release"
    /\ pc' = "lock"
    /\ IF mState = "WAITING"
       THEN hint' = "off" /\ mState' = "IDLE" /\ UNCHANGED mEventFd
       ELSE mEventFd' = FALSE /\ UNCHANGED <<hint, mState>>
    /\ UNCHANGED <<mDurationMs, age, timed, screen, timer, timeout, exit>>

DispIdle == Starts \/ ReadsDuration \/ Aborted \/ LooksAtDisplay \/ WaitEnds \/ Release
-----------------------------------------------------------------------------
(* The display, the clock and HintManager.                                 *)

DisplayChanges ==
    /\ display' = IF display = "idle" THEN "active" ELSE "idle"
    /\ changed' = TRUE
    /\ quiet' = (quiet \/ display' = "idle")
    /\ UNCHANGED <<handler, hint, timed, thread, exit>>

\* Time passes whether or not the thread runs in time.
Tick ==
    /\ age' = IF age < kMaxDurationMs THEN age + 1 ELSE age
    /\ timer' = IF timer > 0 THEN timer - 1 ELSE timer
    /\ timed' = IF timed > 0 THEN timed - 1 ELSE timed
    /\ UNCHANGED <<mState, mDurationMs, mEventFd, hint, screen, pc,
                   timeout, exit>>

HintExpires ==
    /\ hint = "timed" /\ timed = 0
    /\ hint' = "off"
    /\ UNCHANGED <<handler, timed, screen, thread, exit>>
-----------------------------------------------------------------------------
\* Init opens the display's node and the event file descriptor, or fails.
Init ==
    /\ \/ mState = "IDLE" /\ pc = "lock"
       \/ mState = "UNINITIALIZED" /\ pc = "none"
    /\ mDurationMs = 0 /\ age = kMaxDurationMs
    /\ mEventFd = FALSE
    /\ hint = "off" /\ timed = 0
    /\ display = "active" /\ changed = FALSE /\ quiet = FALSE
    /\ timer = 0 /\ timeout = 0
    /\ exit = "no"

Next ==
    \/ \E r \in Requests : Acquire(r)
    \/ ExitBegins \/ ExitEnds
    \/ DispIdle
    \/ DisplayChanges \/ Tick \/ HintExpires

\* The threads run, the clock ticks.
Fairness == WF_vars(DispIdle) /\ WF_vars(ExitEnds) /\ WF_vars(Tick) /\ WF_vars(HintExpires)

Spec == Init /\ [][Next]_vars /\ Fairness
-----------------------------------------------------------------------------
Durations == 0 .. kMaxDurationMs

\* Every variable keeps its type.
TypeOK ==
    /\ mState \in {"UNINITIALIZED", "IDLE"} \cup Busy
    /\ mDurationMs \in Durations /\ age \in Durations
    /\ mEventFd \in BOOLEAN
    /\ hint \in {"off", "on", "timed"} /\ timed \in Durations
    /\ display \in {"active", "idle"} /\ changed \in BOOLEAN /\ quiet \in BOOLEAN
    /\ pc \in {"none", "lock"} \cup InWait
    /\ timer \in Nat /\ timeout \in Durations
    /\ exit \in {"no", "joining", "done"}

\* A touch never leaves an abort behind for a wait that begins after it, and a
\* wait whose touch is still the last one waits as long as that touch asked,
\* although the duration is read without the lock.
WaitIsForLastTouch ==
    /\ mEventFd => \/ mState = "UNINITIALIZED"
                   \/ pc \in InWait /\ mState = "INTERACTION"
    /\ (pc \in {"wait", "idle"} /\ mState = "WAITING") => timeout = mDurationMs

\* While the handler runs, the hint is on exactly in the states that owe it:
\* no boost is left on when the thread sleeps, none is missing while it waits.
HintFollowsState == mState # "UNINITIALIZED" => (hint = "on" <=> mState \in Busy)

\* The promise: the touch that was accepted last is owed what is left of it.
Left == IF mState = "UNINITIALIZED" THEN timed
        ELSE IF mState = "IDLE" \/ age >= mDurationMs THEN 0
        ELSE mDurationMs - age

Boost == INSTANCE InteractionBoost
    WITH on <- hint # "off", left <- Left, open <- mState # "UNINITIALIZED",
         Lengths <- kMinDurationMs .. kMaxDurationMs

\* A boost is given for every touch, is not taken away before its time unless the
\* display was idle after it, and ends when the touches do.
BoostIsKept == Boost!Spec

\* The thread that destroys the handler gets its join, wherever the DispIdle
\* thread is when its state is set.
ExitReturns == (exit = "joining") ~> (exit = "done")
=============================================================================
