---------------------------- MODULE SimPinFeeder ----------------------------
(***************************************************************************)
(* SimPinFeeder of 7SIM: when the alarm goes off, the worker of            *)
(* ForegroundService gives the PINs the alarm has carried to a thread that *)
(* unlocks the SIMs in need of one, and waits for it.  SIMs enter their    *)
(* PIN state late, broadcasts announce it; the user may be at the keyguard *)
(* with the same SIM; a wrong PIN costs one of three attempts.  PinStorage *)
(* remembers which of the stored PINs were refused.                        *)
(***************************************************************************)
EXTENDS Integers, FiniteSets

CONSTANTS
    Sims,              \* SIMs by subscription, 1..n: the order of the sparse array
    UserSims,          \* bound: those the user handles: switches off, unlocks,
                       \*   stores PINs for
    Feeders,           \* feeders that may exist at a time: a second one only
                       \*   beside one that was cancelled
    LostAnswers,       \* an attempt may count although its result is a failure
    EditsWhileFeeding  \* the user may store or delete a PIN meanwhile

NoPin == "none"

ASSUME FeederAssumption ==
    /\ IsFiniteSet(Sims) /\ Sims = 1..Cardinality(Sims)
    /\ UserSims \subseteq Sims
    /\ {LostAnswers, EditsWhileFeeding} \subseteq BOOLEAN

VARIABLES
    sim,        \* sub -> its SIM: state and attempts left
    news,       \* SIMs whose change of state is not broadcast yet
    stored,     \* sub -> row of PinStorage: "none", "good" or "invalid"
    feeder,     \* feeder -> its thread
    tried,      \* history: sub -> how the last PIN tried since the row was
                \*   stored was found, "none", "good", "invalid", or "lost"
    spent       \* history: sub -> attempts feeders have wasted since the
                \*   right PIN was last entered

pinVars == <<sim, news, stored, feeder, tried, spent>>

Entity == [pin : {"right", "wrong", NoPin}, invalid : BOOLEAN]
NoEntity == [pin |-> NoPin, invalid |-> FALSE]
Bundle == [Sims -> {"right", "wrong", NoPin}]
NoPins == [s \in Sims |-> NoPin]
Dead == [pc |-> "none", bundle |-> NoPins, entities |-> [s \in Sims |-> NoEntity], cache |-> {},
         at |-> 0, retries |-> 0, changed |-> FALSE, listens |-> FALSE, released |-> FALSE]

Thread ==
    [pc : {"none", "again", "listen", "refresh", "sims", "count", "supply",
           "accepted", "refused", "wait", "leave"},
     bundle : Bundle, entities : [Sims -> Entity], cache : SUBSET Sims,
     at : 0..(Cardinality(Sims) + 1), retries : 0..3, changed : BOOLEAN,
     listens : BOOLEAN, released : BOOLEAN]

FeederTypeOK ==
    /\ sim \in [Sims -> [state : {"off", "booting", "pin", "ready", "puk"}, left : 0..3]]
    /\ news \subseteq Sims
    /\ stored \in [Sims -> {NoPin, "good", "invalid"}]
    /\ feeder \in [Feeders -> Thread]
    /\ tried \in [Sims -> {NoPin, "good", "invalid", "lost"}]
    /\ spent \in [Sims -> 0..3]

FeederInit ==
    /\ sim \in [Sims -> [state : {"off", "booting", "pin"}, left : {3}]]
    /\ news = {}
    /\ stored \in [Sims -> {NoPin, "good"}]
    /\ feeder = [i \in Feeders |-> Dead]
    /\ tried = NoPins
    /\ spent = [s \in Sims |-> 0]

-----------------------------------------------------------------------------
(* SIMs, which announce each change of their state, and their user.        *)
Became(s, state, left) ==
    /\ sim' = [sim EXCEPT ![s] = [state |-> state, left |-> left]]
    /\ news' = IF state = sim[s].state THEN news ELSE news \union {s}

Unlockable(s) == sim[s].state \in {"pin", "ready"}
EnterRight(s) == Became(s, "ready", 3) /\ spent' = [spent EXCEPT ![s] = 0]
EnterWrong(s) == Became(s, IF sim[s].left = 1 THEN "puk" ELSE sim[s].state, sim[s].left - 1)

SimChanges(s) ==
    /\ \/ sim[s].state = "off" /\ Became(s, "booting", sim[s].left)
       \/ sim[s].state = "booting" /\ Became(s, IF sim[s].left = 0 THEN "puk" ELSE "pin", sim[s].left)
       \/ s \in UserSims /\ sim[s].state # "off" /\ Became(s, "off", sim[s].left)
    /\ UNCHANGED <<stored, feeder, tried, spent>>

UserEnters(s) ==
    /\ s \in UserSims /\ sim[s].state = "pin"
    /\ \/ EnterRight(s)
       \/ EnterWrong(s) /\ UNCHANGED spent
    /\ UNCHANGED <<stored, feeder, tried>>

(* dispatchOnSimStatusChanged: every listener of the list is told.         *)
Broadcast(s) ==
    /\ s \in news
    /\ news' = news \ {s}
    /\ feeder' = [i \in Feeders |-> [feeder[i] EXCEPT !.changed = @ \/ feeder[i].listens]]
    /\ UNCHANGED <<sim, stored, tried, spent>>

(* storePin and deletePin, on the user interface's thread.                 *)
UserEdits(s) ==
    /\ s \in UserSims
    /\ EditsWhileFeeding \/ \A i \in Feeders : feeder[i].pc \in {"none", "again"}
    /\ \E row \in {NoPin, "good"} : stored' = [stored EXCEPT ![s] = row]
    /\ tried' = [tried EXCEPT ![s] = NoPin]
    /\ UNCHANGED <<sim, news, feeder, spent>>

-----------------------------------------------------------------------------
(* The task of the worker, and the end of its service.                     *)
HasPin(f, s) == f.entities[s].pin # NoPin
HasPins(f) == \E s \in Sims : HasPin(f, s)
Usable(bundle) ==
    [s \in Sims |-> IF bundle[s] = NoPin \/ stored[s] = NoPin THEN NoEntity
                    ELSE [pin |-> bundle[s], invalid |-> stored[s] = "invalid"]]

(* A task that was not marked as done is delivered again as it was.        *)
Start(i) ==
    LET Started(bundle) == [Dead EXCEPT !.pc = "listen", !.bundle = bundle,
                                        !.entities = Usable(bundle)]
    IN  /\ \A j \in Feeders \ {i} : feeder[j].pc = "none" \/ feeder[j].released
        /\ \/ feeder[i].pc = "none" /\ \E bundle \in Bundle \ {NoPins} :
                 feeder' = [feeder EXCEPT ![i] = Started(bundle)]
           \/ feeder[i].pc = "again" /\ feeder' = [feeder EXCEPT ![i] = Started(feeder[i].bundle)]
        /\ UNCHANGED <<sim, news, stored, tried, spent>>

(* The worker that waits is interrupted by a service that was timed out.   *)
Cancel(i) ==
    /\ feeder[i].pc \notin {"none", "again"} /\ ~feeder[i].released
    /\ feeder' = [feeder EXCEPT ![i].released = TRUE]
    /\ UNCHANGED <<sim, news, stored, tried, spent>>

(* The process dies with what it has not written.                          *)
Crash ==
    LET verdict(s) == \E i \in Feeders : /\ feeder[i].pc \in {"accepted", "refused"}
                                         /\ feeder[i].at = s
    IN  /\ feeder' = [i \in Feeders |->
                         IF feeder[i].pc = "none" \/ feeder[i].released THEN Dead
                         ELSE [Dead EXCEPT !.pc = "again", !.bundle = feeder[i].bundle]]
        /\ tried' = [s \in Sims |-> IF verdict(s) THEN "lost" ELSE tried[s]]
        /\ UNCHANGED <<sim, news, stored, spent>>

-----------------------------------------------------------------------------
(* The thread's steps: run.                                                *)
Goes(i, f) == feeder' = [feeder EXCEPT ![i] = f]
OnlyThread == UNCHANGED <<sim, news, stored, tried, spent>>
NextSim(f) == [f EXCEPT !.pc = "sims", !.at = @ + 1, !.retries = 0]
Dropped(f) == [f EXCEPT !.entities[f.at] = NoEntity]

Listen(i) ==
    /\ feeder[i].pc = "listen"
    /\ Goes(i, IF HasPins(feeder[i])
               THEN [feeder[i] EXCEPT !.listens = TRUE, !.pc = "refresh"]
               ELSE Dead)
    /\ OnlyThread

RefreshSimCardCacheList(i) ==
    /\ feeder[i].pc = "refresh"
    /\ Goes(i, IF feeder[i].released THEN [feeder[i] EXCEPT !.pc = "leave"]
               ELSE [feeder[i] EXCEPT !.pc = "sims", !.at = 1,
                        !.cache = {s \in Sims : sim[s].state # "off"}])
    /\ OnlyThread

(* The next SIM of the pass, if it needs a PIN that is at hand.            *)
LookAt(i) ==
    LET f == feeder[i]
    IN  /\ f.pc = "sims" /\ f.at \in Sims
        /\ ~f.released /\ HasPins(f)
        /\ Goes(i, IF f.at \in f.cache /\ HasPin(f, f.at) /\ sim[f.at].state = "pin"
                   THEN [f EXCEPT !.pc = "count"] ELSE NextSim(f))
        /\ OnlyThread

(* Mutant: only what comes during the wait counts. *)
PassEndsForgetting(i) ==
    LET f == feeder[i]
    IN  /\ f.pc = "sims"
        /\ f.at \notin Sims \/ f.released \/ ~HasPins(f)
        /\ Goes(i, [f EXCEPT !.pc = IF f.released \/ ~HasPins(f) THEN "leave" ELSE "wait",
                             !.changed = FALSE])
        /\ OnlyThread

PassEnds(i) ==
    LET f == feeder[i]
    IN  /\ f.pc = "sims"
        /\ f.at \notin Sims \/ f.released \/ ~HasPins(f)
        /\ Goes(i, [f EXCEPT !.pc = IF f.released \/ ~HasPins(f) THEN "leave" ELSE "wait"])
        /\ OnlyThread

(* Mutant: the attempts are not counted. *)
CountNothing(i) ==
    /\ feeder[i].pc = "count"
    /\ Goes(i, [feeder[i] EXCEPT !.pc = "supply", !.retries = 1])
    /\ OnlyThread

(* "we absolutely want to *STOP* here": also when the count is not known.  *)
Count(i) ==
    LET f == feeder[i]
    IN  /\ f.pc = "count"
        /\ \/ sim[f.at].left = 3 /\ Unlockable(f.at)
              /\ Goes(i, [f EXCEPT !.pc = "supply", !.retries = 1])
           \/ Goes(i, NextSim(Dropped(f)))
        /\ OnlyThread

(* A result other than success and a wrong PIN: the next of three tries,   *)
(* then the user is notified.                                              *)
Failed(f) == IF f.retries < 3 THEN [f EXCEPT !.retries = @ + 1] ELSE NextSim(Dropped(f))

SupplyPin(i) ==
    LET f == feeder[i]
        s == f.at
        right == f.entities[s].pin = "right"
        Wastes == EnterWrong(s) /\ spent' = [spent EXCEPT ![s] = @ + 1]
    IN  /\ f.pc = "supply"
        /\ \/ /\ Unlockable(s)
              /\ IF right THEN EnterRight(s) ELSE Wastes
              /\ \/ /\ Goes(i, [f EXCEPT !.pc = IF right THEN "accepted" ELSE "refused"])
                    /\ tried' = [tried EXCEPT ![s] = IF right THEN "good" ELSE "invalid"]
                 \/ LostAnswers /\ Goes(i, Failed(f)) /\ UNCHANGED tried
           \/ Goes(i, Failed(f)) /\ UNCHANGED <<sim, news, tried, spent>>
        /\ UNCHANGED stored

(* The row as it is now, whichever PIN is in it, takes the mark.           *)
Remember(s, mark) ==
    stored' = IF stored[s] # NoPin THEN [stored EXCEPT ![s] = mark] ELSE stored

(* Mutant: a PIN that works at last stays marked. *)
MarkRefusedOnly(i) ==
    LET f == feeder[i]
    IN  /\ f.pc \in {"accepted", "refused"}
        /\ Remember(f.at, IF f.pc = "refused" THEN "invalid" ELSE stored[f.at])
        /\ Goes(i, NextSim(Dropped(f)))
        /\ UNCHANGED <<sim, news, tried, spent>>

Mark(i) ==
    LET f == feeder[i]
    IN  /\ f.pc \in {"accepted", "refused"}
        /\ Remember(f.at, IF f.pc = "refused" THEN "invalid"
                          ELSE IF f.entities[f.at].invalid THEN "good"
                          ELSE stored[f.at])
        /\ Goes(i, NextSim(Dropped(f)))
        /\ UNCHANGED <<sim, news, tried, spent>>

(* The flag is looked at and reset with the listener's monitor held; ten   *)
(* seconds without news, or cancel, end the thread.                        *)
Wait(i) ==
    LET f == feeder[i]
    IN  /\ f.pc = "wait"
        /\ Goes(i, IF f.changed THEN [f EXCEPT !.changed = FALSE, !.pc = "refresh"]
                   ELSE [f EXCEPT !.pc = "leave"])
        /\ OnlyThread

Leave(i) ==
    /\ feeder[i].pc = "leave"
    /\ Goes(i, Dead)
    /\ OnlyThread

-----------------------------------------------------------------------------
Run(i) == \/ Listen(i) \/ RefreshSimCardCacheList(i) \/ LookAt(i) \/ PassEnds(i)
          \/ Count(i) \/ SupplyPin(i) \/ Mark(i) \/ Wait(i) \/ Leave(i)

FeederNext ==
    \/ \E s \in Sims : SimChanges(s) \/ UserEnters(s) \/ Broadcast(s) \/ UserEdits(s)
    \/ \E i \in Feeders : Start(i) \/ Cancel(i) \/ Run(i)
    \/ Crash

FeederSpec == FeederInit /\ [][FeederNext]_pinVars

-----------------------------------------------------------------------------
(* "prevent things from getting critical, like putting the device into the *)
(* PUK state": whatever the user does at the same time, and however often  *)
(* the alarm brings a PIN that is wrong, feeders waste no more than one of *)
(* the three attempts between two entries of the right one.                *)
OneAttemptIsWasted == \A s \in Sims : spent[s] <= 1

(* A feeder that gives up after ten seconds without news leaves no SIM     *)
(* waiting for a PIN it has, unless the SIM's broadcast is still to come.  *)
NoLockedSimIsMissed ==
    [][\A i \in Feeders, s \in Sims :
          /\ feeder[i].pc = "wait" /\ feeder'[i].pc = "leave" /\ ~feeder[i].released
          /\ HasPin(feeder[i], s)
          /\ sim[s].state = "pin"
          => s \in news]_pinVars

(* What is remembered of a stored PIN is how the last one tried for its    *)
(* SIM was found, over any number of alarms, cancellations and deaths,     *)
(* unless the process has died between the try and the mark.               *)
MarkMatchesLastTry ==
    \A s \in Sims :
        \/ stored[s] = NoPin \/ tried[s] = "lost"
        \/ \E i \in Feeders : feeder[i].pc \in {"accepted", "refused"} /\ feeder[i].at = s
        \/ stored[s] = IF tried[s] = NoPin THEN "good" ELSE tried[s]
=============================================================================
