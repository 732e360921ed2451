-------------------------- MODULE SimPinFeederProofs --------------------------
(***************************************************************************)
(* What holds of SimPinFeeder for any SIMs, any user and any order of the  *)
(* broadcasts: a feeder that gives up has not missed a SIM, whatever else  *)
(* goes on; one feeder at a time wastes one attempt at most, and keeps the *)
(* marks of PinStorage true.                                               *)
(***************************************************************************)
EXTENDS SimPinFeeder, FiniteSetTheorems, TLAPS

N == Cardinality(Sims)
AtSim == {"count", "supply", "accepted", "refused"}
InPass == AtSim \union {"sims", "wait"}

(* Where a thread is in its pass, and that it hears the broadcasts.        *)
InOrder(f) ==
    /\ f.pc \in InPass \union {"refresh", "leave"} => f.listens
    /\ f.pc \in InPass => f.at >= 1
    /\ f.pc \in AtSim => f.at \in Sims /\ HasPin(f, f.at)
    /\ f.pc = "wait" => f.at = N + 1

(* What makes NoLockedSimIsMissed inductive: as long as a pass has heard   *)
(* nothing, a SIM that is not in its list, or that is locked although the  *)
(* pass has been there, is one whose broadcast is still to come.           *)
HearsOfAll(f) ==
    f.pc \in InPass /\ ~f.changed =>
        \A s \in Sims :
            /\ s \notin f.cache /\ sim[s].state # "off" => s \in news
            /\ s < f.at /\ HasPin(f, s) /\ sim[s].state = "pin" => s \in news

(* The attempts a SIM has left pay for those that were wasted.             *)
AttemptsAddUp ==
    \A s \in Sims : /\ spent[s] + sim[s].left <= 3
                    /\ Unlockable(s) => sim[s].left >= 1

FeederInv ==
    /\ FeederTypeOK
    /\ AttemptsAddUp
    /\ \A i \in Feeders : InOrder(feeder[i]) /\ HearsOfAll(feeder[i])

(* With no other feeder, an attempt is made on a SIM of which none was     *)
(* wasted, and the marks a thread has read are those of the rows.          *)
OneFeeder == \A i, j \in Feeders : i = j

NoneWastedYet ==
    \A i \in Feeders : feeder[i].pc = "supply" => spent[feeder[i].at] = 0

IsFresh(f) ==
    /\ f.pc \notin {"none", "again"} =>
          \A s \in Sims : HasPin(f, s) /\ stored[s] # NoPin =>
                             f.entities[s].invalid = (stored[s] = "invalid")
    /\ f.pc = "accepted" => tried[f.at] = "good"
    /\ f.pc = "refused" => tried[f.at] = "invalid"

MarksAreFresh == \A i \in Feeders : IsFresh(feeder[i])
-----------------------------------------------------------------------------
LEMMA SimsAreNumbers ==
    N \in Nat /\ Sims = 1..N /\ \A n \in 1..(N + 1) : n \notin Sims => n = N + 1
<1>1. N \in Nat
  BY FeederAssumption, FS_CardinalityType DEF N
<1> QED
  BY <1>1, FeederAssumption DEF N

LEMMA DeadIsAThread == Dead \in Thread
<1>1. 0 \in 0..(N + 1)
  BY SimsAreNumbers
<1>2. NoEntity \in Entity /\ NoPins \in Bundle
  BY DEF NoEntity, Entity, NoPins, Bundle, NoPin
<1> QED
  BY <1>1, <1>2 DEF Dead, Thread, N

LEMMA InitFeederInv == FeederInit => FeederInv
<1> SUFFICES ASSUME FeederInit PROVE FeederInv
  OBVIOUS
<1>1. \A s \in Sims : sim[s].left = 3 /\ spent[s] = 0
  BY DEF FeederInit
<1>2. AttemptsAddUp
  BY <1>1 DEF AttemptsAddUp
<1>3. \A i \in Feeders : feeder[i].pc = "none"
  BY DEF FeederInit, Dead
<1>4. \A i \in Feeders : InOrder(feeder[i]) /\ HearsOfAll(feeder[i])
  BY <1>3 DEF InOrder, HearsOfAll, InPass, AtSim
<1>5. sim \in [Sims -> [state : {"off", "booting", "pin", "ready", "puk"}, left : 0..3]]
  BY DEF FeederInit
<1>6. FeederTypeOK
  BY <1>5, DeadIsAThread DEF FeederTypeOK, FeederInit, NoPins, NoPin
<1> QED
  BY <1>2, <1>4, <1>6 DEF FeederInv
-----------------------------------------------------------------------------
(* The SIMs, whoever handles them.                                         *)

(* A SIM turns up, or is locked, with a broadcast to come.                 *)
Announced ==
    /\ news \subseteq news' /\ news' \subseteq Sims
    /\ \A s \in Sims :
          /\ sim'[s].state = "pin" => sim[s].state = "pin" \/ s \in news'
          /\ sim'[s].state # "off" => sim[s].state # "off" \/ s \in news'

SimsTyped ==
    /\ sim \in [Sims -> [state : {"off", "booting", "pin", "ready", "puk"}, left : 0..3]]
    /\ news \subseteq Sims
    /\ spent \in [Sims -> 0..3]

LEMMA BecameIsAnnounced ==
    ASSUME SimsTyped, NEW s \in Sims, NEW left \in 0..3,
           NEW state \in {"off", "booting", "pin", "ready", "puk"}, Became(s, state, left)
    PROVE  /\ Announced
           /\ sim' \in [Sims -> [state : {"off", "booting", "pin", "ready", "puk"}, left : 0..3]]
           /\ sim'[s].state = state /\ sim'[s].left = left
           /\ \A t \in Sims \ {s} : sim'[t] = sim[t]
<1> DEFINE card == [state |-> state, left |-> left]
<1>1. sim' = [sim EXCEPT ![s] = card]
      /\ news' = IF state = sim[s].state THEN news ELSE news \union {s}
  BY DEF Became
<1>2. card \in [state : {"off", "booting", "pin", "ready", "puk"}, left : 0..3]
      /\ card.state = state /\ card.left = left
  OBVIOUS
<1> HIDE DEF card
<1>3. sim' \in [Sims -> [state : {"off", "booting", "pin", "ready", "puk"}, left : 0..3]]
  BY <1>1, <1>2 DEF SimsTyped
<1>4. sim'[s] = card /\ \A t \in Sims \ {s} : sim'[t] = sim[t]
  BY <1>1 DEF SimsTyped
<1>5. Announced
  BY <1>1, <1>2, <1>4 DEF Announced, SimsTyped
<1> QED
  BY <1>2, <1>3, <1>4, <1>5

LEMMA EnterRightIsSafe ==
    ASSUME SimsTyped, AttemptsAddUp, NEW s \in Sims, EnterRight(s)
    PROVE  /\ SimsTyped' /\ AttemptsAddUp' /\ Announced
           /\ \A t \in Sims : spent'[t] <= spent[t]
<1>1. Became(s, "ready", 3) /\ spent' = [spent EXCEPT ![s] = 0]
  BY DEF EnterRight
<1>2. /\ Announced
      /\ sim' \in [Sims -> [state : {"off", "booting", "pin", "ready", "puk"}, left : 0..3]]
      /\ sim'[s].state = "ready" /\ sim'[s].left = 3
      /\ \A t \in Sims \ {s} : sim'[t] = sim[t]
  BY <1>1, BecameIsAnnounced
<1>3. spent' \in [Sims -> 0..3] /\ spent'[s] = 0 /\ \A t \in Sims \ {s} : spent'[t] = spent[t]
  BY <1>1 DEF SimsTyped
<1>4. SimsTyped'
  BY <1>2, <1>3 DEF SimsTyped, Announced
<1>5. AttemptsAddUp'
  BY <1>2, <1>3 DEF AttemptsAddUp, Unlockable
<1>6. \A t \in Sims : spent'[t] <= spent[t]
  BY <1>3 DEF SimsTyped
<1> QED
  BY <1>2, <1>4, <1>5, <1>6

LEMMA EnterWrongIsAnnounced ==
    ASSUME SimsTyped, AttemptsAddUp, NEW s \in Sims, Unlockable(s), EnterWrong(s)
    PROVE  /\ Announced
           /\ sim' \in [Sims -> [state : {"off", "booting", "pin", "ready", "puk"}, left : 0..3]]
           /\ sim'[s].left = sim[s].left - 1
           /\ sim'[s].state = "puk" \/ sim'[s].left >= 1
           /\ \A t \in Sims \ {s} : sim'[t] = sim[t]
<1> DEFINE state == IF sim[s].left = 1 THEN "puk" ELSE sim[s].state
           left == sim[s].left - 1
<1>1. sim[s].left >= 1 /\ sim[s].left \in 0..3
      /\ sim[s].state \in {"off", "booting", "pin", "ready", "puk"}
  BY DEF AttemptsAddUp, SimsTyped
<1>2. left \in 0..3 /\ state \in {"off", "booting", "pin", "ready", "puk"}
      /\ (state = "puk" \/ left >= 1)
  BY <1>1
<1>3. Became(s, state, left)
  BY DEF EnterWrong
<1> HIDE DEF state, left
<1>4. /\ Announced
      /\ sim' \in [Sims -> [state : {"off", "booting", "pin", "ready", "puk"}, left : 0..3]]
      /\ sim'[s].state = state /\ sim'[s].left = left
      /\ \A t \in Sims \ {s} : sim'[t] = sim[t]
  BY <1>2, <1>3, BecameIsAnnounced
<1> QED
  BY <1>2, <1>4 DEF left
-----------------------------------------------------------------------------
(* The threads. HearsOfAll of a thread as it is after the step.            *)
HearsNext(g) ==
    g.pc \in InPass /\ ~g.changed =>
        \A s \in Sims :
            /\ s \notin g.cache /\ sim'[s].state # "off" => s \in news'
            /\ s < g.at /\ HasPin(g, s) /\ sim'[s].state = "pin" => s \in news'

LEMMA StillHears ==
    ASSUME Announced, NEW i \in Feeders, HearsOfAll(feeder[i])
    PROVE  HearsNext(feeder[i])
BY DEF Announced, HearsOfAll, HearsNext

LEMMA OnlyThreadIsQuiet ==
    ASSUME FeederInv, OnlyThread
    PROVE  /\ SimsTyped /\ SimsTyped' /\ AttemptsAddUp' /\ Announced
           /\ stored' \in [Sims -> {NoPin, "good", "invalid"}]
           /\ tried' \in [Sims -> {NoPin, "good", "invalid", "lost"}]
<1>1. UNCHANGED <<sim, news, stored, tried, spent>>
  BY DEF OnlyThread
<1> QED
  BY <1>1 DEF FeederInv, FeederTypeOK, SimsTyped, AttemptsAddUp, Announced, Unlockable

(* A step of thread i, or of what starts and stops it.                     *)
LEMMA ThreadStepInv ==
    ASSUME FeederInv, NEW i \in Feeders, NEW g \in Thread, Goes(i, g),
           SimsTyped', AttemptsAddUp', Announced,
           stored' \in [Sims -> {NoPin, "good", "invalid"}],
           tried' \in [Sims -> {NoPin, "good", "invalid", "lost"}],
           InOrder(g), HearsNext(g)
    PROVE  FeederInv'
<1>1. feeder \in [Feeders -> Thread]
  BY DEF FeederInv, FeederTypeOK
<1>2. feeder' \in [Feeders -> Thread]
  BY <1>1 DEF Goes
<1>3. feeder'[i] = g /\ \A j \in Feeders \ {i} : feeder'[j] = feeder[j]
  BY <1>1 DEF Goes
<1>4. ASSUME NEW j \in Feeders PROVE InOrder(feeder'[j]) /\ HearsNext(feeder'[j])
  <2>1. CASE j = i
    BY <1>3, <2>1
  <2>2. CASE j # i
    <3>1. feeder'[j] = feeder[j] /\ InOrder(feeder[j]) /\ HearsOfAll(feeder[j])
      BY <1>3, <2>2 DEF FeederInv
    <3> QED
      BY <3>1, StillHears
  <2> QED
    BY <2>1, <2>2
<1>5. \A j \in Feeders : InOrder(feeder[j])' /\ HearsOfAll(feeder[j])'
  BY <1>4 DEF InOrder, HearsOfAll, HearsNext, HasPin
<1>6. FeederTypeOK'
  BY <1>2 DEF FeederTypeOK, SimsTyped
<1> QED
  BY <1>5, <1>6 DEF FeederInv

(* Outside a pass there is nothing to have missed.                         *)
LEMMA OutOfPass ==
    ASSUME NEW g, g.pc \notin InPass, g.pc \in {"refresh", "leave"} => g.listens
    PROVE  InOrder(g) /\ HearsNext(g)
BY DEF InOrder, HearsNext, InPass, AtSim

LEMMA ThreadTyped ==
    ASSUME FeederInv, NEW i \in Feeders
    PROVE  /\ feeder[i] \in Thread
           /\ InOrder(feeder[i])
           /\ HearsOfAll(feeder[i])
           /\ Announced => HearsNext(feeder[i])
BY StillHears DEF FeederInv, FeederTypeOK

LEMMA ThreadWith ==
    ASSUME NEW f \in Thread, NEW e \in [Sims -> Entity], NEW pc \in {"sims", "wait"},
           NEW at \in 0..(N + 1), NEW retries \in 0..3
    PROVE  [f EXCEPT !.entities = e, !.pc = pc, !.at = at, !.retries = retries] \in Thread
BY DEF Thread, N

(* To the next SIM, with the PIN of this one or without it.                *)
LEMMA NextSimHears ==
    ASSUME FeederInv, NEW i \in Feeders, NEW entities \in [Sims -> Entity],
           Announced, SimsTyped, SimsTyped',
           feeder[i].pc \in AtSim \union {"sims"}, feeder[i].at \in Sims,
           \A s \in Sims \ {feeder[i].at} : entities[s] = feeder[i].entities[s],
           \/ entities[feeder[i].at].pin = NoPin
           \/ feeder[i].at \notin feeder[i].cache
           \/ sim'[feeder[i].at].state = "pin" => feeder[i].at \in news'
    PROVE  LET g == NextSim([feeder[i] EXCEPT !.entities = entities])
           IN  g \in Thread /\ InOrder(g) /\ HearsNext(g)
<1> DEFINE f == feeder[i]
           g == [f EXCEPT !.entities = entities, !.pc = "sims", !.at = f.at + 1, !.retries = 0]
<1>1. f \in Thread /\ InOrder(f) /\ HearsNext(f)
  BY ThreadTyped
<1>2. f.at \in 1..N /\ f.at + 1 \in 0..(N + 1) /\ f.at + 1 >= 1
  BY SimsAreNumbers
<1>3. g = NextSim([f EXCEPT !.entities = entities])
  BY <1>1 DEF NextSim, Thread
<1>4. g \in Thread
  <2> DEFINE next == f.at + 1
  <2>1. f \in Thread /\ next \in 0..(N + 1) /\ 0 \in 0..3 /\ "sims" \in {"sims", "wait"}
    BY <1>1, <1>2
  <2> HIDE DEF f, next
  <2>2. [f EXCEPT !.entities = entities, !.pc = "sims", !.at = next, !.retries = 0] \in Thread
    BY <2>1, ThreadWith
  <2> QED
    BY <2>2 DEF next
<1>5. /\ g.pc = "sims" /\ g.at = f.at + 1 /\ g.entities = entities
      /\ g.cache = f.cache /\ g.changed = f.changed /\ g.listens = f.listens
  BY <1>1 DEF Thread
<1> HIDE DEF g
<1>6. InOrder(g)
  BY <1>1, <1>2, <1>5 DEF InOrder, InPass, AtSim
<1>7. ASSUME g.pc \in InPass, ~g.changed, NEW s \in Sims
      PROVE  /\ s \notin g.cache /\ sim'[s].state # "off" => s \in news'
             /\ s < g.at /\ HasPin(g, s) /\ sim'[s].state = "pin" => s \in news'
  <2>1. /\ s \notin f.cache /\ sim'[s].state # "off" => s \in news'
        /\ s < f.at /\ HasPin(f, s) /\ sim'[s].state = "pin" => s \in news'
    BY <1>1, <1>5, <1>7 DEF HearsNext, InPass
  <2>2. CASE s = f.at
    BY <1>5, <2>1, <2>2 DEF HasPin
  <2>3. CASE s # f.at
    <3>1. s < g.at => s < f.at
      BY <1>2, <1>5, <2>3, SimsAreNumbers
    <3>2. HasPin(g, s) => HasPin(f, s)
      BY <1>5, <2>3 DEF HasPin
    <3> QED
      BY <1>5, <2>1, <3>1, <3>2
  <2> QED
    BY <2>2, <2>3
<1>8. HearsNext(g)
  BY <1>7 DEF HearsNext
<1> QED
  BY <1>3, <1>4, <1>6, <1>8

LEMMA DropHears ==
    ASSUME FeederInv, NEW i \in Feeders, Announced, SimsTyped, SimsTyped',
           feeder[i].pc \in AtSim
    PROVE  LET g == NextSim(Dropped(feeder[i]))
           IN  g \in Thread /\ InOrder(g) /\ HearsNext(g)
<1> DEFINE f == feeder[i]
           e == [f.entities EXCEPT ![f.at] = NoEntity]
<1>1. f \in Thread /\ f.at \in Sims
  BY ThreadTyped DEF InOrder
<1>2. f.entities \in [Sims -> Entity] /\ NoEntity \in Entity /\ NoEntity.pin = NoPin
  BY <1>1 DEF Thread, NoEntity, Entity, NoPin
<1>3. e \in [Sims -> Entity] /\ e[f.at] = NoEntity
      /\ \A s \in Sims \ {f.at} : e[s] = f.entities[s]
  BY <1>1, <1>2
<1>4. Dropped(f) = [f EXCEPT !.entities = e]
  BY <1>1 DEF Dropped, Thread
<1> HIDE DEF e
<1>5. e[f.at].pin = NoPin
  BY <1>2, <1>3
<1> QED
  BY <1>1, <1>3, <1>4, <1>5, NextSimHears

LEMMA ListenInv ==
    ASSUME FeederInv, NEW i \in Feeders, Listen(i)
    PROVE  FeederInv'
<1> DEFINE g == [feeder[i] EXCEPT !.listens = TRUE, !.pc = "refresh"]
<1>1. OnlyThread /\ (Goes(i, g) \/ Goes(i, Dead))
  BY DEF Listen
<1>2. g \in Thread /\ g.pc = "refresh" /\ g.listens
  BY ThreadTyped DEF Thread
<1>3. InOrder(g) /\ HearsNext(g)
  BY <1>2, OutOfPass DEF InPass, AtSim
<1>4. InOrder(Dead) /\ HearsNext(Dead)
  BY OutOfPass DEF Dead, InPass, AtSim
<1> HIDE DEF g
<1> QED
  BY <1>1, <1>2, <1>3, <1>4, DeadIsAThread, ThreadStepInv, OnlyThreadIsQuiet

(* The list that a pass starts with has each SIM that is not off.          *)
LEMMA RefreshInv ==
    ASSUME FeederInv, NEW i \in Feeders, RefreshSimCardCacheList(i)
    PROVE  FeederInv'
<1> DEFINE f == feeder[i]
           c == {s \in Sims : sim[s].state # "off"}
           leaving == [f EXCEPT !.pc = "leave"]
           passing == [f EXCEPT !.pc = "sims", !.at = 1, !.cache = c]
<1>1. OnlyThread /\ (Goes(i, leaving) \/ Goes(i, passing)) /\ f.pc = "refresh"
  BY DEF RefreshSimCardCacheList
<1>2. f \in Thread /\ f.listens
  BY <1>1, ThreadTyped DEF InOrder
<1>3. leaving \in Thread /\ leaving.pc = "leave" /\ leaving.listens
  BY <1>2 DEF Thread
<1>4. InOrder(leaving) /\ HearsNext(leaving)
  BY <1>3, OutOfPass DEF InPass, AtSim
<1>5. 1 \in 0..(N + 1) /\ c \subseteq Sims
  BY SimsAreNumbers
<1>6. /\ passing \in Thread /\ passing.pc = "sims" /\ passing.at = 1
      /\ passing.cache = c /\ passing.listens
  BY <1>2, <1>5 DEF Thread, N
<1> HIDE DEF passing, leaving
<1>7. InOrder(passing)
  BY <1>6 DEF InOrder, InPass, AtSim
<1>8. HearsNext(passing)
  <2>1. \A s \in Sims : ~(s < 1)
    BY SimsAreNumbers
  <2>2. sim' = sim
    BY <1>1 DEF OnlyThread
  <2> QED
    BY <1>6, <2>1, <2>2 DEF HearsNext
<1> QED
  BY <1>1, <1>3, <1>4, <1>6, <1>7, <1>8, ThreadStepInv, OnlyThreadIsQuiet

(* A step that changes neither what the thread has seen nor its PINs.      *)
LEMMA SamePass ==
    ASSUME FeederInv, NEW i \in Feeders, NEW g \in Thread, Announced,
           feeder[i].pc \in InPass, g.pc \in InPass,
           g.at = feeder[i].at,
           g.cache = feeder[i].cache, g.entities = feeder[i].entities,
           g.changed = feeder[i].changed, g.listens = feeder[i].listens,
           g.pc \in AtSim => g.at \in Sims /\ HasPin(g, g.at),
           g.pc = "wait" => g.at = N + 1
    PROVE  InOrder(g) /\ HearsNext(g)
<1>1. InOrder(feeder[i]) /\ HearsNext(feeder[i])
  BY ThreadTyped
<1>2. InOrder(g)
  BY <1>1 DEF InOrder
<1>3. HearsNext(g)
  BY <1>1 DEF HearsNext, HasPin
<1> QED
  BY <1>2, <1>3

LEMMA LookAtInv ==
    ASSUME FeederInv, NEW i \in Feeders, LookAt(i)
    PROVE  FeederInv'
<1> DEFINE f == feeder[i]
           needed == f.at \in f.cache /\ HasPin(f, f.at) /\ sim[f.at].state = "pin"
           counting == [f EXCEPT !.pc = "count"]
<1>1. f.pc = "sims" /\ f.at \in Sims /\ OnlyThread /\ sim' = sim
  BY DEF LookAt, OnlyThread
<1>2. f \in Thread
  BY ThreadTyped
<1>3. CASE needed
  <2>1. Goes(i, counting)
    BY <1>3 DEF LookAt
  <2>2. /\ counting \in Thread /\ counting.pc = "count" /\ counting.at = f.at
        /\ counting.cache = f.cache /\ counting.entities = f.entities
        /\ counting.changed = f.changed /\ counting.listens = f.listens
    BY <1>2 DEF Thread
  <2> HIDE DEF counting
  <2>3. InOrder(counting) /\ HearsNext(counting)
    BY <1>1, <1>3, <2>2, SamePass, OnlyThreadIsQuiet DEF InPass, AtSim, HasPin
  <2> QED
    BY <1>1, <2>1, <2>2, <2>3, ThreadStepInv, OnlyThreadIsQuiet
<1>4. CASE ~needed
  <2>1. Goes(i, NextSim(f))
    BY <1>4 DEF LookAt
  <2>2. f = [f EXCEPT !.entities = f.entities] /\ f.entities \in [Sims -> Entity]
    BY <1>2 DEF Thread
  <2>3. \/ f.entities[f.at].pin = NoPin
        \/ f.at \notin f.cache
        \/ sim'[f.at].state = "pin" => f.at \in news'
    BY <1>1, <1>4 DEF HasPin
  <2>4. NextSim(f) \in Thread /\ InOrder(NextSim(f)) /\ HearsNext(NextSim(f))
    BY <1>1, <2>2, <2>3, NextSimHears, OnlyThreadIsQuiet
  <2> QED
    BY <1>1, <2>1, <2>4, ThreadStepInv, OnlyThreadIsQuiet
<1> QED
  BY <1>3, <1>4

LEMMA PassEndsInv ==
    ASSUME FeederInv, NEW i \in Feeders, PassEnds(i)
    PROVE  FeederInv'
<1> DEFINE f == feeder[i]
           leaving == [f EXCEPT !.pc = "leave"]
           waiting == [f EXCEPT !.pc = "wait"]
<1>1. f.pc = "sims" /\ OnlyThread /\ f \in Thread /\ InOrder(f)
  BY ThreadTyped DEF PassEnds
<1>2. \/ Goes(i, leaving)
      \/ Goes(i, waiting) /\ f.at \notin Sims
  BY DEF PassEnds
<1>3. leaving \in Thread /\ leaving.pc = "leave" /\ leaving.listens
  BY <1>1 DEF Thread, InOrder, InPass
<1>4. /\ waiting \in Thread /\ waiting.pc = "wait" /\ waiting.at = f.at
      /\ waiting.cache = f.cache /\ waiting.entities = f.entities
      /\ waiting.changed = f.changed /\ waiting.listens = f.listens
  BY <1>1 DEF Thread
<1> HIDE DEF leaving, waiting
<1>5. CASE Goes(i, leaving)
  BY <1>1, <1>3, <1>5, OutOfPass, ThreadStepInv, OnlyThreadIsQuiet DEF InPass, AtSim
<1>6. CASE Goes(i, waiting) /\ f.at \notin Sims
  <2>1. f.at \in 0..(N + 1) /\ f.at >= 1
    BY <1>1 DEF Thread, N, InOrder, InPass
  <2>2. f.at = N + 1
    BY <1>6, <2>1, SimsAreNumbers
  <2>3. InOrder(waiting) /\ HearsNext(waiting)
    BY <1>1, <1>4, <2>2, SamePass, OnlyThreadIsQuiet DEF InPass, AtSim
  <2> QED
    BY <1>1, <1>4, <1>6, <2>3, ThreadStepInv, OnlyThreadIsQuiet
<1> QED
  BY <1>2, <1>5, <1>6

(* A thread that goes on with the same SIM.                                *)
LEMMA SameSimHears ==
    ASSUME FeederInv, NEW i \in Feeders, Announced, feeder[i].pc \in AtSim,
           NEW pc \in AtSim, NEW retries \in 0..3
    PROVE  LET g == [feeder[i] EXCEPT !.pc = pc, !.retries = retries]
           IN  g \in Thread /\ InOrder(g) /\ HearsNext(g)
<1> DEFINE f == feeder[i]
           g == [f EXCEPT !.pc = pc, !.retries = retries]
<1>1. f \in Thread /\ InOrder(f)
  BY ThreadTyped
<1>2. /\ g \in Thread /\ g.pc = pc /\ g.at = f.at
      /\ g.cache = f.cache /\ g.entities = f.entities
      /\ g.changed = f.changed /\ g.listens = f.listens
  BY <1>1 DEF Thread, AtSim
<1>3. f.at \in Sims /\ HasPin(f, f.at)
  BY <1>1 DEF InOrder
<1> HIDE DEF g
<1>4. InOrder(g) /\ HearsNext(g)
  BY <1>2, <1>3, SamePass DEF InPass, AtSim, HasPin
<1> QED
  BY <1>2, <1>4 DEF g

LEMMA CountInv ==
    ASSUME FeederInv, NEW i \in Feeders, Count(i)
    PROVE  FeederInv'
<1> DEFINE f == feeder[i]
           supplying == [f EXCEPT !.pc = "supply", !.retries = 1]
<1>1. f.pc \in AtSim /\ OnlyThread /\ (Goes(i, supplying) \/ Goes(i, NextSim(Dropped(f))))
  BY DEF Count, AtSim
<1>2. "supply" \in AtSim /\ 1 \in 0..3
  BY DEF AtSim
<1>3. supplying \in Thread /\ InOrder(supplying) /\ HearsNext(supplying)
  BY <1>1, <1>2, SameSimHears, OnlyThreadIsQuiet
<1> HIDE DEF supplying
<1> QED
  BY <1>1, <1>3, DropHears, ThreadStepInv, OnlyThreadIsQuiet

LEMMA FailedHears ==
    ASSUME FeederInv, NEW i \in Feeders, Announced, SimsTyped, SimsTyped',
           feeder[i].pc = "supply"
    PROVE  LET g == Failed(feeder[i])
           IN  g \in Thread /\ InOrder(g) /\ HearsNext(g)
<1> DEFINE f == feeder[i]
<1>1. f \in Thread /\ f.pc \in AtSim
  BY ThreadTyped DEF AtSim
<1>2. CASE f.retries < 3
  <2>1. f.retries + 1 \in 0..3
    BY <1>1, <1>2 DEF Thread
  <2>2. Failed(f) = [f EXCEPT !.pc = "supply", !.retries = f.retries + 1]
    BY <1>1, <1>2 DEF Failed, Thread
  <2>3. "supply" \in AtSim
    BY DEF AtSim
  <2> DEFINE next == f.retries + 1
             g == [f EXCEPT !.pc = "supply", !.retries = next]
  <2>4. next \in 0..3
    BY <2>1
  <2> HIDE DEF next
  <2>5. g \in Thread /\ InOrder(g) /\ HearsNext(g)
    BY <1>1, <2>3, <2>4, SameSimHears
  <2> QED
    BY <2>2, <2>5 DEF next
<1>3. CASE ~(f.retries < 3)
  BY <1>1, <1>3, DropHears DEF Failed
<1> QED
  BY <1>2, <1>3

(* spent does not pass 3: what a SIM has left pays for it.                 *)
LEMMA WasteIsSafe ==
    ASSUME SimsTyped, AttemptsAddUp, NEW s \in Sims, Unlockable(s), EnterWrong(s),
           spent' = [spent EXCEPT ![s] = @ + 1]
    PROVE  SimsTyped' /\ AttemptsAddUp' /\ Announced
<1>1. /\ Announced
      /\ sim' \in [Sims -> [state : {"off", "booting", "pin", "ready", "puk"}, left : 0..3]]
      /\ sim'[s].left = sim[s].left - 1
      /\ sim'[s].state = "puk" \/ sim'[s].left >= 1
      /\ \A t \in Sims \ {s} : sim'[t] = sim[t]
  BY EnterWrongIsAnnounced
<1>2. spent[s] + sim[s].left <= 3 /\ sim[s].left >= 1 /\ sim[s].left \in 0..3 /\ spent[s] \in 0..3
  BY DEF AttemptsAddUp, SimsTyped
<1>3. spent[s] + 1 \in 0..3
  BY <1>2
<1>4. spent' \in [Sims -> 0..3] /\ spent'[s] = spent[s] + 1
      /\ \A t \in Sims \ {s} : spent'[t] = spent[t]
  BY <1>3 DEF SimsTyped
<1>5. SimsTyped'
  BY <1>1, <1>4 DEF SimsTyped, Announced
<1>6. ASSUME NEW t \in Sims
      PROVE  (spent[t] + sim[t].left <= 3)' /\ (Unlockable(t) => sim[t].left >= 1)'
  <2>1. CASE t = s
    BY <1>1, <1>2, <1>4, <2>1 DEF Unlockable
  <2>2. CASE t # s
    BY <1>1, <1>4, <2>2 DEF Unlockable, AttemptsAddUp
  <2> QED
    BY <2>1, <2>2
<1>7. AttemptsAddUp'
  BY <1>6 DEF AttemptsAddUp
<1> QED
  BY <1>1, <1>5, <1>7

LEMMA SupplyPinInv ==
    ASSUME FeederInv, NEW i \in Feeders, SupplyPin(i)
    PROVE  FeederInv'
<1> DEFINE f == feeder[i]
           s == f.at
           verdict(pc) == [f EXCEPT !.pc = pc]
<1>1. f \in Thread /\ f.pc = "supply" /\ f.pc \in AtSim /\ s \in Sims /\ stored' = stored
  BY ThreadTyped DEF SupplyPin, AtSim, InOrder
<1>2. SimsTyped /\ AttemptsAddUp /\ stored' \in [Sims -> {NoPin, "good", "invalid"}]
      /\ tried \in [Sims -> {NoPin, "good", "invalid", "lost"}]
  BY <1>1 DEF FeederInv, FeederTypeOK, SimsTyped
<1>3. ASSUME SimsTyped', AttemptsAddUp', Announced,
             \/ /\ Goes(i, verdict("accepted"))
                /\ tried' = [tried EXCEPT ![s] = "good"]
             \/ /\ Goes(i, verdict("refused"))
                /\ tried' = [tried EXCEPT ![s] = "invalid"]
             \/ Goes(i, Failed(f)) /\ UNCHANGED tried
      PROVE  FeederInv'
  <2>1. tried' \in [Sims -> {NoPin, "good", "invalid", "lost"}]
    BY <1>2, <1>3
  <2>2. Failed(f) \in Thread /\ InOrder(Failed(f)) /\ HearsNext(Failed(f))
    BY <1>1, <1>2, <1>3, FailedHears
  <2>3. ASSUME NEW pc \in {"accepted", "refused"}
        PROVE  verdict(pc) \in Thread /\ InOrder(verdict(pc)) /\ HearsNext(verdict(pc))
    <3>1. verdict(pc) = [f EXCEPT !.pc = pc, !.retries = f.retries] /\ f.retries \in 0..3
      BY <1>1 DEF Thread
    <3> QED
      BY <1>1, <1>3, <3>1, SameSimHears DEF AtSim
  <2>4. verdict("accepted") \in Thread /\ InOrder(verdict("accepted")) /\ HearsNext(verdict("accepted"))
    BY <2>3
  <2>5. verdict("refused") \in Thread /\ InOrder(verdict("refused")) /\ HearsNext(verdict("refused"))
    BY <2>3
  <2> HIDE DEF verdict
  <2> QED
    BY <1>2, <1>3, <2>1, <2>2, <2>4, <2>5, ThreadStepInv
<1>4. CASE Unlockable(s) /\ f.entities[s].pin = "right" /\ EnterRight(s)
  <2>1. SimsTyped' /\ AttemptsAddUp' /\ Announced
    BY <1>1, <1>2, <1>4, EnterRightIsSafe
  <2>2. \/ Goes(i, verdict("accepted")) /\ tried' = [tried EXCEPT ![s] = "good"]
        \/ Goes(i, Failed(f)) /\ UNCHANGED tried
    BY <1>4 DEF SupplyPin
  <2> QED
    BY <1>3, <2>1, <2>2
<1>5. CASE /\ Unlockable(s) /\ f.entities[s].pin # "right" /\ EnterWrong(s)
           /\ spent' = [spent EXCEPT ![s] = @ + 1]
  <2>1. SimsTyped' /\ AttemptsAddUp' /\ Announced
    BY <1>1, <1>2, <1>5, WasteIsSafe
  <2>2. \/ Goes(i, verdict("refused")) /\ tried' = [tried EXCEPT ![s] = "invalid"]
        \/ Goes(i, Failed(f)) /\ UNCHANGED tried
    BY <1>5 DEF SupplyPin
  <2> QED
    BY <1>3, <2>1, <2>2
<1>6. CASE Goes(i, Failed(f)) /\ UNCHANGED <<sim, news, tried, spent>>
  <2>1. OnlyThread
    BY <1>1, <1>6 DEF OnlyThread
  <2> QED
    BY <1>3, <1>6, <2>1, OnlyThreadIsQuiet
<1> QED
  BY <1>4, <1>5, <1>6 DEF SupplyPin

LEMMA MarkInv ==
    ASSUME FeederInv, NEW i \in Feeders, Mark(i)
    PROVE  FeederInv'
<1>1. /\ feeder[i].pc \in AtSim /\ Goes(i, NextSim(Dropped(feeder[i])))
      /\ UNCHANGED <<sim, news, tried, spent>>
  BY DEF Mark, AtSim
<1>2. feeder[i].at \in Sims
  BY <1>1, ThreadTyped DEF InOrder
<1>3. stored \in [Sims -> {NoPin, "good", "invalid"}]
  BY DEF FeederInv, FeederTypeOK
<1>4. stored' \in [Sims -> {NoPin, "good", "invalid"}]
  BY <1>2, <1>3 DEF Mark, Remember
<1>5. SimsTyped /\ SimsTyped' /\ AttemptsAddUp' /\ Announced
      /\ tried' \in [Sims -> {NoPin, "good", "invalid", "lost"}]
  BY <1>1 DEF FeederInv, FeederTypeOK, SimsTyped, AttemptsAddUp, Announced, Unlockable
<1> QED
  BY <1>1, <1>4, <1>5, DropHears, ThreadStepInv

LEMMA WaitInv ==
    ASSUME FeederInv, NEW i \in Feeders, Wait(i)
    PROVE  FeederInv'
<1> DEFINE f == feeder[i]
           again == [f EXCEPT !.changed = FALSE, !.pc = "refresh"]
           leaving == [f EXCEPT !.pc = "leave"]
<1>1. OnlyThread /\ (Goes(i, again) \/ Goes(i, leaving)) /\ f.pc = "wait"
  BY DEF Wait
<1>2. f \in Thread /\ f.listens
  BY <1>1, ThreadTyped DEF InOrder, InPass
<1>3. /\ again \in Thread /\ again.pc = "refresh" /\ again.listens
      /\ leaving \in Thread /\ leaving.pc = "leave" /\ leaving.listens
  BY <1>2 DEF Thread
<1> HIDE DEF again, leaving
<1>4. /\ InOrder(again) /\ HearsNext(again)
      /\ InOrder(leaving) /\ HearsNext(leaving)
  BY <1>3, OutOfPass DEF InPass, AtSim
<1> QED
  BY <1>1, <1>3, <1>4, ThreadStepInv, OnlyThreadIsQuiet

LEMMA LeaveInv ==
    ASSUME FeederInv, NEW i \in Feeders, Leave(i)
    PROVE  FeederInv'
<1>1. OnlyThread /\ Goes(i, Dead)
  BY DEF Leave
<1>2. InOrder(Dead) /\ HearsNext(Dead)
  BY OutOfPass DEF Dead, InPass, AtSim
<1> QED
  BY <1>1, <1>2, DeadIsAThread, ThreadStepInv, OnlyThreadIsQuiet

LEMMA StartInv ==
    ASSUME FeederInv, NEW i \in Feeders, Start(i)
    PROVE  FeederInv'
<1> DEFINE started(bundle) == [Dead EXCEPT !.pc = "listen", !.bundle = bundle,
                                           !.entities = Usable(bundle)]
<1>1. PICK bundle \in Bundle : Goes(i, started(bundle)) /\ OnlyThread
  <2>1. feeder[i].bundle \in Bundle
    BY ThreadTyped DEF Thread
  <2> QED
    BY <2>1 DEF Start, Goes, OnlyThread
<1>2. Usable(bundle) \in [Sims -> Entity]
  BY DEF Usable, NoEntity, Entity, Bundle, NoPin
<1>3. started(bundle) \in Thread /\ started(bundle).pc = "listen"
  <2> DEFINE e == Usable(bundle)
  <2> HIDE DEF e
  <2>1. e \in [Sims -> Entity]
    BY <1>2 DEF e
  <2>2. [Dead EXCEPT !.pc = "listen", !.bundle = bundle, !.entities = e] \in Thread
        /\ [Dead EXCEPT !.pc = "listen", !.bundle = bundle, !.entities = e].pc = "listen"
    BY <2>1, DeadIsAThread DEF Thread
  <2> QED
    BY <2>2 DEF e
<1>4. InOrder(started(bundle)) /\ HearsNext(started(bundle))
  BY <1>3, OutOfPass DEF InPass, AtSim
<1> HIDE DEF started
<1> QED
  BY <1>1, <1>3, <1>4, ThreadStepInv, OnlyThreadIsQuiet

(* Of cancel the thread learns at its next look at the flag.               *)
LEMMA CancelInv ==
    ASSUME FeederInv, NEW i \in Feeders, Cancel(i)
    PROVE  FeederInv'
<1> DEFINE f == feeder[i]
           g == [f EXCEPT !.released = TRUE]
<1>1. OnlyThread /\ f \in Thread /\ InOrder(f)
  BY ThreadTyped DEF Cancel, OnlyThread
<1>2. Goes(i, g)
  BY <1>1 DEF Cancel, Goes
<1>3. /\ g \in Thread /\ g.pc = f.pc /\ g.at = f.at /\ g.cache = f.cache
      /\ g.entities = f.entities /\ g.changed = f.changed /\ g.listens = f.listens
  BY <1>1 DEF Thread
<1> HIDE DEF g
<1>4. InOrder(g) /\ HearsNext(g)
  BY <1>1, <1>3, ThreadTyped, OnlyThreadIsQuiet DEF InOrder, HearsNext, HasPin
<1> QED
  BY <1>1, <1>2, <1>3, <1>4, ThreadStepInv, OnlyThreadIsQuiet

LEMMA RunInv ==
    ASSUME FeederInv, NEW i \in Feeders, Run(i)
    PROVE  FeederInv'
BY ListenInv, RefreshInv, LookAtInv, PassEndsInv, CountInv, SupplyPinInv, MarkInv, WaitInv,
   LeaveInv DEF Run
-----------------------------------------------------------------------------
(* The other steps.                                                        *)
LEMMA CrashInv ==
    ASSUME FeederInv, Crash
    PROVE  FeederInv'
<1> DEFINE restarted(b) == [Dead EXCEPT !.pc = "again", !.bundle = b]
<1>1. sim' = sim /\ news' = news /\ stored' = stored /\ spent' = spent
  BY DEF Crash
<1>2. \A i \in Feeders : feeder'[i] = Dead \/ feeder'[i] = restarted(feeder[i].bundle)
  BY DEF Crash
<1>3. ASSUME NEW i \in Feeders
      PROVE  feeder'[i] \in Thread /\ feeder'[i].pc \in {"none", "again"}
  <2>1. feeder[i].bundle \in Bundle
    BY ThreadTyped DEF Thread
  <2>2. \A b \in Bundle : restarted(b) \in Thread /\ restarted(b).pc = "again"
    BY DeadIsAThread DEF Thread
  <2>3. Dead \in Thread /\ Dead.pc = "none"
    BY DeadIsAThread DEF Dead
  <2> HIDE DEF restarted
  <2> QED
    BY <1>2, <2>1, <2>2, <2>3
<1>4. DOMAIN feeder' = Feeders /\ feeder' = [i \in Feeders |-> feeder'[i]]
  BY DEF Crash
<1>5. feeder' \in [Feeders -> Thread]
  BY <1>3, <1>4
<1>6. tried' \in [Sims -> {NoPin, "good", "invalid", "lost"}]
  BY DEF Crash, FeederInv, FeederTypeOK
<1>7. \A i \in Feeders : InOrder(feeder[i])' /\ HearsOfAll(feeder[i])'
  BY <1>3 DEF InOrder, HearsOfAll, InPass, AtSim
<1> QED
  BY <1>1, <1>5, <1>6, <1>7 DEF FeederInv, FeederTypeOK, AttemptsAddUp, Unlockable

(* What the SIMs and their user do, as far as no thread takes part.        *)
LEMMA NoThreadInv ==
    ASSUME FeederInv, SimsTyped', AttemptsAddUp', Announced, feeder' = feeder,
           stored' \in [Sims -> {NoPin, "good", "invalid"}],
           tried' \in [Sims -> {NoPin, "good", "invalid", "lost"}]
    PROVE  FeederInv'
<1>1. \A i \in Feeders : InOrder(feeder[i]) /\ HearsNext(feeder[i])
  BY ThreadTyped
<1>2. \A i \in Feeders : InOrder(feeder[i])' /\ HearsOfAll(feeder[i])'
  BY <1>1 DEF InOrder, HearsOfAll, HearsNext, HasPin
<1> QED
  BY <1>2 DEF FeederInv, FeederTypeOK, SimsTyped

LEMMA SimChangesInv ==
    ASSUME FeederInv, NEW s \in Sims, SimChanges(s)
    PROVE  FeederInv'
<1> DEFINE state == sim'[s].state
<1>1. SimsTyped /\ spent' = spent /\ feeder' = feeder /\ stored' = stored /\ tried' = tried
  BY DEF SimChanges, FeederInv, FeederTypeOK, SimsTyped
<1>2. sim[s].left \in 0..3
  BY <1>1 DEF SimsTyped
<1>3. PICK st \in {"off", "booting", "pin", "puk"} :
         Became(s, st, sim[s].left) /\ (st = "pin" => sim[s].left # 0)
  BY DEF SimChanges
<1>4. /\ Announced
      /\ sim' \in [Sims -> [state : {"off", "booting", "pin", "ready", "puk"}, left : 0..3]]
      /\ sim'[s].state = st /\ sim'[s].left = sim[s].left
      /\ \A t \in Sims \ {s} : sim'[t] = sim[t]
  BY <1>1, <1>2, <1>3, BecameIsAnnounced
<1>5. SimsTyped'
  BY <1>1, <1>4 DEF SimsTyped, Announced
<1>6. AttemptsAddUp'
  BY <1>1, <1>2, <1>3, <1>4 DEF AttemptsAddUp, Unlockable, FeederInv
<1> QED
  BY <1>1, <1>4, <1>5, <1>6, NoThreadInv DEF FeederInv, FeederTypeOK

LEMMA UserEntersInv ==
    ASSUME FeederInv, NEW s \in Sims, UserEnters(s)
    PROVE  FeederInv'
<1>1. SimsTyped /\ AttemptsAddUp /\ Unlockable(s)
      /\ feeder' = feeder /\ stored' = stored /\ tried' = tried
  BY DEF UserEnters, Unlockable, FeederInv, FeederTypeOK, SimsTyped
<1>2. CASE EnterRight(s)
  BY <1>1, <1>2, EnterRightIsSafe, NoThreadInv DEF FeederInv, FeederTypeOK
<1>3. CASE EnterWrong(s) /\ spent' = spent
  <2>1. /\ Announced
        /\ sim' \in [Sims -> [state : {"off", "booting", "pin", "ready", "puk"}, left : 0..3]]
        /\ sim'[s].left = sim[s].left - 1
        /\ sim'[s].state = "puk" \/ sim'[s].left >= 1
        /\ \A t \in Sims \ {s} : sim'[t] = sim[t]
    BY <1>1, <1>3, EnterWrongIsAnnounced
  <2>2. SimsTyped'
    BY <1>1, <1>3, <2>1 DEF SimsTyped, Announced
  <2>3. sim[s].left \in 0..3 /\ spent[s] \in 0..3
    BY <1>1 DEF SimsTyped
  <2>4. AttemptsAddUp'
    BY <1>1, <1>3, <2>1, <2>3 DEF AttemptsAddUp, Unlockable
  <2> QED
    BY <1>1, <2>1, <2>2, <2>4, NoThreadInv DEF FeederInv, FeederTypeOK
<1> QED
  BY <1>2, <1>3 DEF UserEnters

LEMMA BroadcastInv ==
    ASSUME FeederInv, NEW s \in Sims, Broadcast(s)
    PROVE  FeederInv'
<1>1. /\ news' = news \ {s} /\ UNCHANGED <<sim, stored, tried, spent>>
      /\ feeder' = [i \in Feeders |-> [feeder[i] EXCEPT !.changed = @ \/ feeder[i].listens]]
  BY DEF Broadcast
<1>2. ASSUME NEW i \in Feeders
      PROVE  feeder'[i] \in Thread /\ InOrder(feeder[i])' /\ HearsOfAll(feeder[i])'
  <2> DEFINE f == feeder[i]
             g == [f EXCEPT !.changed = f.changed \/ f.listens]
  <2>1. f \in Thread /\ InOrder(f) /\ feeder'[i] = g
    BY <1>1, ThreadTyped
  <2>2. f.changed \in BOOLEAN /\ f.listens \in BOOLEAN
    BY <2>1 DEF Thread
  <2>3. (f.changed \/ f.listens) \in BOOLEAN
    BY <2>2
  <2>4. g \in Thread
    BY <2>1, <2>3 DEF Thread
  <2>5. /\ g.pc = f.pc /\ g.at = f.at /\ g.cache = f.cache /\ g.entities = f.entities
        /\ g.listens = f.listens
    BY <2>1 DEF Thread
  <2>6. f.listens => g.changed
    <3>1. g.changed = (f.changed \/ f.listens)
      BY <2>1 DEF Thread
    <3> QED
      BY <3>1
  <2> HIDE DEF g
  <2>7. InOrder(feeder[i])'
    BY <2>1, <2>5 DEF InOrder, HasPin
  <2>8. HearsOfAll(feeder[i])'
    BY <2>1, <2>5, <2>6 DEF InOrder, HearsOfAll
  <2> QED
    BY <2>1, <2>4, <2>7, <2>8
<1>3. feeder' \in [Feeders -> Thread]
  BY <1>1, <1>2
<1>4. FeederTypeOK'
  BY <1>1, <1>3 DEF FeederInv, FeederTypeOK
<1> QED
  BY <1>1, <1>2, <1>4 DEF FeederInv, AttemptsAddUp, Unlockable

LEMMA UserEditsInv ==
    ASSUME FeederInv, NEW s \in Sims, UserEdits(s)
    PROVE  FeederInv'
<1>1. /\ UNCHANGED <<sim, news, feeder, spent>> /\ tried' = [tried EXCEPT ![s] = NoPin]
      /\ \E row \in {NoPin, "good"} : stored' = [stored EXCEPT ![s] = row]
  BY DEF UserEdits
<1>2. stored' \in [Sims -> {NoPin, "good", "invalid"}]
      /\ tried' \in [Sims -> {NoPin, "good", "invalid", "lost"}]
  BY <1>1 DEF FeederInv, FeederTypeOK
<1>3. SimsTyped' /\ AttemptsAddUp' /\ Announced
  BY <1>1 DEF FeederInv, FeederTypeOK, SimsTyped, AttemptsAddUp, Announced, Unlockable
<1> QED
  BY <1>1, <1>2, <1>3, NoThreadInv

LEMMA StepFeederInv == FeederInv /\ [FeederNext]_pinVars => FeederInv'
<1> SUFFICES ASSUME FeederInv, [FeederNext]_pinVars PROVE FeederInv'
  OBVIOUS
<1>1. CASE FeederNext
  BY <1>1, SimChangesInv, UserEntersInv, BroadcastInv, UserEditsInv, StartInv, CancelInv,
     RunInv, CrashInv DEF FeederNext
<1>2. CASE UNCHANGED pinVars
  <2>1. feeder' = feeder /\ OnlyThread
    BY <1>2 DEF pinVars, OnlyThread
  <2> QED
    BY <2>1, OnlyThreadIsQuiet, NoThreadInv
<1> QED
  BY <1>1, <1>2

LEMMA FeederInvHolds == FeederSpec => []FeederInv
BY InitFeederInv, StepFeederInv, PTL DEF FeederSpec
-----------------------------------------------------------------------------
(* Any number of feeders, cancelled or not, any user, answers lost or not: *)
(* every thread, SIM and row keeps its type; in particular no attempt is   *)
(* made on a SIM that has none left.                                       *)
THEOREM FeederTypeCorrect == FeederSpec => []FeederTypeOK
<1>1. FeederInv => FeederTypeOK
  BY DEF FeederInv
<1> QED
  BY <1>1, FeederInvHolds, PTL

(* A feeder that gives up after ten seconds without news has not missed a  *)
(* SIM: mSimStatusChanged was reset only before the list was read again.   *)
THEOREM NoSimIsMissed == FeederSpec => NoLockedSimIsMissed
<1> DEFINE Found == \A i \in Feeders, s \in Sims :
                       /\ feeder[i].pc = "wait" /\ feeder'[i].pc = "leave" /\ ~feeder[i].released
                       /\ HasPin(feeder[i], s)
                       /\ sim[s].state = "pin"
                       => s \in news
<1>1. FeederInv /\ [FeederNext]_pinVars => [Found]_pinVars
  <2> SUFFICES ASSUME FeederInv, FeederNext,
                      NEW i \in Feeders, NEW s \in Sims,
                      feeder[i].pc = "wait", feeder'[i].pc = "leave",
                      HasPin(feeder[i], s), sim[s].state = "pin"
               PROVE  s \in news
    OBVIOUS
  <2>1. feeder \in [Feeders -> Thread] /\ InOrder(feeder[i]) /\ HearsOfAll(feeder[i])
    BY DEF FeederInv, FeederTypeOK
  <2>2. s < feeder[i].at
    BY <2>1, SimsAreNumbers DEF InOrder
  <2>3. CASE feeder[i].changed
    (* Every step leaves such a thread where it is, or has it refresh.     *)
    <3>1. feeder' # feeder
      BY <2>1
    <3>2. CASE \E t \in Sims : Broadcast(t)
      <4>1. feeder'[i] = [feeder[i] EXCEPT !.changed = @ \/ feeder[i].listens]
        BY <3>2 DEF Broadcast
      <4>2. feeder'[i].pc = feeder[i].pc
        BY <4>1, <2>1 DEF Thread
      <4> QED
        BY <4>2
    <3>3. CASE Crash
      <4>1. feeder'[i].pc \in {"none", "again"}
        BY <3>3 DEF Crash, Dead
      <4> QED
        BY <4>1
    <3>4. ASSUME NEW j \in Feeders, Start(j) \/ Cancel(j) \/ Run(j)
          PROVE  s \in news
      <4>1. CASE j = i
        <5>1. CASE Cancel(i)
          <6>1. feeder'[i].pc = feeder[i].pc
            BY <2>1, <5>1 DEF Cancel, Thread
          <6> QED
            BY <6>1
        <5>2. CASE Wait(i)
          <6>1. feeder'[i] = [feeder[i] EXCEPT !.changed = FALSE, !.pc = "refresh"]
            BY <2>1, <2>3, <5>2 DEF Wait, Goes
          <6>2. feeder'[i].pc = "refresh"
            BY <2>1, <6>1 DEF Thread
          <6> QED
            BY <6>2
        <5> QED
          BY <3>4, <4>1, <5>1, <5>2 DEF Start, Run, Listen, RefreshSimCardCacheList, LookAt,
             PassEnds, Count, SupplyPin, Mark, Leave
      <4>2. CASE j # i
        <5>1. feeder'[i] = feeder[i]
          BY <2>1, <3>4, <4>2 DEF Goes, Start, Cancel, Run, Listen, RefreshSimCardCacheList,
             LookAt, PassEnds, Count, SupplyPin, Mark, Wait, Leave
        <5> QED
          BY <5>1
      <4> QED
        BY <4>1, <4>2
    <3> QED
      BY <3>1, <3>2, <3>3, <3>4 DEF FeederNext, SimChanges, UserEnters, UserEdits
  <2>4. CASE ~feeder[i].changed
    BY <2>1, <2>2, <2>4 DEF HearsOfAll, InPass
  <2> QED
    BY <2>3, <2>4
<1> QED
  BY <1>1, FeederInvHolds, PTL DEF FeederSpec, NoLockedSimIsMissed
-----------------------------------------------------------------------------
(* One feeder at a time, and answers that tell what the SIM has done.      *)

(* Only Count begins to supply, and only a SIM with three attempts left.   *)
LEMMA SupplyBegins ==
    ASSUME FeederInv, FeederNext, NEW i \in Feeders,
           feeder'[i].pc = "supply"
    PROVE  \/ feeder[i].pc = "supply" /\ feeder'[i].at = feeder[i].at
           \/ /\ feeder'[i].at \in Sims /\ sim[feeder'[i].at].left = 3
              /\ spent' = spent
<1>1. feeder \in [Feeders -> Thread] /\ feeder[i] \in Thread /\ InOrder(feeder[i])
  BY DEF FeederInv, FeederTypeOK
<1>2. CASE \E s \in Sims : SimChanges(s) \/ UserEnters(s) \/ UserEdits(s)
  BY <1>2 DEF SimChanges, UserEnters, UserEdits
<1>3. CASE \E s \in Sims : Broadcast(s)
  <2>1. feeder'[i] = [feeder[i] EXCEPT !.changed = @ \/ feeder[i].listens]
    BY <1>3 DEF Broadcast
  <2> QED
    BY <1>1, <2>1 DEF Thread
<1>4. CASE Crash
  <2>1. feeder'[i].pc \in {"none", "again"}
    BY <1>4 DEF Crash, Dead
  <2> QED
    BY <2>1
<1>5. ASSUME NEW j \in Feeders, j # i, Start(j) \/ Cancel(j) \/ Run(j)
      PROVE  feeder'[i] = feeder[i]
  BY <1>1, <1>5 DEF Goes, Start, Cancel, Run, Listen, RefreshSimCardCacheList,
     LookAt, PassEnds, Count, SupplyPin, Mark, Wait, Leave
<1>6. CASE Start(i)
  <2> DEFINE started(b, e) == [Dead EXCEPT !.pc = "listen", !.bundle = b, !.entities = e]
  <2>1. \E b, e : feeder'[i] = started(b, e)
    BY <1>1, <1>6 DEF Start
  <2>2. \A b, e : started(b, e).pc = "listen"
    BY DEF Dead
  <2> HIDE DEF started
  <2>3. feeder'[i].pc = "listen"
    BY <2>1, <2>2
  <2> QED
    BY <2>3
<1>7. CASE Cancel(i)
  <2>1. feeder'[i] = [feeder[i] EXCEPT !.released = TRUE]
    BY <1>1, <1>7 DEF Cancel
  <2> QED
    BY <1>1, <2>1 DEF Thread
<1>8. CASE Count(i)
  <2>1. \/ /\ sim[feeder[i].at].left = 3
           /\ feeder'[i] = [feeder[i] EXCEPT !.pc = "supply", !.retries = 1]
        \/ feeder'[i] = NextSim(Dropped(feeder[i]))
    BY <1>1, <1>8 DEF Count, Goes
  <2>2. spent' = spent /\ feeder[i].at \in Sims
    BY <1>1, <1>8 DEF Count, OnlyThread, InOrder, AtSim
  <2>3. CASE feeder'[i] = NextSim(Dropped(feeder[i]))
    BY <1>1, <2>3 DEF NextSim, Dropped, Thread
  <2>4. CASE /\ sim[feeder[i].at].left = 3
             /\ feeder'[i] = [feeder[i] EXCEPT !.pc = "supply", !.retries = 1]
    BY <1>1, <2>2, <2>4 DEF Thread
  <2> QED
    BY <2>1, <2>3, <2>4
<1>9. CASE SupplyPin(i)
  <2>1. \/ feeder'[i].pc \in {"accepted", "refused"}
        \/ feeder'[i] = Failed(feeder[i])
    BY <1>1, <1>9 DEF SupplyPin, Goes, Thread
  <2>2. feeder[i].pc = "supply"
    BY <1>9 DEF SupplyPin
  <2>3. CASE feeder'[i] = Failed(feeder[i])
    BY <1>1, <2>2, <2>3 DEF Failed, NextSim, Dropped, Thread
  <2> QED
    BY <2>1, <2>3
<1>10. CASE Mark(i)
  <2>1. feeder'[i] = NextSim(Dropped(feeder[i]))
    BY <1>1, <1>10 DEF Mark, Goes
  <2> QED
    BY <1>1, <2>1 DEF NextSim, Dropped, Thread
<1>11. CASE LookAt(i)
  <2>1. \/ feeder'[i] = [feeder[i] EXCEPT !.pc = "count"]
        \/ feeder'[i] = NextSim(feeder[i])
    BY <1>1, <1>11 DEF LookAt, Goes
  <2> QED
    BY <1>1, <2>1 DEF NextSim, Thread
<1>12. CASE Listen(i) \/ Leave(i)
  <2>1. \/ feeder'[i] = [feeder[i] EXCEPT !.listens = TRUE, !.pc = "refresh"]
        \/ feeder'[i] = Dead
    BY <1>1, <1>12 DEF Listen, Leave, Goes
  <2>2. [feeder[i] EXCEPT !.listens = TRUE, !.pc = "refresh"].pc = "refresh"
    BY <1>1 DEF Thread
  <2>3. Dead.pc = "none"
    BY DEF Dead
  <2> QED
    BY <2>1, <2>2, <2>3
<1>13. CASE RefreshSimCardCacheList(i)
  <2>1. \/ feeder'[i] = [feeder[i] EXCEPT !.pc = "leave"]
        \/ \E c : feeder'[i] = [feeder[i] EXCEPT !.pc = "sims", !.at = 1, !.cache = c]
    BY <1>1, <1>13 DEF RefreshSimCardCacheList, Goes
  <2>2. feeder'[i].pc \in {"leave", "sims"}
    BY <1>1, <2>1 DEF Thread
  <2> QED
    BY <2>2
<1>14. CASE PassEnds(i) \/ Wait(i)
  <2>1. \/ \E pc \in {"leave", "wait"} : feeder'[i] = [feeder[i] EXCEPT !.pc = pc]
        \/ feeder'[i] = [feeder[i] EXCEPT !.changed = FALSE, !.pc = "refresh"]
    BY <1>1, <1>14 DEF PassEnds, Wait, Goes
  <2>2. feeder'[i].pc \in {"leave", "wait", "refresh"}
    BY <1>1, <2>1 DEF Thread
  <2> QED
    BY <2>2
<1> QED
  BY <1>2, <1>3, <1>4, <1>5, <1>6, <1>7, <1>8, <1>9, <1>10, <1>11, <1>12, <1>13, <1>14
     DEF FeederNext, Run

(* An attempt is wasted where a PIN is being supplied, and nowhere else.   *)
LEMMA AttemptIsWasted ==
    ASSUME FeederInv, FeederNext, ~LostAnswers, NEW s \in Sims, ~(spent'[s] <= spent[s])
    PROVE  \E i \in Feeders : /\ feeder[i].pc = "supply" /\ feeder[i].at = s
                              /\ spent'[s] = spent[s] + 1
                              /\ feeder'[i].pc = "refused"
<1>1. SimsTyped /\ AttemptsAddUp /\ spent[s] \in 0..3
  BY DEF FeederInv, FeederTypeOK, SimsTyped
<1>2. spent' # spent
  BY <1>1
<1>3. CASE \E t \in Sims : UserEnters(t)
  BY <1>1, <1>2, <1>3, EnterRightIsSafe DEF UserEnters
<1>4. CASE \E i \in Feeders : SupplyPin(i)
  <2>1. PICK i \in Feeders : SupplyPin(i)
    BY <1>4
  <2> DEFINE f == feeder[i]
  <2>2. feeder \in [Feeders -> Thread] /\ f \in Thread /\ f.pc = "supply" /\ f.at \in Sims
    BY <2>1, ThreadTyped DEF SupplyPin, InOrder, AtSim, FeederInv, FeederTypeOK
  <2>3. CASE f.entities[f.at].pin = "right"
    BY <1>1, <1>2, <2>1, <2>2, <2>3, EnterRightIsSafe DEF SupplyPin
  <2>4. CASE f.entities[f.at].pin # "right"
    <3>1. spent' = [spent EXCEPT ![f.at] = @ + 1] /\ Goes(i, [f EXCEPT !.pc = "refused"])
      BY <1>2, <2>1, <2>4 DEF SupplyPin
    <3>2. s = f.at /\ spent'[s] = spent[s] + 1
      BY <1>1, <2>2, <3>1 DEF SimsTyped
    <3>3. feeder'[i].pc = "refused"
      BY <2>2, <3>1 DEF Goes, Thread
    <3> QED
      BY <2>2, <3>2, <3>3
  <2> QED
    BY <2>3, <2>4
<1> QED
  BY <1>2, <1>3, <1>4 DEF FeederNext, SimChanges, Broadcast, UserEdits, Start, Cancel, Run,
     Listen, RefreshSimCardCacheList, LookAt, PassEnds, Count, Mark, Wait, Leave, Crash, OnlyThread

LEMMA StepAttempts ==
    ASSUME OneFeeder, ~LostAnswers, FeederInv, FeederInv', OneAttemptIsWasted, NoneWastedYet,
           [FeederNext]_pinVars
    PROVE  OneAttemptIsWasted' /\ NoneWastedYet'
<1>1. spent \in [Sims -> 0..3] /\ spent' \in [Sims -> 0..3]
  BY DEF FeederInv, FeederTypeOK
<1>2. CASE UNCHANGED pinVars
  BY <1>2 DEF pinVars, OneAttemptIsWasted, NoneWastedYet
<1>3. CASE FeederNext
  <2>1. ASSUME NEW s \in Sims PROVE spent'[s] <= 1
    <3>1. CASE spent'[s] <= spent[s]
      BY <1>1, <3>1 DEF OneAttemptIsWasted
    <3>2. CASE ~(spent'[s] <= spent[s])
      <4>1. PICK i \in Feeders : /\ feeder[i].pc = "supply" /\ feeder[i].at = s
                                /\ spent'[s] = spent[s] + 1
        BY <1>3, <3>2, AttemptIsWasted
      <4> QED
        BY <4>1 DEF NoneWastedYet
    <3> QED
      BY <3>1, <3>2
  <2>2. ASSUME NEW i \in Feeders, feeder'[i].pc = "supply"
        PROVE  spent'[feeder'[i].at] = 0
    <3> DEFINE s == feeder'[i].at
    <3>1. s \in Sims
      BY <2>2 DEF FeederInv, InOrder, AtSim
    <3>2. CASE feeder[i].pc = "supply" /\ s = feeder[i].at
      <4>1. spent[s] = 0
        BY <3>2 DEF NoneWastedYet
      <4>2. CASE spent'[s] <= spent[s]
        BY <1>1, <3>1, <4>1, <4>2
      <4>3. CASE ~(spent'[s] <= spent[s])
        <5>1. \E j \in Feeders : feeder'[j].pc = "refused"
          BY <1>3, <3>1, <4>3, AttemptIsWasted
        <5> QED
          BY <2>2, <5>1 DEF OneFeeder
      <4> QED
        BY <4>2, <4>3
    <3>3. CASE sim[s].left = 3 /\ spent' = spent
      BY <1>1, <3>1, <3>3 DEF FeederInv, AttemptsAddUp
    <3> QED
      BY <1>3, <2>2, <3>2, <3>3, SupplyBegins
  <2> QED
    BY <2>1, <2>2 DEF OneAttemptIsWasted, NoneWastedYet
<1> QED
  BY <1>2, <1>3

(* "prevent things from getting critical": one feeder at a time wastes one *)
(* attempt of a SIM at most, for a SIM whose count is three has lost none, *)
(* and whatever the user enters does not change what feeders have wasted.  *)
THEOREM AttemptsAreSaved ==
    ASSUME OneFeeder, ~LostAnswers
    PROVE  FeederSpec => []OneAttemptIsWasted
<1>1. FeederInit => OneAttemptIsWasted /\ NoneWastedYet
  BY DEF FeederInit, OneAttemptIsWasted, NoneWastedYet, Dead
<1>2. FeederInv /\ FeederInv' /\ OneAttemptIsWasted /\ NoneWastedYet /\ [FeederNext]_pinVars
         => OneAttemptIsWasted' /\ NoneWastedYet'
  BY StepAttempts
<1> QED
  BY <1>1, <1>2, FeederInvHolds, PTL DEF FeederSpec
-----------------------------------------------------------------------------
Verdict == {"accepted", "refused"}
MarksInv == FeederInv /\ MarksAreFresh /\ MarkMatchesLastTry

(* A thread at work, as far as its PINs go: it keeps them or drops them.   *)
LEMMA PinsAreKept ==
    ASSUME OneFeeder, MarksInv, NEW i \in Feeders, OnlyThread,
           feeder[i].pc \notin Verdict \union {"none", "again"},
           feeder'[i].pc \notin Verdict,
           \/ feeder'[i].pc = "none"
           \/ \A s \in Sims : HasPin(feeder'[i], s) => feeder'[i].entities[s] = feeder[i].entities[s]
    PROVE  MarksAreFresh' /\ MarkMatchesLastTry'
<1>1. Feeders = {i} /\ stored' = stored /\ tried' = tried /\ IsFresh(feeder[i])
  BY DEF OneFeeder, OnlyThread, MarksInv, MarksAreFresh
<1>2. IsFresh(feeder[i])'
  BY <1>1 DEF IsFresh, HasPin, Verdict
<1>3. MarkMatchesLastTry'
  BY <1>1 DEF MarksInv, MarkMatchesLastTry, Verdict
<1> QED
  BY <1>1, <1>2, <1>3 DEF MarksAreFresh

(* What no feeder notices, or notices without regard to PINs.              *)
LEMMA PinsAreTheSame ==
    ASSUME MarksInv, stored' = stored, tried' = tried,
           \A i \in Feeders : /\ feeder'[i].pc = feeder[i].pc
                              /\ feeder'[i].at = feeder[i].at
                              /\ feeder'[i].entities = feeder[i].entities
    PROVE  MarksAreFresh' /\ MarkMatchesLastTry'
<1>1. \A i \in Feeders : IsFresh(feeder[i])'
  BY DEF MarksInv, MarksAreFresh, IsFresh, HasPin
<1>2. MarkMatchesLastTry'
  BY DEF MarksInv, MarkMatchesLastTry
<1> QED
  BY <1>1, <1>2 DEF MarksAreFresh

LEMMA DroppedPins ==
    ASSUME NEW f \in Thread, f.at \in Sims
    PROVE  /\ NextSim(f).pc = "sims" /\ NextSim(Dropped(f)).pc = "sims"
           /\ NextSim(f).entities = f.entities
           /\ \A s \in Sims : HasPin(NextSim(Dropped(f)), s) =>
                 s # f.at /\ NextSim(Dropped(f)).entities[s] = f.entities[s]
<1>1. NextSim(f).pc = "sims" /\ NextSim(f).entities = f.entities
  BY DEF NextSim, Thread
<1>2. Dropped(f) \in Thread /\ Dropped(f).entities = [f.entities EXCEPT ![f.at] = NoEntity]
  BY DEF Dropped, Thread, Entity, NoEntity, NoPin
<1>3. NextSim(Dropped(f)).pc = "sims" /\ NextSim(Dropped(f)).entities = Dropped(f).entities
  BY <1>2 DEF NextSim, Thread
<1>4. NoEntity.pin = NoPin /\ f.entities \in [Sims -> Entity]
  BY DEF NoEntity, Thread
<1>5. \A s \in Sims : HasPin(NextSim(Dropped(f)), s) =>
                 s # f.at /\ NextSim(Dropped(f)).entities[s] = f.entities[s]
  BY <1>2, <1>3, <1>4 DEF HasPin
<1> QED
  BY <1>1, <1>3, <1>5

LEMMA OnlyThreadMarks ==
    ASSUME OneFeeder, MarksInv, NEW i \in Feeders,
           \/ Listen(i) \/ RefreshSimCardCacheList(i) \/ LookAt(i) \/ PassEnds(i)
           \/ Count(i) \/ Wait(i) \/ Leave(i)
    PROVE  MarksAreFresh' /\ MarkMatchesLastTry'
<1> DEFINE f == feeder[i]
<1>1. feeder \in [Feeders -> Thread] /\ f \in Thread /\ InOrder(f) /\ FeederInv
  BY DEF MarksInv, FeederInv, FeederTypeOK
<1>2. OnlyThread /\ f.pc \in {"listen", "refresh", "sims", "count", "wait", "leave"}
  BY DEF Listen, RefreshSimCardCacheList, LookAt, PassEnds, Count, Wait, Leave
<1>3. ASSUME NEW g, feeder'[i] = g, g.pc \notin Verdict,
             \/ g.pc = "none"
             \/ \A s \in Sims : HasPin(g, s) => g.entities[s] = f.entities[s]
      PROVE  MarksAreFresh' /\ MarkMatchesLastTry'
  BY <1>2, <1>3, PinsAreKept DEF Verdict
<1>4. CASE Listen(i) \/ Leave(i)
  <2>1. \/ feeder'[i] = [f EXCEPT !.listens = TRUE, !.pc = "refresh"]
        \/ feeder'[i] = Dead
    BY <1>1, <1>4 DEF Listen, Leave, Goes
  <2>2. Dead.pc = "none"
    BY DEF Dead
  <2>3. /\ [f EXCEPT !.listens = TRUE, !.pc = "refresh"].pc = "refresh"
        /\ [f EXCEPT !.listens = TRUE, !.pc = "refresh"].entities = f.entities
    BY <1>1 DEF Thread
  <2> QED
    BY <1>3, <2>1, <2>2, <2>3 DEF Verdict
<1>5. CASE RefreshSimCardCacheList(i)
  <2>1. \/ feeder'[i] = [f EXCEPT !.pc = "leave"]
        \/ \E c : feeder'[i] = [f EXCEPT !.pc = "sims", !.at = 1, !.cache = c]
    BY <1>1, <1>5 DEF RefreshSimCardCacheList, Goes
  <2>2. feeder'[i].pc \in {"leave", "sims"} /\ feeder'[i].entities = f.entities
    BY <1>1, <2>1 DEF Thread
  <2> QED
    BY <1>3, <2>2 DEF Verdict
<1>6. CASE PassEnds(i) \/ Wait(i)
  <2>1. \/ \E pc \in {"leave", "wait"} : feeder'[i] = [f EXCEPT !.pc = pc]
        \/ feeder'[i] = [f EXCEPT !.changed = FALSE, !.pc = "refresh"]
    BY <1>1, <1>6 DEF PassEnds, Wait, Goes
  <2>2. feeder'[i].pc \in {"leave", "wait", "refresh"} /\ feeder'[i].entities = f.entities
    BY <1>1, <2>1 DEF Thread
  <2> QED
    BY <1>3, <2>2 DEF Verdict
<1>7. CASE LookAt(i) \/ Count(i)
  <2>1. \/ feeder'[i] = [f EXCEPT !.pc = "count"]
        \/ feeder'[i] = [f EXCEPT !.pc = "supply", !.retries = 1]
        \/ feeder'[i] = NextSim(f)
        \/ feeder'[i] = NextSim(Dropped(f))
    BY <1>1, <1>7 DEF LookAt, Count, Goes
  <2>2. f.at \in Sims
    BY <1>1, <1>7 DEF LookAt, Count, InOrder, AtSim
  <2>3. CASE \/ feeder'[i] = [f EXCEPT !.pc = "count"]
             \/ feeder'[i] = [f EXCEPT !.pc = "supply", !.retries = 1]
    <3>1. feeder'[i].pc \in {"count", "supply"} /\ feeder'[i].entities = f.entities
      BY <1>1, <2>3 DEF Thread
    <3> QED
      BY <1>3, <3>1 DEF Verdict
  <2>4. CASE feeder'[i] = NextSim(f) \/ feeder'[i] = NextSim(Dropped(f))
    BY <1>1, <1>3, <2>2, <2>4, DroppedPins DEF Verdict
  <2> QED
    BY <2>1, <2>3, <2>4
<1> QED
  BY <1>4, <1>5, <1>6, <1>7

LEMMA SupplyPinMarks ==
    ASSUME OneFeeder, MarksInv, NEW i \in Feeders, SupplyPin(i)
    PROVE  MarksAreFresh' /\ MarkMatchesLastTry'
<1> DEFINE f == feeder[i]
           s == f.at
<1>1. feeder \in [Feeders -> Thread] /\ f \in Thread /\ f.pc = "supply" /\ s \in Sims
      /\ stored' = stored /\ tried \in [Sims -> {NoPin, "good", "invalid", "lost"}]
      /\ Feeders = {i} /\ IsFresh(f)
  BY DEF MarksInv, FeederInv, FeederTypeOK, SupplyPin, InOrder, AtSim, OneFeeder, MarksAreFresh
<1>2. \A t \in Sims : \/ stored[t] = NoPin \/ tried[t] = "lost"
                      \/ stored[t] = IF tried[t] = NoPin THEN "good" ELSE tried[t]
  BY <1>1 DEF MarksInv, MarkMatchesLastTry
<1>3. ASSUME NEW pc \in Verdict, NEW how, how = (IF pc = "accepted" THEN "good" ELSE "invalid"),
             feeder'[i] = [f EXCEPT !.pc = pc], tried' = [tried EXCEPT ![s] = how]
      PROVE  MarksAreFresh' /\ MarkMatchesLastTry'
  <2>1. feeder'[i].pc = pc /\ feeder'[i].at = s /\ feeder'[i].entities = f.entities
    BY <1>1, <1>3 DEF Thread
  <2>2. tried'[s] = how /\ \A t \in Sims \ {s} : tried'[t] = tried[t]
    BY <1>1, <1>3
  <2>3. IsFresh(feeder[i])'
    BY <1>1, <1>3, <2>1, <2>2 DEF IsFresh, HasPin, Verdict
  <2>4. MarkMatchesLastTry'
    BY <1>1, <1>2, <2>1, <2>2 DEF MarkMatchesLastTry, Verdict
  <2> QED
    BY <1>1, <2>3, <2>4 DEF MarksAreFresh
<1>4. CASE feeder'[i] = Failed(f) /\ tried' = tried
  <2>1. CASE f.retries < 3
    <3>1. feeder'[i].pc = f.pc /\ feeder'[i].at = s /\ feeder'[i].entities = f.entities
      BY <1>1, <1>4, <2>1 DEF Failed, Thread
    <3> QED
      BY <1>1, <1>4, <3>1, PinsAreTheSame
  <2>2. CASE ~(f.retries < 3)
    <3>1. feeder'[i].pc = "sims"
          /\ \A t \in Sims : HasPin(feeder'[i], t) => feeder'[i].entities[t] = f.entities[t]
      BY <1>1, <1>4, <2>2, DroppedPins DEF Failed
    <3>2. IsFresh(feeder[i])'
      BY <1>1, <3>1 DEF IsFresh, HasPin
    <3>3. MarkMatchesLastTry'
      BY <1>1, <1>2, <1>4 DEF MarkMatchesLastTry
    <3> QED
      BY <1>1, <3>2, <3>3 DEF MarksAreFresh
  <2> QED
    BY <2>1, <2>2
<1>5. \/ /\ feeder'[i] = [f EXCEPT !.pc = "accepted"]
         /\ tried' = [tried EXCEPT ![s] = "good"]
      \/ /\ feeder'[i] = [f EXCEPT !.pc = "refused"]
         /\ tried' = [tried EXCEPT ![s] = "invalid"]
      \/ feeder'[i] = Failed(f) /\ tried' = tried
  BY <1>1 DEF SupplyPin, Goes
<1> QED
  BY <1>3, <1>4, <1>5 DEF Verdict

(* The mark is the verdict: a row read as invalid is mended by success,    *)
(* one that was not is good already.                                       *)
LEMMA MarkMarks ==
    ASSUME OneFeeder, MarksInv, NEW i \in Feeders, Mark(i)
    PROVE  MarksAreFresh' /\ MarkMatchesLastTry'
<1> DEFINE f == feeder[i]
           s == f.at
<1>1. /\ feeder \in [Feeders -> Thread] /\ f \in Thread /\ f.pc \in Verdict
      /\ s \in Sims /\ HasPin(f, s)
      /\ tried' = tried /\ stored \in [Sims -> {NoPin, "good", "invalid"}]
      /\ Feeders = {i} /\ IsFresh(f)
  BY DEF MarksInv, FeederInv, FeederTypeOK, Mark, InOrder, AtSim, OneFeeder, MarksAreFresh, Verdict
<1>2. feeder'[i] = NextSim(Dropped(f))
  BY <1>1 DEF Mark, Goes
<1>3. /\ feeder'[i].pc = "sims"
      /\ \A t \in Sims : HasPin(feeder'[i], t) =>
            t # s /\ feeder'[i].entities[t] = f.entities[t]
  BY <1>1, <1>2, DroppedPins
<1>4. /\ \A t \in Sims \ {s} : stored'[t] = stored[t]
      /\ stored[s] = NoPin => stored'[s] = NoPin
      /\ stored[s] # NoPin =>
            stored'[s] = IF f.pc = "refused" THEN "invalid"
                         ELSE IF f.entities[s].invalid THEN "good" ELSE stored[s]
  BY <1>1 DEF Mark, Remember
<1>5. IsFresh(feeder[i])'
  BY <1>1, <1>3, <1>4 DEF IsFresh, HasPin, Verdict
<1>6. stored[s] # NoPin => f.entities[s].invalid = (stored[s] = "invalid")
  BY <1>1 DEF IsFresh, Verdict
<1>7. stored[s] # NoPin => stored'[s] = tried[s] /\ tried[s] # NoPin
  <2>1. CASE f.pc = "refused"
    BY <1>1, <1>4, <2>1 DEF IsFresh, NoPin
  <2>2. CASE f.pc = "accepted" /\ stored[s] = "invalid"
    BY <1>1, <1>4, <1>6, <2>2 DEF IsFresh, NoPin
  <2>3. CASE f.pc = "accepted" /\ stored[s] # "invalid"
    BY <1>1, <1>4, <1>6, <2>3 DEF IsFresh, NoPin
  <2> QED
    BY <1>1, <2>1, <2>2, <2>3 DEF Verdict
<1>8. ASSUME NEW t \in Sims
      PROVE  \/ stored'[t] = NoPin \/ tried'[t] = "lost"
             \/ stored'[t] = IF tried'[t] = NoPin THEN "good" ELSE tried'[t]
  <2>1. CASE t = s
    BY <1>1, <1>4, <1>7, <2>1
  <2>2. CASE t # s
    BY <1>1, <1>4, <2>2 DEF MarksInv, MarkMatchesLastTry
  <2> QED
    BY <2>1, <2>2
<1> QED
  BY <1>1, <1>5, <1>8 DEF MarksAreFresh, MarkMatchesLastTry

LEMMA StartMarks ==
    ASSUME OneFeeder, MarksInv, NEW i \in Feeders, Start(i)
    PROVE  MarksAreFresh' /\ MarkMatchesLastTry'
<1> DEFINE started(b) == [Dead EXCEPT !.pc = "listen", !.bundle = b, !.entities = Usable(b)]
<1>1. /\ feeder \in [Feeders -> Thread] /\ feeder[i].pc \in {"none", "again"}
      /\ stored' = stored /\ tried' = tried /\ Feeders = {i}
  BY DEF MarksInv, FeederInv, FeederTypeOK, Start, OneFeeder
<1>2. PICK b : feeder'[i] = started(b)
  BY <1>1 DEF Start
<1>3. started(b).pc = "listen" /\ started(b).entities = Usable(b)
  <2> DEFINE e == Usable(b)
  <2> HIDE DEF e
  <2>1. /\ [Dead EXCEPT !.pc = "listen", !.bundle = b, !.entities = e].pc = "listen"
        /\ [Dead EXCEPT !.pc = "listen", !.bundle = b, !.entities = e].entities = e
    BY DEF Dead
  <2> QED
    BY <2>1 DEF e
<1> HIDE DEF started
<1>4. \A s \in Sims : Usable(b)[s].pin # NoPin /\ stored[s] # NoPin =>
                        Usable(b)[s].invalid = (stored[s] = "invalid")
  BY DEF Usable, NoEntity
<1>5. IsFresh(feeder[i])'
  BY <1>1, <1>2, <1>3, <1>4 DEF IsFresh, HasPin
<1>6. MarkMatchesLastTry'
  BY <1>1 DEF MarksInv, MarkMatchesLastTry
<1> QED
  BY <1>1, <1>5, <1>6 DEF MarksAreFresh

LEMMA CrashMarks ==
    ASSUME MarksInv, Crash
    PROVE  MarksAreFresh' /\ MarkMatchesLastTry'
<1>1. \A i \in Feeders : feeder'[i].pc \in {"none", "again"}
  BY DEF Crash, Dead
<1>2. MarksAreFresh'
  BY <1>1 DEF MarksAreFresh, IsFresh
<1>3. /\ stored' = stored
      /\ \A s \in Sims : tried'[s] = "lost" \/
            /\ tried'[s] = tried[s]
            /\ ~(\E i \in Feeders : feeder[i].pc \in {"accepted", "refused"} /\ feeder[i].at = s)
  BY DEF Crash
<1>4. MarkMatchesLastTry'
  BY <1>3 DEF MarksInv, MarkMatchesLastTry
<1> QED
  BY <1>2, <1>4

LEMMA UserEditsMarks ==
    ASSUME ~EditsWhileFeeding, MarksInv, NEW s \in Sims, UserEdits(s)
    PROVE  MarksAreFresh' /\ MarkMatchesLastTry'
<1>1. /\ feeder' = feeder /\ \A i \in Feeders : feeder[i].pc \in {"none", "again"}
      /\ stored \in [Sims -> {NoPin, "good", "invalid"}]
      /\ tried \in [Sims -> {NoPin, "good", "invalid", "lost"}]
      /\ tried' = [tried EXCEPT ![s] = NoPin]
      /\ \E row \in {NoPin, "good"} : stored' = [stored EXCEPT ![s] = row]
  BY DEF UserEdits, MarksInv, FeederInv, FeederTypeOK
<1>2. MarksAreFresh'
  BY <1>1 DEF MarksAreFresh, IsFresh
<1>3. /\ stored'[s] \in {NoPin, "good"} /\ tried'[s] = NoPin
      /\ \A t \in Sims \ {s} : stored'[t] = stored[t] /\ tried'[t] = tried[t]
  BY <1>1
<1>4. MarkMatchesLastTry'
  BY <1>1, <1>3 DEF MarksInv, MarkMatchesLastTry
<1> QED
  BY <1>2, <1>4

LEMMA StepMarks ==
    ASSUME OneFeeder, ~EditsWhileFeeding, MarksInv, [FeederNext]_pinVars
    PROVE  MarksAreFresh' /\ MarkMatchesLastTry'
<1>1. feeder \in [Feeders -> Thread]
  BY DEF MarksInv, FeederInv, FeederTypeOK
<1>2. CASE \/ UNCHANGED pinVars
           \/ \E s \in Sims : SimChanges(s) \/ UserEnters(s)
  BY <1>2, PinsAreTheSame DEF pinVars, SimChanges, UserEnters
<1>3. CASE \E s \in Sims : Broadcast(s)
  <2>1. \A i \in Feeders : feeder'[i] = [feeder[i] EXCEPT !.changed = @ \/ feeder[i].listens]
    BY <1>3 DEF Broadcast
  <2>2. \A i \in Feeders : /\ feeder'[i].pc = feeder[i].pc
                           /\ feeder'[i].at = feeder[i].at
                           /\ feeder'[i].entities = feeder[i].entities
    BY <1>1, <2>1 DEF Thread
  <2> QED
    BY <1>3, <2>2, PinsAreTheSame DEF Broadcast
<1>4. CASE \E i \in Feeders : Cancel(i)
  <2>1. PICK i \in Feeders : feeder' = [feeder EXCEPT ![i].released = TRUE]
                            /\ stored' = stored /\ tried' = tried
    BY <1>4 DEF Cancel
  <2>2. \A j \in Feeders : \/ feeder'[j] = feeder[j]
                           \/ feeder'[j] = [feeder[j] EXCEPT !.released = TRUE]
    BY <1>1, <2>1
  <2>3. \A j \in Feeders : /\ feeder'[j].pc = feeder[j].pc
                           /\ feeder'[j].at = feeder[j].at
                           /\ feeder'[j].entities = feeder[j].entities
    BY <1>1, <2>2 DEF Thread
  <2> QED
    BY <2>1, <2>3, PinsAreTheSame
<1>5. ASSUME NEW i \in Feeders, Start(i) \/ Run(i)
      PROVE  MarksAreFresh' /\ MarkMatchesLastTry'
  BY <1>5, StartMarks, OnlyThreadMarks, SupplyPinMarks, MarkMarks DEF Run
<1> QED
  BY <1>2, <1>3, <1>4, <1>5, CrashMarks, UserEditsMarks DEF FeederNext

(* What PinStorage remembers is how the last PIN tried was found, for any  *)
(* SIMs, alarms, cancellations and deaths that do not come between the try *)
(* and its mark, if PINs are edited between feedings: handleBadPinEntity   *)
(* gives the mark to the row whose PIN was tried.                          *)
THEOREM MarksAreTrue ==
    ASSUME OneFeeder, ~EditsWhileFeeding
    PROVE  FeederSpec => []MarkMatchesLastTry
<1>1. FeederInit => MarksAreFresh /\ MarkMatchesLastTry
  BY DEF FeederInit, MarksAreFresh, IsFresh, MarkMatchesLastTry, Dead, NoPins, NoPin
<1>2. FeederInv /\ MarksAreFresh /\ MarkMatchesLastTry /\ [FeederNext]_pinVars
         => MarksAreFresh' /\ MarkMatchesLastTry'
  BY StepMarks DEF MarksInv
<1> QED
  BY <1>1, <1>2, FeederInvHolds, PTL DEF FeederSpec
=============================================================================
