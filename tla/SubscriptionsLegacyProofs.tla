----------------------- MODULE SubscriptionsLegacyProofs -----------------------
(***************************************************************************)
(* What holds of the list of subscriptions on a legacy RIL for any slots   *)
(* and cards: no sync starts during a request, on any phone; and where all *)
(* work is on the worker, a card that was powered down stays in the list,  *)
(* a quiet list is in step with what is known, and no sync takes a request *)
(* or a reboot for the user's choice.                                      *)
(***************************************************************************)
EXTENDS SubscriptionsLegacy, FiniteSetTheorems, TLAPS

Requested == req # NoReq

(* The flag is set as long as a request is under way.                      *)
RequestBlocks == Requested => blocked

(* What a phone without delays and with a single thread adds: the list is  *)
(* that of the hardware, and a sync and a request exclude each other.      *)
OneThread ==
    /\ \A s \in Slots : visible[s] = Shown(s)
    /\ Requested => req.thread = "worker" /\ ~SyncRunning

(* What makes PoweredDownCardIsListed inductive. A slot that was powered   *)
(* down is persisted as disabled; a sync has not seen its card; and a      *)
(* request finds what it has announced when it is done.                    *)
PoweredDownIsPersisted ==
    /\ \A s \in Slots : downBy[s] = "app" /\ req.slot # s =>
          slotProp[s].state = "disabled" /\ slotProp[s].sub # None
    /\ SyncRunning => \A s \in Slots : downBy[s] = "app" => sync.seen[s] = None
    /\ Requested =>
          /\ slotProp[req.slot] = [sub |-> req.sub,
                                   state |-> IF req.enabled THEN "enabled" ELSE "disabled"]
          /\ ~req.enabled => downBy[req.slot] # "app"

RequestTyped ==
    Requested => req.slot \in Slots /\ req.sub \in Subs /\ req.thread \in {"worker", "ui"}

Inv ==
    /\ TypeOK
    /\ RequestTyped
    /\ RequestBlocks
    /\ phone = {} => OneThread /\ PoweredDownIsPersisted
-----------------------------------------------------------------------------
LEMMA SlotsAreNumbers ==
    /\ Cardinality(Slots) \in Nat /\ Slots = 1..Cardinality(Slots)
    /\ NoSlot \notin Slots /\ None \notin Subs
BY SubscriptionsAssumption, FS_CardinalityType DEF NoSlot

LEMMA NothingUnderWay ==
    /\ NoSync \in [next : 0..(Cardinality(Slots) + 1), seen : [Slots -> Maybe(Subs)],
                   removed : SUBSET Subs, usable : SUBSET Subs, noted : SUBSET Subs]
    /\ NoReq \in [thread : Maybe({"worker", "ui"}), slot : Slots \union {NoSlot},
                  sub : Maybe(Subs), enabled : BOOLEAN]
    /\ NoSync.next \notin Slots
BY SlotsAreNumbers DEF NoSync, NoReq, NoSlot, Maybe

LEMMA InitInv == Init => Inv
<1> SUFFICES ASSUME Init PROVE Inv
  OBVIOUS
<1>1. TypeOK
  BY NothingUnderWay DEF Init, TypeOK, Maybe, SimState
<1>2. ~Requested /\ ~SyncRunning
  BY DEF Init, Requested, SyncRunning
<1>3. \A s \in Slots : downBy[s] = "nobody" /\ visible[s] = card[s]
  BY DEF Init
<1> QED
  BY <1>1, <1>2, <1>3 DEF Inv, RequestTyped, RequestBlocks, OneThread, PoweredDownIsPersisted,
     Shown

(* What is listed is a card or nothing, and seldom anything but enabled.   *)
LEMMA ElementTyped ==
    ASSUME TypeOK, NEW s \in Slots, NEW seen \in [Slots -> Maybe(Subs)]
    PROVE  /\ Element(s, seen).sub \in Maybe(Subs)
           /\ Element(s, seen).state \in SimState
           /\ Element(s, seen) = [sub |-> Element(s, seen).sub, state |-> Element(s, seen).state]
BY DEF TypeOK, Element, Maybe, SimState

LEMMA PersistTyped ==
    ASSUME TypeOK, NEW s \in Slots, NEW sub \in Subs, NEW state \in SimState,
           NEW preference \in {"none", "on", "off"},
           persistSubscription(s, sub, state, preference)
    PROVE  /\ slotProp' \in [Slots -> [sub : Maybe(Subs), state : SimState]]
           /\ subState' \in [Subs -> SimState]
           /\ pref' \in [Subs -> {"none", "on", "off"}]
           /\ slotProp'[s] = [sub |-> sub, state |-> state]
           /\ \A t \in Slots \ {s} : slotProp'[t] = slotProp[t]
<1> DEFINE element == [sub |-> sub, state |-> state]
<1>1. element \in [sub : Maybe(Subs), state : SimState]
  BY DEF Maybe
<1>2. slotProp' = [slotProp EXCEPT ![s] = element]
  BY DEF persistSubscription
<1> HIDE DEF element
<1>3. slotProp' \in [Slots -> [sub : Maybe(Subs), state : SimState]]
  BY <1>1, <1>2 DEF TypeOK
<1>4. slotProp'[s] = element /\ \A t \in Slots \ {s} : slotProp'[t] = slotProp[t]
  BY <1>2 DEF TypeOK
<1>5. subState' \in [Subs -> SimState] /\ pref' \in [Subs -> {"none", "on", "off"}]
  BY DEF persistSubscription, TypeOK
<1> QED
  BY <1>3, <1>4, <1>5 DEF element
-----------------------------------------------------------------------------
(* syncSubscriptions.                                                      *)
Sync == [next : 0..(Cardinality(Slots) + 1), seen : [Slots -> Maybe(Subs)],
         removed : SUBSET Subs, usable : SUBSET Subs, noted : SUBSET Subs]

LEMMA SyncBeginInv ==
    ASSUME Inv, SyncBegin
    PROVE  Inv'
<1> DEFINE n == cause \union {u \in Subs : \A s \in Slots : card[s] # u}
           begun == [next |-> 1, seen |-> visible, removed |-> usable, usable |-> {}, noted |-> n]
<1>1. /\ UNCHANGED <<phone, card, downBy, visible, slotProp, subState, usable, pref, blocked,
                     req, synced>>
      /\ due' = FALSE /\ WorkerIdle
  BY DEF SyncBegin, props
<1>2. TypeOK /\ sync \in Sync /\ cause \subseteq Subs
  BY DEF Inv, TypeOK, Sync
<1>3. 1 \in 0..(Cardinality(Slots) + 1) /\ n \subseteq Subs
  BY <1>2, SlotsAreNumbers
<1>4. begun \in Sync /\ begun.seen = visible
  BY <1>2, <1>3 DEF TypeOK, Sync
<1>5. \/ sync' = sync
      \/ sync' = begun /\ ~blocked
  BY DEF SyncBegin
<1> HIDE DEF begun
<1>6. sync' \in Sync /\ cause' \subseteq Subs
  BY <1>2, <1>4, <1>5 DEF SyncBegin
<1>7. TypeOK'
  BY <1>1, <1>2, <1>6 DEF TypeOK, Sync
<1>8. RequestTyped' /\ RequestBlocks'
  BY <1>1 DEF Inv, RequestTyped, RequestBlocks, Requested
<1>9. ASSUME phone' = {} PROVE OneThread' /\ PoweredDownIsPersisted'
  <2>1. OneThread /\ PoweredDownIsPersisted
    BY <1>1, <1>9 DEF Inv
  <2>2. Requested => req.thread = "worker"
    BY <2>1 DEF OneThread
  <2>3. ~Requested
    BY <1>1, <2>2 DEF WorkerIdle
  <2>4. OneThread'
    BY <1>1, <2>1, <2>3 DEF OneThread, Requested, Shown
  <2>5. \A s \in Slots : downBy[s] = "app" => visible[s] = None
    BY <2>1 DEF OneThread, Shown
  <2>6. SyncRunning' => \A s \in Slots : downBy'[s] = "app" => sync'.seen[s] = None
    BY <1>1, <1>4, <1>5, <2>1, <2>5 DEF PoweredDownIsPersisted, SyncRunning
  <2> QED
    BY <1>1, <2>1, <2>3, <2>4, <2>6 DEF PoweredDownIsPersisted, Requested
<1> QED
  BY <1>7, <1>8, <1>9 DEF Inv

(* An outside alteration persists a disabled slot as it was.               *)
LEMMA SyncSlotInv ==
    ASSUME Inv, SyncSlot
    PROVE  Inv'
<1> DEFINE s == sync.next
           e == Element(s, sync.seen)
<1>1. /\ UNCHANGED <<phone, card, downBy, visible, usable, blocked, due, req, cause, synced>>
      /\ s \in Slots
  BY DEF SyncSlot
<1>2. TypeOK /\ sync \in Sync
  BY DEF Inv, TypeOK, Sync
<1>3. /\ e.sub \in Maybe(Subs) /\ e.state \in SimState
      /\ e = [sub |-> e.sub, state |-> e.state]
  BY <1>1, <1>2, ElementTyped DEF Sync
<1>4. sync' = [sync EXCEPT !.next = s + 1, !.removed = @ \ {e.sub},
                           !.usable = @ \union ({e.sub} \ {None})]
  BY DEF SyncSlot
<1>5. sync' \in Sync /\ sync'.seen = sync.seen
  <2>1. s + 1 \in 0..(Cardinality(Slots) + 1)
    BY <1>1, SlotsAreNumbers
  <2>2. sync.removed \ {e.sub} \subseteq Subs /\ sync.usable \union ({e.sub} \ {None}) \subseteq Subs
    BY <1>2, <1>3 DEF Sync, Maybe
  <2> HIDE DEF e
  <2> QED
    BY <1>2, <1>4, <2>1, <2>2 DEF Sync
<1>6. /\ slotProp' \in [Slots -> [sub : Maybe(Subs), state : SimState]]
      /\ subState' \in [Subs -> SimState]
      /\ pref' \in [Subs -> {"none", "on", "off"}]
      /\ \A t \in Slots : slotProp'[t] = slotProp[t] \/ (t = s /\ slotProp'[t] = e)
  <2>1. CASE OutsideAlteration(e.sub, e.state)
    <3>1. e.sub \in Subs
      BY <1>3, <2>1 DEF OutsideAlteration, Maybe
    <3>2. PICK preference \in {"none", "on", "off"} :
             persistSubscription(s, e.sub, e.state, preference)
      BY <2>1 DEF SyncSlot
    <3> HIDE DEF e
    <3>3. /\ slotProp' \in [Slots -> [sub : Maybe(Subs), state : SimState]]
          /\ subState' \in [Subs -> SimState]
          /\ pref' \in [Subs -> {"none", "on", "off"}]
          /\ slotProp'[s] = [sub |-> e.sub, state |-> e.state]
          /\ \A t \in Slots \ {s} : slotProp'[t] = slotProp[t]
      BY <1>1, <1>2, <1>3, <3>1, <3>2, PersistTyped
    <3>4. slotProp'[s] = e
      BY <1>3, <3>3
    <3> QED
      BY <1>1, <3>3, <3>4
  <2>2. CASE ~OutsideAlteration(e.sub, e.state)
    <3>1. /\ subState' = IF e.sub = None THEN subState ELSE [subState EXCEPT ![e.sub] = e.state]
          /\ slotProp' = slotProp /\ pref' = pref
      BY <2>2 DEF SyncSlot
    <3> HIDE DEF e
    <3>2. subState' \in [Subs -> SimState]
      BY <1>2, <1>3, <3>1 DEF TypeOK, Maybe
    <3> QED
      BY <1>2, <3>1, <3>2 DEF TypeOK
  <2> QED
    BY <2>1, <2>2
<1>7. TypeOK'
  BY <1>1, <1>2, <1>5, <1>6 DEF TypeOK, Sync
<1>8. RequestTyped' /\ RequestBlocks'
  BY <1>1 DEF Inv, RequestTyped, RequestBlocks, Requested
<1>9. ASSUME phone' = {} PROVE OneThread' /\ PoweredDownIsPersisted'
  <2>1. OneThread /\ PoweredDownIsPersisted
    BY <1>1, <1>9 DEF Inv
  <2>2. SyncRunning
    BY <1>1, NothingUnderWay DEF SyncRunning
  <2>3. ~Requested
    BY <2>1, <2>2 DEF OneThread
  <2>4. OneThread'
    BY <1>1, <2>1, <2>3 DEF OneThread, Requested, Shown
  <2>5. \A t \in Slots : downBy[t] = "app" =>
           slotProp[t].state = "disabled" /\ slotProp[t].sub # None
    BY <2>1, <2>3, SlotsAreNumbers DEF PoweredDownIsPersisted, Requested, NoReq
  <2>6. \A t \in Slots : downBy[t] = "app" => slotProp'[t] = slotProp[t]
    <3>1. ASSUME downBy[s] = "app" PROVE e = slotProp[s]
      <4>1. sync.seen[s] = None /\ slotProp[s].state = "disabled"
        BY <1>1, <2>1, <2>2, <2>5, <3>1 DEF PoweredDownIsPersisted
      <4> QED
        BY <4>1 DEF Element
    <3> QED
      BY <1>1, <1>6, <3>1
  <2> QED
    BY <1>1, <1>5, <2>1, <2>2, <2>3, <2>4, <2>5, <2>6
       DEF PoweredDownIsPersisted, Requested
<1> QED
  BY <1>7, <1>8, <1>9 DEF Inv

LEMMA SyncEndInv ==
    ASSUME Inv, SyncEnd
    PROVE  Inv'
<1>1. /\ UNCHANGED <<phone, card, downBy, visible, slotProp, blocked, due, req, cause>>
      /\ sync' = NoSync /\ synced' = TRUE
  BY DEF SyncEnd
<1>2. usable' \subseteq Subs
  BY DEF SyncEnd, Inv, TypeOK
<1>3. subState' \in [Subs -> SimState] /\ pref' \in [Subs -> {"none", "on", "off"}]
  BY DEF SyncEnd, Inv, TypeOK, SimState
<1>4. TypeOK'
  BY <1>1, <1>2, <1>3, NothingUnderWay DEF Inv, TypeOK
<1>5. RequestTyped' /\ RequestBlocks'
  BY <1>1 DEF Inv, RequestTyped, RequestBlocks, Requested
<1>6. ~SyncRunning'
  BY <1>1 DEF SyncRunning
<1>7. phone' = {} => OneThread' /\ PoweredDownIsPersisted'
  BY <1>1, <1>6 DEF Inv, OneThread, PoweredDownIsPersisted, Requested, Shown
<1> QED
  BY <1>4, <1>5, <1>7 DEF Inv
-----------------------------------------------------------------------------
(* setSimState.                                                            *)

(* Where everything is on the worker, a slot that was powered down is      *)
(* listed as disabled, so it is never asked to be disabled again.          *)
LEMMA SetBeginInv ==
    ASSUME Inv, NEW thread \in {"worker", "ui"}, NEW s \in Slots, SetBegin(thread, s),
           thread = "ui" => "ui" \in phone
    PROVE  Inv'
<1> DEFINE e == Listed(s)
           enabled == e.state = "disabled"
           request == [thread |-> thread, slot |-> s, sub |-> e.sub, enabled |-> enabled]
<1>1. /\ UNCHANGED <<phone, card, downBy, visible, usable, due, sync, cause, synced>>
      /\ ~Requested /\ req' = request /\ blocked' = TRUE /\ e.sub # None
      /\ thread = "worker" => WorkerIdle
  BY DEF SetBegin, Requested
<1>2. TypeOK /\ visible \in [Slots -> Maybe(Subs)]
  BY DEF Inv, TypeOK
<1>3. e.sub \in Subs /\ enabled \in BOOLEAN
  BY <1>1, <1>2, ElementTyped DEF Listed, Maybe
<1> HIDE DEF e
<1>4. /\ request \in [thread : Maybe({"worker", "ui"}), slot : Slots \union {NoSlot},
                      sub : Maybe(Subs), enabled : BOOLEAN]
      /\ request.thread = thread /\ request.slot = s /\ request.sub = e.sub
      /\ request.enabled = enabled /\ request # NoReq
  BY <1>3, SlotsAreNumbers DEF Maybe, NoReq
<1> DEFINE st == IF enabled THEN "enabled" ELSE "disabled"
           preference == IF enabled THEN "on" ELSE "off"
<1>5. persistSubscription(s, e.sub, st, preference)
  BY DEF SetBegin, e
<1>6. st \in SimState /\ preference \in {"none", "on", "off"}
  BY DEF SimState
<1> HIDE DEF request, st, preference
<1>7. /\ slotProp' \in [Slots -> [sub : Maybe(Subs), state : SimState]]
      /\ subState' \in [Subs -> SimState]
      /\ pref' \in [Subs -> {"none", "on", "off"}]
      /\ slotProp'[s] = [sub |-> e.sub, state |-> st]
      /\ \A t \in Slots \ {s} : slotProp'[t] = slotProp[t]
  BY <1>2, <1>3, <1>5, <1>6, PersistTyped
<1>8. TypeOK'
  BY <1>1, <1>2, <1>4, <1>7 DEF TypeOK
<1>9. RequestTyped' /\ RequestBlocks'
  BY <1>1, <1>3, <1>4 DEF RequestTyped, RequestBlocks, Requested
<1>10. ASSUME phone' = {} PROVE OneThread' /\ PoweredDownIsPersisted'
  <2>1. OneThread /\ PoweredDownIsPersisted /\ thread = "worker" /\ ~SyncRunning
    BY <1>1, <1>10 DEF Inv, WorkerIdle
  <2>2. Requested' /\ ~SyncRunning'
    BY <1>1, <1>4, <2>1 DEF Requested, SyncRunning
  <2>3. OneThread'
    BY <1>1, <1>4, <2>1, <2>2 DEF OneThread, Shown
  <2>4. \A t \in Slots : downBy[t] = "app" =>
           slotProp[t].state = "disabled" /\ slotProp[t].sub # None
    BY <1>1, <2>1, SlotsAreNumbers DEF PoweredDownIsPersisted, Requested, NoReq
  <2>5. downBy[s] = "app" => enabled
    BY <2>1, <2>4 DEF OneThread, Shown, Listed, Element, e
  <2>6. \A t \in Slots : downBy'[t] = "app" /\ req'.slot # t =>
           slotProp'[t].state = "disabled" /\ slotProp'[t].sub # None
    BY <1>1, <1>4, <1>7, <2>4
  <2>7. slotProp'[req'.slot] = [sub |-> req'.sub,
                                state |-> IF req'.enabled THEN "enabled" ELSE "disabled"]
    BY <1>1, <1>4, <1>7 DEF st
  <2>8. ~req'.enabled => downBy'[req'.slot] # "app"
    BY <1>1, <1>4, <2>5
  <2> QED
    BY <2>2, <2>3, <2>6, <2>7, <2>8 DEF PoweredDownIsPersisted
<1> QED
  BY <1>8, <1>9, <1>10 DEF Inv

LEMMA FollowTyped ==
    ASSUME Inv, Follow, phone' = phone,
           card' \in [Slots -> Maybe(Subs)],
           downBy' \in [Slots -> {"nobody", "app", "outside"}]
    PROVE  /\ visible' \in [Slots -> Maybe(Subs)] /\ due' \in BOOLEAN
           /\ phone' = {} => \A s \in Slots : visible'[s] = Shown(s)'
<1>1. \A s \in Slots : Shown(s)' \in Maybe(Subs)
  BY DEF Shown, Maybe
<1>2. visible' \in [Slots -> Maybe(Subs)]
  BY <1>1 DEF Follow, Inv, TypeOK
<1>3. due' \in BOOLEAN
  BY DEF Follow
<1> QED
  BY <1>2, <1>3 DEF Follow

(* The end of a request, either way.                                       *)
LEMMA RequestEnds ==
    ASSUME Inv, Requested, req' = NoReq, blocked' = FALSE,
           UNCHANGED <<phone, card, usable, sync, cause, synced>>, Follow,
           downBy' \in [Slots -> {"nobody", "app", "outside"}],
           slotProp' \in [Slots -> [sub : Maybe(Subs), state : SimState]],
           subState' \in [Subs -> SimState],
           pref' \in [Subs -> {"none", "on", "off"}],
           phone = {} => \A s \in Slots : downBy'[s] = "app" =>
                            slotProp'[s].state = "disabled" /\ slotProp'[s].sub # None
    PROVE  Inv'
<1>1. visible' \in [Slots -> Maybe(Subs)] /\ due' \in BOOLEAN
      /\ (phone' = {} => \A s \in Slots : visible'[s] = Shown(s)')
  BY FollowTyped DEF Inv, TypeOK
<1>2. TypeOK'
  BY <1>1, NothingUnderWay DEF Inv, TypeOK
<1>3. RequestTyped' /\ RequestBlocks' /\ ~Requested'
  BY DEF RequestTyped, RequestBlocks, Requested
<1>4. phone' = {} => OneThread'
  BY <1>1, <1>3 DEF OneThread
<1>5. phone' = {} => ~SyncRunning'
  BY DEF Inv, OneThread, SyncRunning
<1>6. phone' = {} => PoweredDownIsPersisted'
  BY <1>3, <1>5 DEF PoweredDownIsPersisted
<1> QED
  BY <1>2, <1>3, <1>4, <1>6 DEF Inv

LEMMA SetSucceedsInv ==
    ASSUME Inv, SetSucceeds
    PROVE  Inv'
<1>1. /\ UNCHANGED <<phone, card, props, sync, cause, synced>> /\ Follow
      /\ Requested /\ req' = NoReq /\ blocked' = FALSE
      /\ downBy' = [downBy EXCEPT ![req.slot] = IF req.enabled THEN "nobody" ELSE "app"]
  BY DEF SetSucceeds, PowerAsAsked, Requested
<1>2. TypeOK /\ req.slot \in Slots /\ req.sub \in Subs
  BY <1>1 DEF Inv, RequestTyped
<1>3. downBy' \in [Slots -> {"nobody", "app", "outside"}]
  BY <1>1, <1>2 DEF TypeOK
<1>4. ASSUME phone = {}, NEW s \in Slots, downBy'[s] = "app"
      PROVE  slotProp[s].state = "disabled" /\ slotProp[s].sub # None
  <2>1. PoweredDownIsPersisted
    BY <1>4 DEF Inv
  <2>2. CASE s = req.slot
    <3>1. ~req.enabled
      BY <1>1, <1>2, <1>4, <2>2 DEF TypeOK
    <3> QED
      BY <1>1, <1>2, <2>1, <2>2, <3>1, SlotsAreNumbers DEF PoweredDownIsPersisted
  <2>3. CASE s # req.slot
    BY <1>1, <1>2, <1>4, <2>1, <2>3 DEF PoweredDownIsPersisted, TypeOK
  <2> QED
    BY <2>2, <2>3
<1> QED
  BY <1>1, <1>2, <1>3, <1>4, RequestEnds DEF TypeOK, props

(* A request that fails to enable a slot persists it as disabled again.    *)
LEMMA SetFailsInv ==
    ASSUME Inv, SetFails
    PROVE  Inv'
<1> DEFINE st == IF req.enabled THEN "disabled" ELSE "enabled"
<1>1. /\ UNCHANGED <<phone, card, usable, sync, cause, synced>> /\ Follow
      /\ Requested /\ req' = NoReq /\ blocked' = FALSE
      /\ persistSubscription(req.slot, req.sub, st, pref[req.sub])
      /\ \/ downBy' = downBy
         \/ downBy' = [downBy EXCEPT ![req.slot] = IF req.enabled THEN "app" ELSE "nobody"]
  BY DEF SetFails, PowerAsAsked, Requested, RevertSubscription
<1>2. TypeOK /\ req.slot \in Slots /\ req.sub \in Subs
  BY <1>1 DEF Inv, RequestTyped
<1>3. downBy' \in [Slots -> {"nobody", "app", "outside"}]
  BY <1>1, <1>2 DEF TypeOK
<1>4. st \in SimState /\ pref[req.sub] \in {"none", "on", "off"}
  BY <1>2 DEF SimState, TypeOK
<1>5. /\ slotProp' \in [Slots -> [sub : Maybe(Subs), state : SimState]]
      /\ subState' \in [Subs -> SimState]
      /\ pref' \in [Subs -> {"none", "on", "off"}]
      /\ slotProp'[req.slot] = [sub |-> req.sub, state |-> st]
      /\ \A t \in Slots \ {req.slot} : slotProp'[t] = slotProp[t]
  <2> HIDE DEF st
  <2> QED
    BY <1>1, <1>2, <1>4, PersistTyped
<1>6. ASSUME phone = {}, NEW s \in Slots, downBy'[s] = "app"
      PROVE  slotProp'[s].state = "disabled" /\ slotProp'[s].sub # None
  <2>1. PoweredDownIsPersisted
    BY <1>6 DEF Inv
  <2>2. CASE s = req.slot
    <3>1. req.enabled
      BY <1>1, <1>2, <1>6, <2>1, <2>2 DEF TypeOK, PoweredDownIsPersisted
    <3> QED
      BY <1>2, <1>5, <2>2, <3>1, SlotsAreNumbers
  <2>3. CASE s # req.slot
    BY <1>1, <1>2, <1>5, <1>6, <2>1, <2>3 DEF PoweredDownIsPersisted, TypeOK
  <2> QED
    BY <2>2, <2>3
<1> HIDE DEF st
<1> QED
  BY <1>1, <1>3, <1>5, <1>6, RequestEnds
-----------------------------------------------------------------------------
(* The user's hands, other applications, the system: nothing but the       *)
(* application powers a slot down in its name.                             *)
LEMMA HandsInv ==
    ASSUME Inv, UNCHANGED <<phone, props, blocked, sync, req, synced>>, Follow,
           card' \in [Slots -> Maybe(Subs)],
           downBy' \in [Slots -> {"nobody", "app", "outside"}],
           cause' \subseteq Subs,
           \A s \in Slots : downBy'[s] = "app" => downBy[s] = "app"
    PROVE  Inv'
<1>1. visible' \in [Slots -> Maybe(Subs)] /\ due' \in BOOLEAN
      /\ (phone' = {} => \A s \in Slots : visible'[s] = Shown(s)')
  BY FollowTyped
<1>2. TypeOK'
  BY <1>1 DEF Inv, TypeOK, props
<1>3. RequestTyped' /\ RequestBlocks'
  BY DEF Inv, RequestTyped, RequestBlocks, Requested
<1>4. phone' = {} => OneThread'
  BY <1>1 DEF Inv, OneThread, Requested, SyncRunning
<1>5. ASSUME phone' = {} PROVE PoweredDownIsPersisted'
  <2>1. PoweredDownIsPersisted /\ RequestTyped /\ slotProp' = slotProp
    BY <1>5 DEF Inv, props
  <2> QED
    BY <2>1 DEF PoweredDownIsPersisted, Requested, RequestTyped, SyncRunning
<1> QED
  BY <1>2, <1>3, <1>4, <1>5 DEF Inv

LEMMA InsertCardInv ==
    ASSUME Inv, NEW s \in Slots, NEW u \in Subs, InsertCard(s, u)
    PROVE  Inv'
<1>1. card' \in [Slots -> Maybe(Subs)] /\ cause' \subseteq Subs /\ downBy' = downBy
  BY DEF InsertCard, Inv, TypeOK, Maybe
<1> QED
  BY <1>1, HandsInv DEF InsertCard, Inv, TypeOK

LEMMA RemoveCardInv ==
    ASSUME Inv, NEW s \in Slots, RemoveCard(s)
    PROVE  Inv'
<1>1. card' \in [Slots -> Maybe(Subs)] /\ cause' \subseteq Subs /\ downBy' = downBy
  BY DEF RemoveCard, Inv, TypeOK, Maybe
<1> QED
  BY <1>1, HandsInv DEF RemoveCard, Inv, TypeOK

LEMMA OutsidePowerInv ==
    ASSUME Inv, NEW s \in Slots, OutsidePower(s)
    PROVE  Inv'
<1>1. card' = card /\ card[s] \in Maybe(Subs)
  BY DEF OutsidePower, Inv, TypeOK
<1>2. cause' \subseteq Subs
  BY <1>1 DEF OutsidePower, Inv, TypeOK, Maybe
<1>3. downBy \in [Slots -> {"nobody", "app", "outside"}]
      /\ downBy' = [downBy EXCEPT ![s] = IF @ = "nobody" THEN "outside" ELSE "nobody"]
  BY DEF OutsidePower, Inv, TypeOK
<1>4. downBy' \in [Slots -> {"nobody", "app", "outside"}]
      /\ \A t \in Slots : downBy'[t] = "app" => downBy[t] = "app"
  BY <1>3
<1> QED
  BY <1>1, <1>2, <1>4, HandsInv DEF OutsidePower, Inv, TypeOK

LEMMA CatchUpInv ==
    ASSUME Inv, NEW s \in Slots, CatchUp(s)
    PROVE  Inv'
<1>1. /\ UNCHANGED <<phone, card, downBy, props, blocked, sync, req, cause, synced>>
      /\ due' = TRUE /\ visible' = [visible EXCEPT ![s] = Shown(s)] /\ visible[s] # Shown(s)
  BY DEF CatchUp
<1>2. visible' \in [Slots -> Maybe(Subs)]
  BY <1>1 DEF Shown, Inv, TypeOK, Maybe
<1>3. TypeOK'
  BY <1>1, <1>2 DEF Inv, TypeOK, props
<1>4. RequestTyped' /\ RequestBlocks'
  BY <1>1 DEF Inv, RequestTyped, RequestBlocks, Requested
<1>5. phone' # {}
  BY <1>1 DEF Inv, OneThread
<1> QED
  BY <1>3, <1>4, <1>5 DEF Inv

LEMMA RebootInv ==
    ASSUME Inv, Reboot
    PROVE  Inv'
<1>1. /\ UNCHANGED <<phone, card, pref>> /\ visible' = card
      /\ downBy' = [s \in Slots |-> "nobody"]
      /\ slotProp' = [s \in Slots |-> [sub |-> None, state |-> "unknown"]]
      /\ subState' = [s \in Subs |-> "unknown"]
      /\ usable' = {} /\ blocked' = FALSE /\ due' \in BOOLEAN /\ sync' = NoSync
      /\ req' = NoReq /\ synced' = FALSE /\ cause' = {}
  BY DEF Reboot, Booted
<1>2. TypeOK'
  BY <1>1, NothingUnderWay DEF Inv, TypeOK, Maybe, SimState
<1>3. ~Requested' /\ ~SyncRunning'
  BY <1>1 DEF Requested, SyncRunning
<1>4. \A s \in Slots : downBy'[s] = "nobody" /\ visible'[s] = card'[s]
  BY <1>1
<1> QED
  BY <1>2, <1>3, <1>4 DEF Inv, RequestTyped, RequestBlocks, OneThread, PoweredDownIsPersisted,
     Shown
-----------------------------------------------------------------------------
LEMMA NextInv == Inv /\ [Next]_vars => Inv'
<1> SUFFICES ASSUME Inv, [Next]_vars PROVE Inv'
  OBVIOUS
<1>1. HotSlots \subseteq Slots
  BY SubscriptionsAssumption
<1>2. CASE \E s \in Slots : SetBegin("worker", s) \/ ("ui" \in phone /\ SetBegin("ui", s))
  BY <1>2, SetBeginInv
<1>3. CASE UNCHANGED vars
  BY <1>3 DEF vars, Inv, TypeOK, RequestTyped, RequestBlocks, Requested, OneThread,
     PoweredDownIsPersisted, SyncRunning, Shown
<1> QED
  BY <1>1, <1>2, <1>3, SyncBeginInv, SyncSlotInv, SyncEndInv, SetSucceedsInv, SetFailsInv,
     InsertCardInv, RemoveCardInv, OutsidePowerInv, CatchUpInv, RebootInv DEF Next

LEMMA InvHolds == Spec => []Inv
BY InitInv, NextInv, PTL DEF Spec

(* Any slots, cards and phones: properties, rows, the list and what is     *)
(* under way keep their types.                                             *)
THEOREM SubscriptionsTypeCorrect == Spec => []TypeOK
<1>1. Inv => TypeOK
  BY DEF Inv
<1> QED
  BY <1>1, InvHolds, PTL

(* "Ensure SIM subscription syncing cannot start in parallel during this   *)
(* operation": on any phone mBlockSubscriptionsSyncFlag keeps a sync from  *)
(* starting as long as a request is under way, whichever thread made it.   *)
THEOREM NoSyncDuringRequest == Spec => NoSyncStartsDuringRequest
<1>1. Inv /\ [Next]_vars => [Requested /\ ~SyncRunning => ~SyncRunning']_vars
  <2> SUFFICES ASSUME Inv, Next, Requested, ~SyncRunning PROVE ~SyncRunning'
    OBVIOUS
  <2>1. blocked /\ sync = NoSync /\ NoSync.next \notin Slots
    BY NothingUnderWay DEF Inv, RequestBlocks, SyncRunning
  <2>2. sync' = NoSync
    BY <2>1 DEF Next, SyncBegin, SyncSlot, SyncEnd, SetBegin, SetSucceeds, SetFails, CatchUp,
       OutsidePower, RemoveCard, InsertCard, Reboot, Booted
  <2> QED
    BY <2>2 DEF SyncRunning
<1> QED
  BY <1>1, InvHolds, PTL DEF Spec, NoSyncStartsDuringRequest, Requested

(* "... so that we can further restore all relevant data": where all work  *)
(* is on the worker, a card that setSimState has powered down is listed,   *)
(* for any number of slots and cards, over hot swaps, syncs, failing       *)
(* requests and what other applications do.                                *)
THEOREM PoweredDownStaysListed == Spec => []PoweredDownCardIsListed
<1>1. Inv => PoweredDownCardIsListed
  <2> SUFFICES ASSUME Inv, phone = {}, NEW s \in Slots, downBy[s] = "app", req.slot # s
               PROVE  Listed(s).sub # None
    BY DEF PoweredDownCardIsListed
  <2>1. visible[s] = None /\ slotProp[s].state = "disabled" /\ slotProp[s].sub # None
    BY DEF Inv, OneThread, Shown, PoweredDownIsPersisted
  <2> QED
    BY <2>1 DEF Listed, Element
<1> QED
  BY <1>1, InvHolds, PTL
-----------------------------------------------------------------------------
(* What a sync finds and leaves, where all work is on the worker.          *)

(* A card belongs to one slot, whoever speaks of it.                       *)
HomesAreKept ==
    /\ \A s \in Slots : /\ card[s] # None => Home[card[s]] = s
                        /\ visible[s] # None => Home[visible[s]] = s
                        /\ slotProp[s].sub # None => Home[slotProp[s].sub] = s
                        /\ sync.seen[s] # None => Home[sync.seen[s]] = s
    /\ Requested => Home[req.sub] = req.slot

(* The flag is set by a request only.                                     *)
BlockedByRequest == blocked => Requested

(* What a request has announced is in the subscription's own property.     *)
AnnouncedIsKept ==
    Requested => subState[req.sub] = IF req.enabled THEN "enabled" ELSE "disabled"

(* What a sync has seen is still so, or another sync is due; and so is a   *)
(* card that nobody has touched since.                                     *)
SnapshotHolds ==
    SyncRunning => \A s \in Slots : ~due \/ card[s] \notin cause \union {None} =>
        visible[s] = sync.seen[s]

Known(u, seen) == Element(Home[u], seen) = [sub |-> u, state |-> subState[u]]

(* The slots a sync has been through are listed as they will be persisted. *)
SyncedSoFar ==
    SyncRunning =>
        /\ sync.next \in 1..(Cardinality(Slots) + 1)
        /\ \A u \in sync.usable : /\ Home[u] < sync.next /\ Known(u, sync.seen)
                                  /\ u \notin sync.removed
        /\ \A s \in Slots : s < sync.next /\ Element(s, sync.seen).sub # None =>
              Element(s, sync.seen).sub \in sync.usable

(* A card that a sync has not come to yet, and that nobody has altered, is *)
(* listed with the state it is known with.                                 *)
StillToSync ==
    SyncRunning => \A u \in sync.removed \ sync.noted :
        Home[u] >= sync.next /\ Known(u, sync.seen)

RequestOf(s) == Requested /\ req.slot = s

(* The list shows a request's slot as the request has found it.            *)
AsFound == visible[req.slot] = IF req.enabled THEN None ELSE req.sub

(* Without a sync under way or due, what is listed is known...             *)
ListIsKnown ==
    synced /\ ~due /\ ~SyncRunning => \A s \in Slots :
        IF RequestOf(s) THEN req.sub \in usable /\ AsFound
        ELSE Listed(s).sub # None => Listed(s).sub \in usable /\ Known(Listed(s).sub, visible)

(* ... and a usable card that nobody has altered is listed as it is known. *)
KnownIsListed ==
    ~SyncRunning => \A u \in usable \ cause : card[Home[u]] = u =>
        IF RequestOf(Home[u]) THEN req.sub = u /\ AsFound ELSE Known(u, visible)

SyncInv ==
    /\ HomesAreKept /\ BlockedByRequest
    /\ phone = {} => /\ AnnouncedIsKept /\ SnapshotHolds /\ SyncedSoFar /\ StillToSync
                     /\ ListIsKnown /\ KnownIsListed
-----------------------------------------------------------------------------
LEMMA HomeIsSlot == \A u \in Subs : Home[u] \in Slots /\ u # None
BY SubscriptionsAssumption

\* What is listed of a slot is visible, or persisted as disabled.
LEMMA ElementIs ==
    ASSUME TypeOK, NEW s \in Slots, NEW seen, seen[s] \in Maybe(Subs),
           seen[s] # None => Home[seen[s]] = s,
           slotProp[s].sub # None => Home[slotProp[s].sub] = s
    PROVE  LET e == Element(s, seen)
           IN  /\ e.sub \in Maybe(Subs) /\ e.state \in SimState
               /\ e = [sub |-> e.sub, state |-> e.state]
               /\ e.sub # None => e.sub \in Subs /\ Home[e.sub] = s
               /\ seen[s] # None => e.sub = seen[s] /\ e.state = "enabled"
               /\ seen[s] = None => e.state # "enabled"
               /\ seen[s] = None /\ e.sub # None => e = slotProp[s] /\ e.state = "disabled"
<1>1. slotProp[s] \in [sub : Maybe(Subs), state : SimState]
  BY DEF TypeOK
<1>2. CASE seen[s] # None
  BY <1>2 DEF Element, Maybe, SimState
<1>3. CASE seen[s] = None
  BY <1>1, <1>3 DEF Element, Maybe, SimState
<1> QED
  BY <1>2, <1>3

LEMMA PersistKnows ==
    ASSUME TypeOK, NEW s \in Slots, NEW sub \in Subs, NEW state, NEW preference,
           persistSubscription(s, sub, state, preference)
    PROVE  /\ slotProp'[s] = [sub |-> sub, state |-> state]
           /\ \A t \in Slots \ {s} : slotProp'[t] = slotProp[t]
           /\ subState'[sub] = state
           /\ \A u \in Subs \ {sub} : subState'[u] = subState[u]
BY Zenon DEF persistSubscription, TypeOK

LEMMA InitSyncInv == Init => SyncInv
<1> SUFFICES ASSUME Init PROVE SyncInv
  OBVIOUS
<1>1. ~Requested /\ ~SyncRunning /\ ~synced /\ ~blocked /\ usable = {} /\ sync = NoSync
  BY DEF Init, Requested, SyncRunning
<1>2. HomesAreKept
  BY <1>1 DEF Init, HomesAreKept, NoSync
<1> QED
  BY <1>1, <1>2 DEF SyncInv, BlockedByRequest, AnnouncedIsKept, SnapshotHolds, SyncedSoFar,
     StillToSync, ListIsKnown, KnownIsListed
-----------------------------------------------------------------------------
LEMMA SyncBeginKnows ==
    ASSUME Inv, SyncInv, SyncBegin
    PROVE  SyncInv'
<1> DEFINE n == cause \union {u \in Subs : \A s \in Slots : card[s] # u}
           begun == [next |-> 1, seen |-> visible, removed |-> usable, usable |-> {}, noted |-> n]
<1>1. /\ UNCHANGED <<phone, card, downBy, visible, slotProp, subState, usable, pref, blocked,
                     req, synced>>
      /\ WorkerIdle
      /\ sync' = IF blocked THEN sync ELSE begun
      /\ cause' = IF blocked THEN cause ELSE {u \in cause : visible[Home[u]] # Shown(Home[u])}
  BY DEF SyncBegin, props
<1>2. /\ begun.next = 1 /\ begun.seen = visible /\ begun.removed = usable
      /\ begun.usable = {} /\ begun.noted = n
  OBVIOUS
<1> HIDE DEF begun
<1>3. HomesAreKept'
  BY <1>1, <1>2 DEF SyncInv, HomesAreKept, Requested
<1>4. BlockedByRequest'
  BY <1>1 DEF SyncInv, BlockedByRequest, Requested
<1>5. ASSUME phone' = {}
      PROVE  /\ AnnouncedIsKept' /\ SnapshotHolds' /\ SyncedSoFar' /\ StillToSync'
             /\ ListIsKnown' /\ KnownIsListed'
  <2>1. ~SyncRunning /\ ~Requested /\ ~blocked /\ KnownIsListed /\ HomesAreKept
    BY <1>1, <1>5 DEF WorkerIdle, Inv, OneThread, SyncInv, BlockedByRequest
  <2>2. sync' = begun /\ SyncRunning'
    BY <1>1, <1>2, <2>1, NothingUnderWay, SlotsAreNumbers DEF SyncRunning, NoSync, NoSlot
  <2>3. AnnouncedIsKept'
    BY <1>1, <2>1 DEF AnnouncedIsKept, Requested
  <2>4. SnapshotHolds'
    BY <1>1, <1>2, <2>2 DEF SnapshotHolds
  <2>5. SyncedSoFar'
    BY <1>2, <2>2, SlotsAreNumbers DEF SyncedSoFar
  <2>6. ASSUME NEW u \in usable \ n PROVE Home[u] >= 1 /\ Known(u, visible)
    <3>1. u \in Subs /\ u \notin cause /\ Home[u] \in 1..Cardinality(Slots)
      BY HomeIsSlot, SlotsAreNumbers DEF Inv, TypeOK
    <3>2. card[Home[u]] = u
      BY <2>1, <3>1, HomeIsSlot DEF HomesAreKept
    <3> QED
      BY <2>1, <3>1, <3>2, SlotsAreNumbers DEF KnownIsListed, RequestOf
  <2>7. StillToSync'
    BY <1>1, <1>2, <2>2, <2>6 DEF StillToSync, Known, Element
  <2> QED
    BY <2>2, <2>3, <2>4, <2>5, <2>7 DEF ListIsKnown, KnownIsListed
<1> QED
  BY <1>3, <1>4, <1>5 DEF SyncInv

\* The slot a sync comes to lists a card of its own; no other card is touched.
LEMMA SyncSlotKnows ==
    ASSUME Inv, SyncInv, SyncSlot
    PROVE  SyncInv'
<1> DEFINE s == sync.next
           e == Element(s, sync.seen)
<1>1. /\ UNCHANGED <<phone, card, downBy, visible, usable, blocked, due, req, cause, synced>>
      /\ s \in Slots
      /\ sync' = [sync EXCEPT !.next = s + 1, !.removed = @ \ {e.sub},
                              !.usable = @ \union ({e.sub} \ {None})]
  BY DEF SyncSlot
<1>2. TypeOK /\ HomesAreKept /\ sync \in Sync /\ SyncRunning
  BY <1>1, NothingUnderWay DEF Inv, SyncInv, TypeOK, Sync, SyncRunning
<1>3. /\ e.sub \in Maybe(Subs) /\ e.state \in SimState
      /\ e = [sub |-> e.sub, state |-> e.state]
      /\ e.sub # None => e.sub \in Subs /\ Home[e.sub] = s
      /\ sync.seen[s] = None /\ e.sub # None => e = slotProp[s]
  BY <1>1, <1>2, ElementIs DEF HomesAreKept, Sync
<1>4. /\ sync'.next = s + 1 /\ sync'.seen = sync.seen /\ sync'.noted = sync.noted
      /\ sync'.removed = sync.removed \ {e.sub}
      /\ sync'.usable = sync.usable \union ({e.sub} \ {None})
  BY <1>1, <1>2 DEF Sync
<1>5. /\ e.sub # None => subState'[e.sub] = e.state
      /\ \A u \in Subs \ {e.sub} : subState'[u] = subState[u]
      /\ \A t \in Slots : slotProp'[t] = slotProp[t] \/ (t = s /\ e.sub # None /\ slotProp'[t] = e)
  <2>1. CASE OutsideAlteration(e.sub, e.state)
    <3>1. e.sub \in Subs
      BY <1>3, <2>1 DEF OutsideAlteration, Maybe
    <3>2. PICK preference : persistSubscription(s, e.sub, e.state, preference)
      BY <2>1 DEF SyncSlot
    <3> HIDE DEF e
    <3> QED
      BY <1>1, <1>2, <1>3, <3>1, <3>2, PersistKnows, HomeIsSlot
  <2>2. CASE ~OutsideAlteration(e.sub, e.state)
    <3>1. /\ subState' = IF e.sub = None THEN subState ELSE [subState EXCEPT ![e.sub] = e.state]
          /\ slotProp' = slotProp
      BY <2>2 DEF SyncSlot
    <3> HIDE DEF e
    <3> QED
      BY <1>2, <1>3, <3>1 DEF TypeOK, Maybe
  <2> QED
    BY <2>1, <2>2
<1> HIDE DEF e
<1>6. HomesAreKept'
  BY <1>1, <1>2, <1>3, <1>4, <1>5 DEF HomesAreKept, Requested
<1>7. BlockedByRequest'
  BY <1>1 DEF SyncInv, BlockedByRequest, Requested
<1>8. \A t \in Slots : Element(t, sync.seen)' = Element(t, sync.seen)
  <2>1. ASSUME NEW t \in Slots, slotProp'[t] # slotProp[t] PROVE Element(t, sync.seen)' = Element(t, sync.seen)
    BY <1>3, <1>4, <1>5, <2>1 DEF Element, e
  <2> QED
    BY <1>4, <2>1 DEF Element
<1>9. ASSUME NEW u \in Subs, u # e.sub, Known(u, sync.seen)
      PROVE  Known(u, sync.seen)'
  BY <1>4, <1>5, <1>8, <1>9, HomeIsSlot DEF Known
<1>10. ASSUME phone' = {}
       PROVE  /\ AnnouncedIsKept' /\ SnapshotHolds' /\ SyncedSoFar' /\ StillToSync'
              /\ ListIsKnown' /\ KnownIsListed'
  <2>1. /\ ~Requested /\ SnapshotHolds /\ SyncedSoFar /\ StillToSync
    BY <1>1, <1>2, <1>10 DEF Inv, OneThread, SyncInv
  <2>2. SyncRunning'
    <3>1. NoSync.next = 0
      BY DEF NoSync, NoSlot
    <3>2. sync'.next # 0
      BY <1>1, <1>4, SlotsAreNumbers
    <3> QED
      BY <3>1, <3>2 DEF SyncRunning
  <2>3. AnnouncedIsKept' /\ SnapshotHolds'
    BY <1>1, <1>2, <1>4, <2>1 DEF AnnouncedIsKept, SnapshotHolds, Requested
  <2>4. SyncedSoFar'
    <3>1. s + 1 \in 1..(Cardinality(Slots) + 1)
      BY <1>1, SlotsAreNumbers
    <3>2. ASSUME NEW u \in sync'.usable
          PROVE Home[u] < s + 1 /\ Known(u, sync.seen)' /\ u \notin sync'.removed
      <4>1. CASE u = e.sub
        <5>1. e.sub \in Subs /\ Home[e.sub] = s
          BY <1>2, <1>3, <1>4, <3>2, <4>1, SlotsAreNumbers DEF Sync
        <5>2. (Known(u, sync.seen))'
          BY <1>1, <1>3, <1>4, <1>5, <1>8, <4>1, <5>1, SlotsAreNumbers DEF Known, e
        <5> QED
          BY <1>1, <1>4, <4>1, <5>1, <5>2, SlotsAreNumbers
      <4>2. CASE u # e.sub
        <5>1. u \in sync.usable /\ u \in Subs /\ Home[u] \in Slots
          BY <1>2, <1>4, <3>2, <4>2, HomeIsSlot DEF Sync
        <5> QED
          BY <1>1, <1>2, <1>4, <1>9, <2>1, <4>2, <5>1, SlotsAreNumbers DEF SyncedSoFar
      <4> QED
        BY <4>1, <4>2
    <3>3. ASSUME NEW t \in Slots, t < s + 1, Element(t, sync.seen).sub # None
          PROVE  Element(t, sync.seen).sub \in sync'.usable
      <4>1. CASE t = s
        BY <1>4, <3>3, <4>1 DEF e
      <4>2. CASE t # s
        <5>1. t < s
          BY <1>1, <3>3, <4>2, SlotsAreNumbers
        <5> QED
          BY <1>2, <1>4, <2>1, <3>3, <5>1 DEF SyncedSoFar
      <4> QED
        BY <4>1, <4>2
    <3> QED
      BY <1>4, <1>8, <3>1, <3>2, <3>3 DEF SyncedSoFar
  <2>5. StillToSync'
    <3>1. ASSUME NEW u \in sync'.removed \ sync'.noted
          PROVE  Home[u] >= s + 1 /\ Known(u, sync.seen)'
      <4>1. u \in Subs /\ u # e.sub /\ u \in sync.removed \ sync.noted /\ Home[u] \in Slots
        BY <1>2, <1>4, <3>1, HomeIsSlot DEF Sync
      <4>2. Home[u] >= s /\ Known(u, sync.seen)
        BY <1>2, <2>1, <4>1 DEF StillToSync
      <4>3. Home[u] # s
        BY <4>1, <4>2 DEF Known, e
      <4> QED
        BY <1>1, <1>9, <4>1, <4>2, <4>3, SlotsAreNumbers
    <3> QED
      BY <1>4, <3>1 DEF StillToSync
  <2> QED
    BY <2>2, <2>3, <2>4, <2>5 DEF ListIsKnown, KnownIsListed
<1> QED
  BY <1>6, <1>7, <1>10 DEF SyncInv

LEMMA SyncEndKnows ==
    ASSUME Inv, SyncInv, SyncEnd
    PROVE  SyncInv'
<1>1. /\ UNCHANGED <<phone, card, downBy, visible, slotProp, blocked, due, req, cause>>
      /\ sync' = NoSync /\ usable' = sync.usable /\ SyncRunning /\ sync.next \notin Slots
      /\ subState' = [u \in Subs |-> IF u \in sync.removed THEN "unknown" ELSE subState[u]]
  BY DEF SyncEnd
<1>2. TypeOK /\ HomesAreKept /\ sync \in Sync /\ ~SyncRunning'
  BY <1>1 DEF Inv, SyncInv, TypeOK, Sync, SyncRunning
<1>3. \A t \in Slots : NoSync.seen[t] = None
  BY DEF NoSync
<1>4. HomesAreKept'
  BY <1>1, <1>2, <1>3 DEF HomesAreKept, Requested
<1>5. BlockedByRequest'
  BY <1>1 DEF SyncInv, BlockedByRequest, Requested
<1>6. ASSUME phone' = {}
      PROVE  /\ AnnouncedIsKept' /\ SnapshotHolds' /\ SyncedSoFar' /\ StillToSync'
             /\ ListIsKnown' /\ KnownIsListed'
  <2>1. ~Requested /\ ~Requested' /\ SnapshotHolds /\ SyncedSoFar
    BY <1>1, <1>6 DEF Inv, OneThread, SyncInv, Requested
  <2>2. \A t \in Slots : t < sync.next
    BY <1>1, <2>1, SlotsAreNumbers DEF SyncedSoFar
  <2>3. ASSUME NEW u \in sync.usable, visible[Home[u]] = sync.seen[Home[u]]
        PROVE  Known(u, visible)'
    <3>1. Known(u, sync.seen) /\ u \notin sync.removed /\ u \in Subs
      BY <1>1, <1>2, <2>1 DEF SyncedSoFar, Sync
    <3>2. subState'[u] = subState[u]
      BY <1>1, <3>1
    <3> QED
      BY <1>1, <2>3, <3>1, <3>2 DEF Known, Element
  <2>4. ListIsKnown'
    <3>1. ASSUME ~due, NEW t \in Slots, NEW u, u = Listed(t).sub, u # None
          PROVE  u \in sync.usable /\ Known(u, visible)'
      <4>1. visible[t] = sync.seen[t]
        BY <1>1, <2>1, <3>1 DEF SnapshotHolds
      <4>2. Listed(t) = Element(t, sync.seen)
        BY <4>1 DEF Listed, Element
      <4>3. u \in sync.usable
        BY <1>1, <2>1, <2>2, <3>1, <4>2 DEF SyncedSoFar
      <4>4. Home[u] = t
        BY <1>2, <3>1, ElementIs DEF HomesAreKept, TypeOK, Listed
      <4> QED
        BY <2>3, <4>1, <4>3, <4>4
    <3>2. \A t \in Slots : Listed(t)' = Listed(t)
      BY <1>1 DEF Listed, Element
    <3> QED
      BY <1>1, <2>1, <3>1, <3>2 DEF ListIsKnown, RequestOf
  <2>5. KnownIsListed'
    <3>1. ASSUME NEW u \in sync.usable \ cause, card[Home[u]] = u
          PROVE  Known(u, visible)'
      <4>1. Home[u] \in Slots /\ u # None
        BY <1>2, HomeIsSlot DEF Sync
      <4> QED
        BY <1>1, <2>1, <2>3, <3>1, <4>1 DEF SnapshotHolds
    <3> QED
      BY <1>1, <2>1, <3>1 DEF KnownIsListed, RequestOf
  <2> QED
    BY <1>2, <2>1, <2>4, <2>5 DEF AnnouncedIsKept, SnapshotHolds, SyncedSoFar, StillToSync
<1> QED
  BY <1>4, <1>5, <1>6 DEF SyncInv
-----------------------------------------------------------------------------
\* A request announces the other state of what is listed.
LEMMA SetBeginKnows ==
    ASSUME Inv, SyncInv, NEW thread \in {"worker", "ui"}, NEW s \in Slots,
           SetBegin(thread, s), thread = "ui" => "ui" \in phone
    PROVE  SyncInv'
<1> DEFINE e == Listed(s)
           enabled == e.state = "disabled"
           st == IF enabled THEN "enabled" ELSE "disabled"
           request == [thread |-> thread, slot |-> s, sub |-> e.sub, enabled |-> enabled]
<1>1. /\ UNCHANGED <<phone, card, downBy, visible, usable, due, sync, cause, synced>>
      /\ ~Requested /\ req' = request /\ blocked' = TRUE /\ e.sub # None
      /\ thread = "worker" => WorkerIdle
      /\ persistSubscription(s, e.sub, st, IF enabled THEN "on" ELSE "off")
  BY DEF SetBegin, Requested
<1>2. TypeOK /\ HomesAreKept /\ visible \in [Slots -> Maybe(Subs)] /\ Home \in [Subs -> Slots]
  BY SubscriptionsAssumption DEF Inv, SyncInv, TypeOK
<1>3. /\ e.sub \in Subs /\ Home[e.sub] = s /\ e = [sub |-> e.sub, state |-> e.state]
      /\ visible[s] = IF enabled THEN None ELSE e.sub
  BY <1>1, <1>2, ElementIs DEF HomesAreKept, Listed, Maybe
<1> HIDE DEF e
<1>4. /\ request.thread = thread /\ request.slot = s /\ request.sub = e.sub
      /\ request.enabled = enabled /\ request # NoReq
  BY SlotsAreNumbers DEF NoReq
<1> HIDE DEF request, st
<1>5. /\ slotProp'[s] = [sub |-> e.sub, state |-> st]
      /\ \A t \in Slots \ {s} : slotProp'[t] = slotProp[t]
      /\ subState'[e.sub] = st
      /\ \A u \in Subs \ {e.sub} : subState'[u] = subState[u]
  BY <1>1, <1>2, <1>3, PersistKnows
<1>6. Requested' /\ \A t \in Slots : RequestOf(t)' <=> t = s
  BY <1>1, <1>4 DEF Requested, RequestOf
<1>7. HomesAreKept'
  BY <1>1, <1>2, <1>3, <1>4, <1>5 DEF HomesAreKept, Requested
<1>8. BlockedByRequest'
  BY <1>6 DEF BlockedByRequest
<1>9. ASSUME phone' = {}
      PROVE  /\ AnnouncedIsKept' /\ SnapshotHolds' /\ SyncedSoFar' /\ StillToSync'
             /\ ListIsKnown' /\ KnownIsListed'
  <2>1. ~SyncRunning /\ ~SyncRunning' /\ ListIsKnown /\ KnownIsListed
    BY <1>1, <1>9 DEF Inv, OneThread, SyncInv, WorkerIdle, SyncRunning
  <2>2. AnnouncedIsKept'
    BY <1>1, <1>4, <1>5 DEF AnnouncedIsKept, st
  <2>3. AsFound'
    BY <1>1, <1>3, <1>4 DEF AsFound
  <2>4. ASSUME NEW u \in Subs, Home[u] # s
        PROVE  Known(u, visible)' <=> Known(u, visible)
    BY <1>1, <1>3, <1>5, <2>4, HomeIsSlot DEF Known, Element
  <2>5. ListIsKnown'
    <3>1. ASSUME synced, ~due, NEW t \in Slots, t # s, Listed(t).sub # None
          PROVE  Listed(t)' = Listed(t) /\ Listed(t).sub \in usable /\ Known(Listed(t).sub, visible)'
      <4>1. Listed(t).sub \in Subs /\ Home[Listed(t).sub] = t
        BY <1>2, <3>1, ElementIs DEF HomesAreKept, Listed
      <4>2. Listed(t).sub \in usable /\ Known(Listed(t).sub, visible)
        BY <1>1, <2>1, <3>1 DEF ListIsKnown, RequestOf
      <4> QED
        BY <1>1, <1>5, <2>4, <3>1, <4>1, <4>2 DEF Listed, Element
    <3>2. ASSUME synced, ~due PROVE e.sub \in usable
      BY <1>1, <2>1, <3>2 DEF ListIsKnown, RequestOf, e
    <3>3. \A t \in Slots \ {s} : Listed(t)' = Listed(t)
      BY <1>1, <1>5 DEF Listed, Element
    <3> QED
      BY <1>1, <1>4, <1>6, <2>3, <3>1, <3>2, <3>3 DEF ListIsKnown
  <2>6. KnownIsListed'
    <3>1. ASSUME NEW u \in usable \ cause, card[Home[u]] = u
          PROVE  u \in Subs /\ Home[u] \in Slots /\ Known(u, visible)
      <4>1. u \in Subs /\ Home[u] \in Slots
        BY <1>2, HomeIsSlot DEF TypeOK
      <4> QED
        BY <1>1, <2>1, <3>1, <4>1 DEF KnownIsListed, RequestOf
    <3>2. ASSUME NEW u \in usable \ cause, card[Home[u]] = u, Home[u] = s
          PROVE  e.sub = u
      <4>1. Listed(s) = [sub |-> u, state |-> subState[u]]
        BY <3>1, <3>2 DEF Known, Listed
      <4> QED
        BY <4>1 DEF e
    <3> QED
      BY <1>1, <1>4, <1>6, <2>3, <2>4, <3>1, <3>2 DEF KnownIsListed
  <2> QED
    BY <2>1, <2>2, <2>5, <2>6 DEF SnapshotHolds, SyncedSoFar, StillToSync
<1> QED
  BY <1>7, <1>8, <1>9 DEF SyncInv

LEMMA HomesStay ==
    ASSUME Inv, SyncInv, Follow, UNCHANGED <<phone, sync>>, req' \in {req, NoReq},
           \A t \in Slots : card'[t] # None => Home[card'[t]] = t,
           \A t \in Slots : slotProp'[t].sub # None => Home[slotProp'[t].sub] = t
    PROVE  HomesAreKept'
<1>1. ASSUME NEW t \in Slots, visible'[t] # None PROVE Home[visible'[t]] = t
  BY <1>1 DEF Follow, Shown, SyncInv, HomesAreKept
<1> QED
  BY <1>1 DEF SyncInv, HomesAreKept, Requested

\* A request that ends leaves its slot as it announced, or as it was.
LEMMA RequestKnows ==
    ASSUME Inv, SyncInv, phone = {}, Requested, req' = NoReq, blocked' = FALSE,
           UNCHANGED <<phone, card, usable, sync, cause, synced>>, Follow,
           \A t \in Slots \ {req.slot} : downBy'[t] = downBy[t],
           NEW state,
           slotProp'[req.slot] = [sub |-> req.sub, state |-> state],
           \A t \in Slots \ {req.slot} : slotProp'[t] = slotProp[t],
           subState'[req.sub] = state,
           \A u \in Subs \ {req.sub} : subState'[u] = subState[u],
           AsFound =>
               \/ visible'[req.slot] = req.sub /\ state = "enabled"
               \/ visible'[req.slot] = None /\ state = "disabled"
               \/ /\ card[req.slot] # req.sub
                  /\ \/ visible'[req.slot] # visible[req.slot]
                     \/ visible'[req.slot] = None /\ state = "enabled"
    PROVE  SyncInv'
<1> PICK s : s = req.slot
  OBVIOUS
<1>1. /\ TypeOK /\ HomesAreKept /\ s \in Slots /\ req.sub \in Subs /\ Home[req.sub] = s
      /\ ~Requested'
  BY DEF Inv, RequestTyped, SyncInv, HomesAreKept, Requested
<1>2. \A t \in Slots \ {s} : Shown(t)' = Shown(t)
  BY DEF Shown
<1>3. HomesAreKept'
  BY <1>1, HomesStay DEF HomesAreKept
<1>4. BlockedByRequest'
  BY DEF BlockedByRequest
<1>5. /\ AnnouncedIsKept' /\ SnapshotHolds' /\ SyncedSoFar' /\ StillToSync'
      /\ ListIsKnown' /\ KnownIsListed'
  <2>1. ~SyncRunning /\ ~SyncRunning' /\ ListIsKnown /\ KnownIsListed
        /\ \A t \in Slots : visible[t] = Shown(t) /\ visible'[t] = Shown(t)'
    BY FollowTyped DEF Inv, OneThread, SyncInv, SyncRunning, Follow
  <2>2. \A t \in Slots \ {s} : visible'[t] = visible[t]
    BY <1>2, <2>1
  <2>3. ASSUME NEW u \in Subs, Home[u] # s
        PROVE  Known(u, visible)' <=> Known(u, visible)
    BY <1>1, <2>2, <2>3, HomeIsSlot DEF Known, Element
  <2>4. ListIsKnown'
    <3>1. ASSUME synced, ~due', NEW t \in Slots, NEW u, u = Listed(t)', u.sub # None
          PROVE  u.sub \in usable /\ Known(u.sub, visible)'
      <4>1. ~due /\ visible' = visible
        BY <3>1 DEF Follow
      <4>2. CASE t # s
        <5>1. u = Listed(t)
          BY <2>2, <3>1, <4>2 DEF Listed, Element
        <5>2. u.sub \in Subs /\ Home[u.sub] = t
          BY <1>1, <3>1, <5>1, ElementIs DEF HomesAreKept, TypeOK, Listed
        <5>3. u.sub \in usable /\ Known(u.sub, visible)
          BY <2>1, <3>1, <4>1, <4>2, <5>1 DEF ListIsKnown, RequestOf
        <5> QED
          BY <2>3, <4>2, <5>2, <5>3
      <4>3. CASE t = s
        <5>1. req.sub \in usable /\ AsFound
          BY <1>1, <2>1, <3>1, <4>1 DEF ListIsKnown, RequestOf
        <5>2. \/ visible'[s] = req.sub /\ state = "enabled"
              \/ visible'[s] = None /\ state = "disabled"
          BY <3>1, <4>1, <4>3, <5>1 DEF Listed, Element
        <5>3. Element(s, visible)' = [sub |-> req.sub, state |-> state]
          BY <1>1, <5>2, HomeIsSlot DEF Element
        <5> QED
          BY <1>1, <3>1, <4>3, <5>1, <5>3 DEF Known, Listed
      <4> QED
        BY <4>2, <4>3
    <3> QED
      BY <1>1, <3>1 DEF ListIsKnown, RequestOf
  <2>5. KnownIsListed'
    <3>1. ASSUME NEW u \in usable \ cause, card[Home[u]] = u
          PROVE  Known(u, visible)'
      <4>1. u \in Subs /\ Home[u] \in Slots /\ u # None
        BY <1>1, HomeIsSlot DEF TypeOK
      <4>2. CASE Home[u] # s
        BY <2>1, <2>3, <3>1, <4>1, <4>2 DEF KnownIsListed, RequestOf
      <4>3. CASE Home[u] = s
        <5>1. req.sub = u /\ AsFound
          BY <2>1, <3>1, <4>1, <4>3 DEF KnownIsListed, RequestOf
        <5>2. \/ visible'[s] = req.sub /\ state = "enabled"
              \/ visible'[s] = None /\ state = "disabled"
          BY <3>1, <4>1, <4>3, <5>1
        <5> QED
          BY <1>1, <4>1, <4>3, <5>1, <5>2 DEF Known, Element
      <4> QED
        BY <4>2, <4>3
    <3> QED
      BY <1>1, <3>1 DEF KnownIsListed, RequestOf
  <2> QED
    BY <1>1, <2>1, <2>4, <2>5 DEF AnnouncedIsKept, SnapshotHolds, SyncedSoFar, StillToSync
<1> QED
  BY <1>3, <1>4, <1>5 DEF SyncInv

LEMMA SetSucceedsKnows ==
    ASSUME Inv, SyncInv, SetSucceeds
    PROVE  SyncInv'
<1> DEFINE st == IF req.enabled THEN "enabled" ELSE "disabled"
<1>1. /\ UNCHANGED <<phone, card, slotProp, subState, usable, pref, sync, cause, synced>> /\ Follow
      /\ Requested /\ req' = NoReq /\ blocked' = FALSE
      /\ downBy' = [downBy EXCEPT ![req.slot] = IF req.enabled THEN "nobody" ELSE "app"]
  BY DEF SetSucceeds, PowerAsAsked, Requested, props
<1>2. TypeOK /\ req.slot \in Slots /\ req.sub \in Subs
  BY <1>1 DEF Inv, RequestTyped
<1>3. downBy'[req.slot] = (IF req.enabled THEN "nobody" ELSE "app")
      /\ \A t \in Slots \ {req.slot} : downBy'[t] = downBy[t]
  BY <1>1, <1>2 DEF TypeOK
<1>4. CASE phone = {}
  <2>1. slotProp[req.slot] = [sub |-> req.sub, state |-> st] /\ subState[req.sub] = st
    BY <1>1, <1>4 DEF Inv, PoweredDownIsPersisted, SyncInv, AnnouncedIsKept
  <2>2. visible'[req.slot] = IF req.enabled THEN card[req.slot] ELSE None
    BY <1>1, <1>2, <1>3, <1>4 DEF Follow, Shown
  <2>3. AsFound => \/ visible'[req.slot] = req.sub /\ st = "enabled"
                   \/ visible'[req.slot] = None /\ st = "disabled"
                   \/ /\ card[req.slot] # req.sub
                      /\ \/ visible'[req.slot] # visible[req.slot]
                         \/ visible'[req.slot] = None /\ st = "enabled"
    BY <1>2, <2>2 DEF AsFound, TypeOK
  <2> HIDE DEF st
  <2> QED
    BY <1>1, <1>2, <1>3, <1>4, <2>1, <2>3, RequestKnows
<1>5. CASE phone # {}
  <2>1. HomesAreKept'
    BY <1>1, HomesStay DEF SyncInv, HomesAreKept
  <2> QED
    BY <1>1, <1>5, <2>1 DEF SyncInv, BlockedByRequest
<1> QED
  BY <1>4, <1>5

LEMMA SetFailsKnows ==
    ASSUME Inv, SyncInv, SetFails
    PROVE  SyncInv'
<1> DEFINE st == IF req.enabled THEN "disabled" ELSE "enabled"
<1>1. /\ UNCHANGED <<phone, card, usable, sync, cause, synced>> /\ Follow
      /\ Requested /\ req' = NoReq /\ blocked' = FALSE
      /\ persistSubscription(req.slot, req.sub, st, pref[req.sub])
      /\ \/ downBy' = downBy
         \/ downBy' = [downBy EXCEPT ![req.slot] = IF req.enabled THEN "app" ELSE "nobody"]
  BY DEF SetFails, PowerAsAsked, Requested, RevertSubscription
<1>2. TypeOK /\ HomesAreKept /\ req.slot \in Slots /\ req.sub \in Subs /\ Home[req.sub] = req.slot
      /\ req.sub # None
  BY <1>1, HomeIsSlot DEF Inv, RequestTyped, SyncInv, HomesAreKept
<1>3. /\ \A t \in Slots \ {req.slot} : downBy'[t] = downBy[t]
      /\ downBy'[req.slot] \in {downBy[req.slot], IF req.enabled THEN "app" ELSE "nobody"}
  BY <1>1, <1>2 DEF TypeOK
<1>4. /\ slotProp'[req.slot] = [sub |-> req.sub, state |-> st]
      /\ \A t \in Slots \ {req.slot} : slotProp'[t] = slotProp[t]
      /\ subState'[req.sub] = st
      /\ \A u \in Subs \ {req.sub} : subState'[u] = subState[u]
  <2> HIDE DEF st
  <2> QED
    BY <1>1, <1>2, PersistKnows
<1>5. CASE phone = {}
  <2>1. /\ visible[req.slot] = IF downBy[req.slot] = "nobody" THEN card[req.slot] ELSE None
        /\ visible'[req.slot] = IF downBy'[req.slot] = "nobody" THEN card[req.slot] ELSE None
    BY <1>1, <1>2, <1>5 DEF Inv, OneThread, Follow, Shown
  <2>2. AsFound => \/ visible'[req.slot] = req.sub /\ st = "enabled"
                   \/ visible'[req.slot] = None /\ st = "disabled"
    BY <1>2, <1>3, <2>1 DEF AsFound
  <2> HIDE DEF st
  <2> QED
    BY <1>1, <1>2, <1>3, <1>4, <1>5, <2>2, RequestKnows
<1>6. CASE phone # {}
  <2>1. \A t \in Slots : slotProp'[t].sub # None => Home[slotProp'[t].sub] = t
    BY <1>2, <1>4 DEF HomesAreKept
  <2>2. HomesAreKept'
    BY <1>1, <1>2, <2>1, HomesStay DEF HomesAreKept
  <2> QED
    BY <1>1, <1>6, <2>2 DEF SyncInv, BlockedByRequest
<1> QED
  BY <1>5, <1>6
-----------------------------------------------------------------------------
\* Whoever else touches a card or its power leaves a cause.
LEMMA HandsKnow ==
    ASSUME Inv, SyncInv, UNCHANGED <<phone, props, blocked, sync, req, synced>>, Follow,
           NEW s \in Slots, cause \subseteq cause', card'[s] # None => card'[s] \in cause',
           card[s] # None => card[s] \in cause',
           card'[s] # None => Home[card'[s]] = s,
           \A t \in Slots \ {s} : card'[t] = card[t] /\ downBy'[t] = downBy[t]
    PROVE  SyncInv'
<1>1. TypeOK /\ HomesAreKept /\ UNCHANGED <<slotProp, subState, usable, pref>>
  BY DEF Inv, SyncInv, props
<1>2. HomesAreKept'
  BY <1>1, HomesStay DEF HomesAreKept
<1>3. BlockedByRequest'
  BY DEF SyncInv, BlockedByRequest, Requested
<1>4. ASSUME phone' = {}
      PROVE  /\ AnnouncedIsKept' /\ SnapshotHolds' /\ SyncedSoFar' /\ StillToSync'
             /\ ListIsKnown' /\ KnownIsListed'
  <2>1. \A t \in Slots : visible[t] = Shown(t) /\ visible'[t] = Shown(t)'
    BY <1>4 DEF Inv, OneThread, Follow
  <2>2. \A t \in Slots \ {s} : visible'[t] = visible[t]
    BY <2>1 DEF Shown
  <2>3. ~due' => ~due /\ visible' = visible
    BY DEF Follow
  <2>4. AnnouncedIsKept' /\ SyncedSoFar' /\ StillToSync'
    BY <1>1, <1>4 DEF SyncInv, AnnouncedIsKept, SyncedSoFar, StillToSync, Known, Element,
       Requested, SyncRunning
  <2>5. SnapshotHolds'
    BY <1>4, <2>2, <2>3 DEF SyncInv, SnapshotHolds, SyncRunning
  <2>6. ListIsKnown'
    BY <1>1, <1>4, <2>3 DEF SyncInv, ListIsKnown, SyncRunning, RequestOf, Requested, AsFound,
       Known, Listed, Element
  <2>7. KnownIsListed'
    <3>1. ASSUME ~SyncRunning, NEW u \in usable \ cause', card'[Home[u]] = u
          PROVE  IF RequestOf(Home[u]) THEN req.sub = u /\ AsFound' ELSE Known(u, visible)'
      <4>1. Home[u] \in Slots /\ u # None /\ Home[u] # s
        BY <1>1, <3>1, HomeIsSlot DEF TypeOK
      <4> QED
        BY <1>1, <1>4, <2>2, <3>1, <4>1
           DEF SyncInv, KnownIsListed, RequestOf, AsFound, Known, Element
    <3> QED
      BY <1>1, <3>1 DEF KnownIsListed, SyncRunning, RequestOf, Requested
  <2> QED
    BY <2>4, <2>5, <2>6, <2>7
<1> QED
  BY <1>2, <1>3, <1>4 DEF SyncInv

LEMMA InsertCardKnows ==
    ASSUME Inv, SyncInv, NEW s \in Slots, NEW u \in Subs, InsertCard(s, u)
    PROVE  SyncInv'
<1>1. /\ UNCHANGED <<phone, downBy, props, blocked, sync, req, synced>> /\ Follow
      /\ Home[u] = s /\ card[s] = None /\ cause' = cause \union {u}
      /\ card' = [card EXCEPT ![s] = u]
  BY DEF InsertCard
<1>2. card'[s] = u /\ \A t \in Slots \ {s} : card'[t] = card[t]
  BY <1>1 DEF Inv, TypeOK
<1> QED
  BY <1>1, <1>2, HandsKnow

LEMMA RemoveCardKnows ==
    ASSUME Inv, SyncInv, NEW s \in Slots, RemoveCard(s)
    PROVE  SyncInv'
<1>1. /\ UNCHANGED <<phone, downBy, props, blocked, sync, req, synced>> /\ Follow
      /\ cause' = cause \union {card[s]} /\ card' = [card EXCEPT ![s] = None]
  BY DEF RemoveCard
<1>2. card'[s] = None /\ \A t \in Slots \ {s} : card'[t] = card[t]
  BY <1>1 DEF Inv, TypeOK
<1> QED
  BY <1>1, <1>2, HandsKnow

LEMMA OutsidePowerKnows ==
    ASSUME Inv, SyncInv, NEW s \in Slots, OutsidePower(s)
    PROVE  SyncInv'
<1>1. /\ UNCHANGED <<phone, card, props, blocked, sync, req, synced>> /\ Follow
      /\ cause' = cause \union ({card[s]} \ {None})
      /\ downBy' = [downBy EXCEPT ![s] = IF @ = "nobody" THEN "outside" ELSE "nobody"]
  BY DEF OutsidePower
<1>2. \A t \in Slots \ {s} : downBy'[t] = downBy[t]
  BY <1>1 DEF Inv, TypeOK
<1>3. card[s] # None => Home[card[s]] = s
  BY DEF SyncInv, HomesAreKept
<1> QED
  BY <1>1, <1>2, <1>3, HandsKnow

LEMMA CatchUpKnows ==
    ASSUME Inv, SyncInv, NEW s \in Slots, CatchUp(s)
    PROVE  SyncInv'
<1>1. /\ UNCHANGED <<phone, card, downBy, slotProp, subState, blocked, sync, req>>
      /\ visible' = [visible EXCEPT ![s] = Shown(s)] /\ visible[s] # Shown(s)
  BY DEF CatchUp, props
<1>2. visible \in [Slots -> Maybe(Subs)] /\ HomesAreKept
  BY DEF Inv, TypeOK, SyncInv
<1>3. \A t \in Slots : visible'[t] # None => Home[visible'[t]] = t
  BY <1>1, <1>2 DEF HomesAreKept, Shown
<1>4. HomesAreKept'
  BY <1>1, <1>2, <1>3 DEF HomesAreKept, Requested
<1>5. BlockedByRequest' /\ phone' # {}
  BY <1>1 DEF SyncInv, BlockedByRequest, Requested, Inv, OneThread
<1> QED
  BY <1>4, <1>5 DEF SyncInv

LEMMA RebootKnows ==
    ASSUME Inv, SyncInv, Reboot
    PROVE  SyncInv'
<1>1. /\ card' = card /\ visible' = card /\ usable' = {} /\ blocked' = FALSE /\ sync' = NoSync
      /\ slotProp' = [t \in Slots |-> [sub |-> None, state |-> "unknown"]]
      /\ req' = NoReq /\ synced' = FALSE
  BY DEF Reboot, Booted
<1>2. ~Requested' /\ ~SyncRunning' /\ \A t \in Slots : NoSync.seen[t] = None
  BY <1>1 DEF Requested, SyncRunning, NoSync
<1>3. HomesAreKept'
  BY <1>1, <1>2 DEF SyncInv, HomesAreKept
<1> QED
  BY <1>1, <1>2, <1>3 DEF SyncInv, BlockedByRequest, AnnouncedIsKept, SnapshotHolds, SyncedSoFar,
     StillToSync, ListIsKnown, KnownIsListed
-----------------------------------------------------------------------------
LEMMA NextSyncInv == Inv /\ SyncInv /\ [Next]_vars => SyncInv'
<1> SUFFICES ASSUME Inv, SyncInv, [Next]_vars PROVE SyncInv'
  OBVIOUS
<1>1. HotSlots \subseteq Slots
  BY SubscriptionsAssumption
<1>2. CASE \E s \in Slots : SetBegin("worker", s) \/ ("ui" \in phone /\ SetBegin("ui", s))
  BY <1>2, SetBeginKnows
<1>3. CASE UNCHANGED vars
  <2>1. HomesAreKept' /\ BlockedByRequest'
    BY <1>3 DEF vars, SyncInv, HomesAreKept, BlockedByRequest, Requested
  <2>2. phone' = {} => AnnouncedIsKept' /\ SnapshotHolds' /\ SyncedSoFar' /\ StillToSync'
    BY <1>3 DEF vars, SyncInv, AnnouncedIsKept, SnapshotHolds, SyncedSoFar, StillToSync,
       SyncRunning, Requested, Known, Element
  <2>3. phone' = {} => ListIsKnown' /\ KnownIsListed'
    BY <1>3 DEF vars, SyncInv, ListIsKnown, KnownIsListed, SyncRunning, Requested, RequestOf,
       AsFound, Listed, Known, Element
  <2> QED
    BY <2>1, <2>2, <2>3 DEF SyncInv
<1> QED
  BY <1>1, <1>2, <1>3, SyncBeginKnows, SyncSlotKnows, SyncEndKnows, SetSucceedsKnows,
     SetFailsKnows, InsertCardKnows, RemoveCardKnows, OutsidePowerKnows, CatchUpKnows, RebootKnows
     DEF Next

LEMMA SyncInvHolds == Spec => [](Inv /\ SyncInv)
BY InitInv, NextInv, InitSyncInv, NextSyncInv, PTL DEF Spec

(* Once a sync has run and none is due, every listed subscription is       *)
(* known with the state it is listed in, for any slots and cards: the next *)
(* outside alteration will be recognised. A sync leaves it so, what a      *)
(* request announces or reverts keeps it so, and whatever else changes the *)
(* list queues another sync.                                               *)
THEOREM QuietListIsSynced == Spec => []QuietIsSynced
<1>1. Inv /\ SyncInv => QuietIsSynced
  <2> SUFFICES ASSUME Inv, SyncInv, Quiet, NEW s \in Slots, Listed(s).sub # None
               PROVE  /\ Listed(s).sub \in usable
                      /\ subState[Listed(s).sub] = Listed(s).state
    BY DEF QuietIsSynced
  <2>1. TypeOK /\ HomesAreKept /\ ListIsKnown /\ synced /\ ~due /\ ~SyncRunning /\ ~Requested
    BY DEF Quiet, Inv, SyncInv, Requested
  <2>2. Home[Listed(s).sub] = s
    BY <2>1, ElementIs DEF HomesAreKept, TypeOK, Listed
  <2>3. Listed(s).sub \in usable /\ Known(Listed(s).sub, visible)
    BY <2>1 DEF ListIsKnown, RequestOf
  <2>4. Listed(s) = [sub |-> Listed(s).sub, state |-> subState[Listed(s).sub]]
    BY <2>2, <2>3 DEF Known, Listed
  <2> QED
    BY <2>3, <2>4
<1> QED
  BY <1>1, SyncInvHolds, PTL

(* syncSubscriptions touches the preference of a subscription only if      *)
(* somebody else altered the SIM since the last sync looked, or its card   *)
(* is gone: neither a request of the application nor a reboot is taken     *)
(* for the user's choice, for any slots and cards.                         *)
THEOREM NoPhantomOutsider == Spec => NoPhantomAlteration
<1> DEFINE Kept == \A u \in Subs : phone = {} /\ SyncRunning /\ pref'[u] # pref[u] => u \in sync.noted
<1>1. Inv /\ SyncInv /\ [Next]_vars => [Kept]_vars
  <2> SUFFICES ASSUME Inv, SyncInv, Next, NEW u \in Subs, phone = {}, SyncRunning, pref'[u] # pref[u]
               PROVE  u \in sync.noted
    OBVIOUS
  <2>1. /\ TypeOK /\ HomesAreKept /\ StillToSync /\ SyncedSoFar /\ ~Requested /\ sync \in Sync
        /\ Home[u] \in Slots
    BY HomeIsSlot DEF Inv, OneThread, SyncInv, TypeOK, Sync
  <2>2. SyncSlot \/ SyncEnd
    <3>1. ~ \E s \in Slots : SetBegin("worker", s) \/ ("ui" \in phone /\ SetBegin("ui", s))
      BY DEF SetBegin, WorkerIdle
    <3>2. ~SetSucceeds /\ ~SetFails
      BY <2>1 DEF SetSucceeds, SetFails, Requested
    <3> QED
      BY <3>1, <3>2 DEF Next, SyncBegin, CatchUp, OutsidePower, RemoveCard, InsertCard, Reboot, props
  <2>3. CASE SyncSlot
    <3> DEFINE s == sync.next
               e == Element(s, sync.seen)
    <3>1. OutsideAlteration(e.sub, e.state) /\ s \in Slots
      BY <2>3 DEF SyncSlot
    <3>2. PICK preference : persistSubscription(s, e.sub, e.state, preference)
      BY <2>3, <3>1 DEF SyncSlot
    <3>3. e.sub \in Subs /\ Home[e.sub] = s
      BY <2>1, <3>1, ElementIs DEF HomesAreKept, Sync, OutsideAlteration
    <3>4. u = e.sub
      <4>1. pref' = [pref EXCEPT ![e.sub] = preference]
        BY <3>2 DEF persistSubscription
      <4> HIDE DEF e
      <4> QED
        BY <2>1, <4>1 DEF TypeOK
    <3>5. e.state # subState[u] /\ u \in sync.removed
      BY <3>1, <3>4 DEF OutsideAlteration
    <3>6. ~Known(u, sync.seen)
      BY <3>3, <3>4, <3>5 DEF Known
    <3> QED
      BY <2>1, <3>5, <3>6 DEF StillToSync
  <2>4. CASE SyncEnd
    <3>1. u \in sync.removed /\ sync.next \notin Slots
      BY <2>1, <2>4 DEF SyncEnd, TypeOK
    <3>2. ~(Home[u] >= sync.next)
      BY <2>1, <3>1, SlotsAreNumbers DEF SyncedSoFar
    <3> QED
      BY <2>1, <3>1, <3>2 DEF StillToSync
  <2> QED
    BY <2>2, <2>3, <2>4
<1>2. NoPhantomAlteration <=> [][Kept]_vars
  BY DEF NoPhantomAlteration
<1> QED
  BY <1>1, <1>2, SyncInvHolds, PTL DEF Spec
=============================================================================
