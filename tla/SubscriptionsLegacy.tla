------------------------ MODULE SubscriptionsLegacy ------------------------
(***************************************************************************)
(* The list of SIM subscriptions 7SIM keeps on a legacy RIL, where a SIM   *)
(* that is powered down disappears from SubscriptionManager exactly as if  *)
(* it had been pulled out (Subscriptions, SubscriptionsImplLegacy).  What  *)
(* is known of such a SIM is kept in system properties, lost on reboot.    *)
(* syncSubscriptions compares them with the visible subscriptions, on the  *)
(* service's worker thread; setSimState changes them, on any thread.       *)
(***************************************************************************)
EXTENDS Integers, FiniteSets

CONSTANTS
    Slots,        \* SIM slots, 1..n: the order of the iterator
    Subs,         \* subscriptions (cards)
    Home,         \* bound: subscription -> the only slot its card is put in
    HotSlots,     \* bound: the slots whose card is exchanged while the phone runs
    Phones        \* kinds of phones, each by what may happen on it, among
                  \*   "ui", setSimState is also called from the user
                  \*   interface's thread, and "lag", SubscriptionManager
                  \*   may follow a change of power later

None == "none"

ASSUME SubscriptionsAssumption ==
    /\ IsFiniteSet(Slots) /\ Slots = 1..Cardinality(Slots)
    /\ None \notin Subs
    /\ Home \in [Subs -> Slots]
    /\ HotSlots \subseteq Slots
    /\ Phones \subseteq SUBSET {"ui", "lag"}

VARIABLES
    phone,     \* what may happen on this phone
    card,      \* slot -> the card in it
    downBy,    \* slot -> who powered it down: "nobody", "app" or "outside"
    visible,   \* slot -> subscription SubscriptionManager shows for it
    slotProp,  \* slot -> system properties: last subscription and its state
    subState,  \* subscription -> system property: its state
    usable,    \* system property: the usable subscriptions
    pref,      \* subscription -> its row: last activated ("on"), last
               \*   deactivated ("off") or, both times being MIN, "none"
    blocked,   \* mBlockSubscriptionsSyncFlag
    due,       \* a syncSubscriptions task is queued
    sync,      \* the syncSubscriptions call under way
    req,       \* the setSimState call under way
    synced,    \* history: a sync has ended since the boot
    cause      \* history: subscriptions altered by somebody else, until a
               \*   snapshot of the visible ones is taken that shows it

vars == <<phone, card, downBy, visible, slotProp, subState, usable, pref, blocked,
          due, sync, req, synced, cause>>
props == <<slotProp, subState, usable, pref>>

SimState == {"enabled", "disabled", "unknown"}
Maybe(S) == S \union {None}
NoSlot == 0

NoSync == [next |-> NoSlot, seen |-> [s \in Slots |-> None], removed |-> {}, usable |-> {}, noted |-> {}]
NoReq == [thread |-> None, slot |-> NoSlot, sub |-> None, enabled |-> FALSE]

TypeOK ==
    /\ phone \in Phones
    /\ card \in [Slots -> Maybe(Subs)]
    /\ downBy \in [Slots -> {"nobody", "app", "outside"}]
    /\ visible \in [Slots -> Maybe(Subs)]
    /\ slotProp \in [Slots -> [sub : Maybe(Subs), state : SimState]]
    /\ subState \in [Subs -> SimState]
    /\ usable \subseteq Subs
    /\ pref \in [Subs -> {"none", "on", "off"}]
    /\ blocked \in BOOLEAN
    /\ due \in BOOLEAN
    /\ synced \in BOOLEAN
    /\ sync \in [next : 0..(Cardinality(Slots) + 1), seen : [Slots -> Maybe(Subs)],
                 removed : SUBSET Subs, usable : SUBSET Subs,
                 noted : SUBSET Subs]
    /\ req \in [thread : Maybe({"worker", "ui"}), slot : Slots \union {NoSlot},
                sub : Maybe(Subs), enabled : BOOLEAN]
    /\ cause \subseteq Subs

(* What a reboot leaves: no properties, every slot powered.  The broadcast *)
(* that queues a sync may still come, or came before LOCKED_BOOT_COMPLETED *)
(* and was ignored.                                                        *)
Booted ==
    /\ downBy' = [s \in Slots |-> "nobody"]
    /\ slotProp' = [s \in Slots |-> [sub |-> None, state |-> "unknown"]]
    /\ subState' = [s \in Subs |-> "unknown"]
    /\ usable' = {}
    /\ blocked' = FALSE
    /\ due' \in BOOLEAN
    /\ sync' = NoSync
    /\ req' = NoReq
    /\ synced' = FALSE
    /\ cause' = {}

Init ==
    /\ phone \in Phones
    /\ card \in [Slots -> Maybe(Subs)]
    /\ \A s \in Slots : card[s] # None => Home[card[s]] = s
    /\ downBy = [s \in Slots |-> "nobody"]
    /\ visible = card
    /\ slotProp = [s \in Slots |-> [sub |-> None, state |-> "unknown"]]
    /\ subState = [s \in Subs |-> "unknown"]
    /\ usable = {}
    /\ pref = [s \in Subs |-> "none"]
    /\ blocked = FALSE
    /\ due \in BOOLEAN
    /\ sync = NoSync
    /\ req = NoReq
    /\ synced = FALSE
    /\ cause = {}

-----------------------------------------------------------------------------
(* What SubscriptionManager shows of a slot, at once or with a lag later.   *)
Shown(s) == IF downBy[s] = "nobody" THEN card[s] ELSE None

(* Mutant: a disabled slot is not restored. *)
ElementVisibleOnly(s, seen) ==
    IF seen[s] # None
    THEN [sub |-> seen[s], state |-> "enabled"]
    ELSE [sub |-> None, state |-> "unknown"]

(* hasNext/next of the iterator: the visible subscription of the slot, or  *)
(* the last one registered there if the slot is persisted as disabled.     *)
Element(s, seen) ==
    IF seen[s] # None
    THEN [sub |-> seen[s], state |-> "enabled"]
    ELSE IF slotProp[s].state = "disabled"
         THEN slotProp[s]
         ELSE [sub |-> None, state |-> "unknown"]

Listed(s) == Element(s, visible)

persistSubscription(s, sub, state, preference) ==
    /\ slotProp' = [slotProp EXCEPT ![s] = [sub |-> sub, state |-> state]]
    /\ subState' = [subState EXCEPT ![sub] = state]
    /\ pref' = [pref EXCEPT ![sub] = preference]

-----------------------------------------------------------------------------
(* syncSubscriptions, on the worker.  The flag is read once, at the start; *)
(* the visible subscriptions are those of that moment.                     *)
SyncRunning == sync # NoSync
WorkerIdle == ~SyncRunning /\ req.thread # "worker"

(* Mutant: the flag is not looked at. *)
SyncBeginUnchecked ==
    /\ WorkerIdle
    /\ due
    /\ due' = FALSE
    /\ sync' = [next |-> 1, seen |-> visible, removed |-> usable, usable |-> {},
                noted |-> cause \union {u \in Subs : \A s \in Slots : card[s] # u}]
    /\ cause' = {u \in cause : visible[Home[u]] # Shown(Home[u])}
    /\ UNCHANGED <<phone, card, downBy, visible, props, blocked, req, synced>>

SyncBegin ==
    /\ WorkerIdle
    /\ due
    /\ due' = FALSE
    /\ sync' = IF blocked THEN sync
               ELSE [next |-> 1, seen |-> visible, removed |-> usable, usable |-> {},
                     noted |-> cause \union {u \in Subs : \A s \in Slots : card[s] # u}]
    /\ cause' = IF blocked THEN cause ELSE {u \in cause : visible[Home[u]] # Shown(Home[u])}
    /\ UNCHANGED <<phone, card, downBy, visible, props, blocked, req, synced>>

(* Mutant: the list of usable subscriptions is not consulted. *)
OutsideAlterationOfAny(sub, state) ==
    sub # None /\ subState[sub] # state

(* A change of state the application did not make.                         *)
OutsideAlteration(sub, state) ==
    sub # None /\ subState[sub] # state /\ sub \in sync.removed

SyncSlot ==
    LET s == sync.next
        e == Element(s, sync.seen)
    IN  /\ s \in Slots
        /\ sync' = [sync EXCEPT !.next = s + 1,
                               !.removed = @ \ {e.sub},
                               !.usable = @ \union ({e.sub} \ {None})]
        /\ IF OutsideAlteration(e.sub, e.state)
           THEN persistSubscription(s, e.sub, e.state,
                                    IF e.state = "enabled" THEN "on" ELSE "off")
           ELSE /\ subState' = IF e.sub = None THEN subState
                               ELSE [subState EXCEPT ![e.sub] = e.state]
                /\ UNCHANGED <<slotProp, pref>>
        /\ UNCHANGED <<phone, card, downBy, visible, usable, blocked, due, req, cause, synced>>

(* Persist the usable subscriptions and forget the preference for those    *)
(* that are gone; their entity has no slot, so no slot property changes.   *)
SyncEnd ==
    /\ SyncRunning
    /\ sync.next \notin Slots
    /\ usable' = sync.usable
    /\ subState' = [u \in Subs |-> IF u \in sync.removed THEN "unknown" ELSE subState[u]]
    /\ pref' = [u \in Subs |-> IF u \in sync.removed THEN "none" ELSE pref[u]]
    /\ sync' = NoSync
    /\ synced' = TRUE
    /\ UNCHANGED <<phone, card, downBy, visible, slotProp, blocked, due, req, cause>>

-----------------------------------------------------------------------------
(* The list follows a change the hardware made, at once or later; the      *)
(* event of its change queues a sync.                                      *)
Follow == /\ visible' = IF "lag" \in phone THEN visible ELSE [s \in Slots |-> Shown(s)']
          /\ due' = (due \/ visible' # visible)

CatchUp(s) ==
    /\ visible[s] # Shown(s)
    /\ visible' = [visible EXCEPT ![s] = Shown(s)]
    /\ due' = TRUE
    /\ UNCHANGED <<phone, card, downBy, props, blocked, sync, req, cause, synced>>

(* setSimState up to the request: the subscription is persisted as changed *)
(* with syncing blocked.  One call at a time: the method is synchronized.  *)
SetBegin(thread, s) ==
    LET e == Listed(s)
        enabled == e.state = "disabled"
    IN  /\ req = NoReq
        /\ thread = "worker" => WorkerIdle
        /\ e.sub # None
        /\ req' = [thread |-> thread, slot |-> s, sub |-> e.sub, enabled |-> enabled]
        /\ blocked' = TRUE
        /\ persistSubscription(s, e.sub, IF enabled THEN "enabled" ELSE "disabled",
                               IF enabled THEN "on" ELSE "off")
        /\ UNCHANGED <<phone, card, downBy, visible, usable, due, sync, cause, synced>>

PowerAsAsked(up) == [downBy EXCEPT ![req.slot] = IF up THEN "nobody" ELSE "app"]

(* The modem did as asked, or nothing answered while enabling an empty     *)
(* slot, which is kept as enabled.                                         *)
SetSucceeds ==
    /\ req # NoReq
    /\ downBy' = PowerAsAsked(req.enabled)
    /\ blocked' = FALSE
    /\ req' = NoReq
    /\ UNCHANGED <<phone, card, props, sync, cause, synced>>
    /\ Follow

(* Mutant: the subscription's own property keeps the announced state. *)
RevertSlotOnly ==
    /\ slotProp' = [slotProp EXCEPT ![req.slot].state = IF req.enabled THEN "disabled" ELSE "enabled"]
    /\ UNCHANGED <<subState, pref>>

(* The state is reverted; the preference written by SetBegin stays.        *)
RevertSubscription ==
    persistSubscription(req.slot, req.sub,
                        IF req.enabled THEN "disabled" ELSE "enabled", pref[req.sub])

(* The modem did not, and is asked to go back to where it was; it may      *)
(* ignore that, too.                                                       *)
SetFails ==
    /\ req # NoReq
    /\ RevertSubscription
    /\ downBy' \in {downBy, PowerAsAsked(~req.enabled)}
    /\ blocked' = FALSE
    /\ req' = NoReq
    /\ UNCHANGED <<phone, card, usable, sync, cause, synced>>
    /\ Follow

-----------------------------------------------------------------------------
(* The user's hands, other applications, and the power button.             *)
InsertCard(s, u) ==
    /\ card[s] = None
    /\ \A t \in Slots : card[t] # u
    /\ Home[u] = s
    /\ card' = [card EXCEPT ![s] = u]
    /\ cause' = cause \union {u}
    /\ UNCHANGED <<phone, downBy, props, blocked, sync, req, synced>>
    /\ Follow

RemoveCard(s) ==
    /\ card[s] # None
    /\ card' = [card EXCEPT ![s] = None]
    /\ cause' = cause \union {card[s]}
    /\ UNCHANGED <<phone, downBy, props, blocked, sync, req, synced>>
    /\ Follow

OutsidePower(s) ==
    /\ downBy' = [downBy EXCEPT ![s] = IF @ = "nobody" THEN "outside" ELSE "nobody"]
    /\ cause' = cause \union ({card[s]} \ {None})
    /\ UNCHANGED <<phone, card, props, blocked, sync, req, synced>>
    /\ Follow

(* The rows of the database are what survives.                             *)
Reboot ==
    /\ Booted
    /\ visible' = card
    /\ UNCHANGED <<phone, card, pref>>

-----------------------------------------------------------------------------
Next ==
    \/ SyncBegin \/ SyncSlot \/ SyncEnd
    \/ \E s \in Slots : \/ SetBegin("worker", s)
                        \/ "ui" \in phone /\ SetBegin("ui", s)
                        \/ CatchUp(s)
                        \/ OutsidePower(s)
    \/ \E s \in HotSlots : \/ RemoveCard(s)
                           \/ \E u \in Subs : InsertCard(s, u)
    \/ SetSucceeds
    \/ SetFails
    \/ Reboot

Spec == Init /\ [][Next]_vars

-----------------------------------------------------------------------------
(* "... so that we can further restore all relevant data": a card that the *)
(* application itself has powered down stays in its list, whatever events  *)
(* of other slots, hot-plugging and reboots come in between.               *)
PoweredDownCardIsListed ==
    \A s \in Slots :
        /\ phone = {}
        /\ downBy[s] = "app" /\ card[s] # None /\ req.slot # s
        => Listed(s).sub # None

(* syncSubscriptions only overwrites the user's preference when the card   *)
(* is gone or somebody else really altered the SIM since it last looked:   *)
(* neither the application's own requests nor a reboot count as the user's *)
(* choice.                                                                 *)
NoPhantomAlteration ==
    [][\A u \in Subs :
          phone = {} /\ SyncRunning /\ pref'[u] # pref[u] =>
              u \in sync.noted]_vars

(* "Ensure SIM subscription syncing cannot start in parallel": a request   *)
(* in flight, from whichever thread, is never joined by a sync that was    *)
(* not already running when it began.                                      *)
NoSyncStartsDuringRequest ==
    [][req # NoReq /\ ~SyncRunning => ~SyncRunning']_vars

(* Once a sync has run and none is due, every listed subscription is known *)
(* with the state it is listed in, so the next outside alteration will be  *)
(* recognised.                                                             *)
Quiet == /\ phone = {} /\ synced /\ ~due /\ ~SyncRunning /\ req = NoReq
         /\ \A s \in Slots : visible[s] = Shown(s)

QuietIsSynced ==
    Quiet => \A s \in Slots :
                Listed(s).sub # None => /\ Listed(s).sub \in usable
                                        /\ subState[Listed(s).sub] = Listed(s).state
=============================================================================
