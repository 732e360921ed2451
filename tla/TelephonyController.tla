------------------------ MODULE TelephonyController ------------------------
(***************************************************************************)
(* TelephonyController.setSimState of 7SIM: threads ask for the SIM of a   *)
(* slot to be powered up or down.  The subscription is persisted as        *)
(* already changed, the modem is asked, the thread waits at most three     *)
(* seconds for the answer, and reverts what it persisted if the request    *)
(* failed.  The answer travels through one metadata bundle shared by all   *)
(* requests.                                                               *)
(***************************************************************************)
EXTENDS Integers, Sequences, FiniteSets

CONSTANTS
    Slots,          \* SIM slots
    EmptySlots,     \* slots without a subscription
    Callers,        \* threads that call setSimState
    AtLeastS,       \* Utils.IS_AT_LEAST_S: callback API, else status broadcasts
    ModemIgnores,   \* the modem may leave a request unanswered and undone
    ModemIsLate,    \* an answer may come after the three seconds
    MaxCalls        \* bound: calls of setSimState

None == "none"

ASSUME ControllerAssumption ==
    /\ Slots # {}
    /\ EmptySlots \subseteq Slots
    /\ None \notin Slots \union Callers
    /\ AtLeastS \in BOOLEAN
    /\ ModemIgnores \in BOOLEAN
    /\ ModemIsLate \in BOOLEAN
    /\ MaxCalls \in Nat

MIN == -1                    \* LocalDateTime.MIN
Time == Nat \union {MIN}      \* the clock counts the requests made

VARIABLES
    calls,      \* number of calls so far
    clock,      \* number of requests made: the date-time, and the request's id
    airplane,   \* airplane mode
    pc,         \* thread -> "idle", "entering" or "waiting"
    arg,        \* thread -> arguments of its call
    monitor,    \* thread inside synchronized(this), or None
    rec,        \* slot -> the persisted subscription
    meta,       \* mRequestMetadata
    modem,      \* slot -> queue of power requests at the modem
    answers,    \* answers under way to the application
    power,      \* slot -> the SIM is powered
    rilEvent,   \* a subscriptions-changed event is under way to the listeners
    seen,       \* slot -> enabled state the listeners last read
    prior,      \* history: slot -> the subscription before its last request
    misled      \* history: slots where a request ended with the answer to another

vars == <<calls, clock, airplane, pc, arg, monitor, rec, meta, modem, answers, power,
          rilEvent, seen, prior, misled>>

Record == [enabled : BOOLEAN, lastActivated : Time, lastDeactivated : Time, keep : BOOLEAN]
PowerRequest == [slot : Slots, up : BOOLEAN, id : Nat]
Answer == [slot : Slots, code : {"ok", "already", "error"}, id : Nat]
Args == [slot : Slots, enabled : BOOLEAN, keep : BOOLEAN]

MetaType == [slot : Slots \union {None}, id : Nat,
             code : {"ok", "already", "error", None},
             from : Nat, fromSlot : Slots \union {None}]

(* id 0 is a revert request, whose callback does nothing.                  *)
(* "from" and "fromSlot" are history: the request the code answers.        *)
NoMeta == [slot |-> None, id |-> 0, code |-> None, from |-> 0, fromSlot |-> None]

Enabled(r) == [s \in Slots |-> r[s].enabled]

TypeOK ==
    /\ calls \in 0..MaxCalls
    /\ clock \in Nat
    /\ airplane \in BOOLEAN
    /\ pc \in [Callers -> {"idle", "entering", "waiting"}]
    /\ arg \in [Callers -> Args]
    /\ monitor \in Callers \union {None}
    /\ rec \in [Slots -> Record]
    /\ meta \in MetaType
    /\ modem \in [Slots -> Seq(PowerRequest)]
    /\ answers \subseteq Answer
    /\ power \in [Slots -> BOOLEAN]
    /\ rilEvent \in BOOLEAN
    /\ seen \in [Slots -> BOOLEAN]
    /\ prior \in [Slots -> Record]
    /\ misled \subseteq Slots

Init ==
    /\ calls = 0
    /\ clock = 0
    /\ airplane = FALSE
    /\ pc = [c \in Callers |-> "idle"]
    /\ arg = [c \in Callers |-> CHOOSE a \in Args : TRUE]
    /\ monitor = None
    /\ rec = [s \in Slots |-> [enabled |-> TRUE, lastActivated |-> MIN,
                               lastDeactivated |-> MIN, keep |-> FALSE]]
    /\ meta = NoMeta
    /\ modem = [s \in Slots |-> <<>>]
    /\ answers = {}
    /\ power = [s \in Slots |-> s \notin EmptySlots]
    /\ rilEvent = FALSE
    /\ seen = Enabled(rec)
    /\ prior = rec
    /\ misled = {}

-----------------------------------------------------------------------------
(* The threads.  notifyAllListeners: the listeners read the subscriptions. *)

notifyAllListeners == seen' = Enabled(rec')

SetAirplaneMode ==
    /\ airplane' = ~airplane
    /\ UNCHANGED <<calls, clock, pc, arg, monitor, rec, meta, modem, answers, power,
                   rilEvent, seen, prior, misled>>

(* A call, up to the entry of the synchronized block.                      *)
Call(c) ==
    /\ pc[c] = "idle"
    /\ calls < MaxCalls
    /\ calls' = calls + 1
    /\ \E a \in Args :
          IF a.enabled /\ airplane
          THEN UNCHANGED <<pc, arg, rec>> /\ notifyAllListeners
          ELSE /\ pc' = [pc EXCEPT ![c] = "entering"]
               /\ arg' = [arg EXCEPT ![c] = a]
               /\ UNCHANGED <<rec, seen>>
    /\ UNCHANGED <<clock, airplane, monitor, meta, modem, answers, power, rilEvent, prior, misled>>

(* Aborting in the synchronized block: no subscription, or already in      *)
(* state.                                                                  *)
Abort(c) ==
    /\ pc[c] = "entering"
    /\ monitor = None
    /\ \/ arg[c].slot \in EmptySlots
       \/ rec[arg[c].slot].enabled = arg[c].enabled
    /\ pc' = [pc EXCEPT ![c] = "idle"]
    /\ UNCHANGED <<calls, clock, airplane, arg, monitor, rec, meta, modem, answers,
                   power, rilEvent, prior, misled>>
    /\ notifyAllListeners

(* Persist the subscription as changed, save the values to revert to, ask  *)
(* the modem.  A response code left in the bundle stays there.             *)
Changed(a, now) == [enabled |-> a.enabled,
                    lastActivated |-> IF a.enabled THEN now ELSE MIN,
                    lastDeactivated |-> IF a.enabled THEN MIN ELSE now,
                    keep |-> a.keep]

Request(a, id) == [slot |-> a.slot, up |-> a.enabled, id |-> id]

(* Mutant: setSimState is not synchronized. *)
StartUnsynchronized(c) ==
    LET a == arg[c]
    IN  /\ pc[c] = "entering"
        /\ a.slot \notin EmptySlots
        /\ rec[a.slot].enabled # a.enabled
        /\ pc' = [pc EXCEPT ![c] = "waiting"]
        /\ monitor' = c
        /\ clock' = clock + 1
        /\ rec' = [rec EXCEPT ![a.slot] = Changed(a, clock')]
        /\ prior' = [prior EXCEPT ![a.slot] = rec[a.slot]]
        /\ meta' = [meta EXCEPT !.slot = a.slot, !.id = clock']
        /\ modem' = [modem EXCEPT ![a.slot] = Append(@, Request(a, clock'))]
        /\ UNCHANGED <<calls, airplane, arg, answers, power, rilEvent, seen, misled>>

StartRequest(c) ==
    LET a == arg[c]
    IN  /\ pc[c] = "entering"
        /\ monitor = None
        /\ a.slot \notin EmptySlots
        /\ rec[a.slot].enabled # a.enabled
        /\ pc' = [pc EXCEPT ![c] = "waiting"]
        /\ monitor' = c
        /\ clock' = clock + 1
        /\ rec' = [rec EXCEPT ![a.slot] = Changed(a, clock')]
        /\ prior' = [prior EXCEPT ![a.slot] = rec[a.slot]]
        /\ meta' = [meta EXCEPT !.slot = a.slot, !.id = clock']
        /\ modem' = [modem EXCEPT ![a.slot] = Append(@, Request(a, clock'))]
        /\ UNCHANGED <<calls, airplane, arg, answers, power, rilEvent, seen, misled>>

(* The wait ends with a response code in the bundle, or with the deadline. *)
(* When the modem is never late, the deadline passes only if it dropped    *)
(* the request.                                                            *)
RequestPending(id) ==
    \/ \E s \in Slots : \E i \in DOMAIN modem[s] : modem[s][i].id = id
    \/ \E w \in answers : w.id = id

TimedOut == /\ meta.code = None
            /\ ModemIsLate \/ ~RequestPending(meta.id)

resCode == IF meta.code # None THEN meta.code
           ELSE IF rec[meta.slot].enabled THEN "simAbsent" ELSE "modemTimeout"

(* Mutant: an error of the modem is not a failure. *)
OnlyTimeoutFails == ~AtLeastS /\ resCode = "modemTimeout"

(* Mutant: the deadline is not a failure. *)
OnlyErrorFails == resCode = "error"

(* The two switches of handleOnSetSimPowerStateForSlotFinished.            *)
requestFailed == \/ resCode = "error"
                 \/ ~AtLeastS /\ resCode = "modemTimeout"

(* Mutant: listeners are told of an enabled SIM, not of a failed request. *)
NotifyOnlyEnabled == rec[meta.slot].enabled

shouldNotifyAllListeners ==
    \/ AtLeastS /\ resCode = "already"
    \/ rec[meta.slot].enabled
    \/ requestFailed

(* The values "restored" are the ones put in the bundle by StartRequest:   *)
(* after the subscription was changed, so they are the new ones.           *)
Reverted(r) == [r EXCEPT !.enabled = ~r.enabled]

Revert(s) ==
    /\ rec' = [rec EXCEPT ![s] = Reverted(rec[s])]
    /\ modem' = [modem EXCEPT ![s] =
                    Append(@, [slot |-> s, up |-> ~rec[s].enabled, id |-> 0])]

(* Mutant: the bundle keeps its response code. *)
KeepCode == meta' = [meta EXCEPT !.slot = None, !.id = 0]

ClearMetadata == meta' = NoMeta

(* History: the response code answers another request than this one.       *)
Misleading == meta.code # None /\ meta.from # meta.id

(* Mutant: the thread waits for the answer without a deadline. *)
FinishOnAnswer(c) ==
    /\ pc[c] = "waiting"
    /\ meta.code # None
    /\ pc' = [pc EXCEPT ![c] = "idle"]
    /\ monitor' = None
    /\ IF requestFailed THEN Revert(meta.slot) ELSE UNCHANGED <<rec, modem>>
    /\ IF shouldNotifyAllListeners THEN notifyAllListeners ELSE UNCHANGED seen
    /\ ClearMetadata
    /\ misled' = IF Misleading THEN misled \union {meta.slot} ELSE misled
    /\ UNCHANGED <<calls, clock, airplane, arg, answers, power, rilEvent, prior>>

FinishRequest(c) ==
    /\ pc[c] = "waiting"
    /\ meta.code # None \/ TimedOut
    /\ pc' = [pc EXCEPT ![c] = "idle"]
    /\ monitor' = None
    /\ IF requestFailed THEN Revert(meta.slot) ELSE UNCHANGED <<rec, modem>>
    /\ IF shouldNotifyAllListeners THEN notifyAllListeners ELSE UNCHANGED seen
    /\ ClearMetadata
    /\ misled' = IF Misleading THEN misled \union {meta.slot} ELSE misled
    /\ UNCHANGED <<calls, clock, airplane, arg, answers, power, rilEvent, prior>>

-----------------------------------------------------------------------------
(* The modem serves the requests of a slot in order.  A change of power    *)
(* raises the event the radio interface layer sends to the listeners.      *)

ModemAnswers(s, code) ==
    /\ modem[s] # <<>>
    /\ LET r == Head(modem[s])
       IN  /\ code = "already" <=> power[s] = r.up
           /\ power' = [power EXCEPT ![s] = IF code = "ok" THEN r.up ELSE @]
           /\ rilEvent' = (rilEvent \/ power' # power)
           \* Only the callback API answers when nothing changed, and a revert
           \* request has no callback there; a broadcast tells of any change.
           /\ answers' = IF IF AtLeastS THEN r.id = 0 ELSE code = "already"
                         THEN answers
                         ELSE answers \union {[slot |-> s, code |-> code, id |-> r.id]}
    /\ modem' = [modem EXCEPT ![s] = Tail(@)]
    /\ UNCHANGED <<calls, clock, airplane, pc, arg, monitor, rec, meta, seen, prior, misled>>

ModemIgnoresRequest(s) ==
    /\ ModemIgnores
    /\ modem[s] # <<>>
    /\ modem' = [modem EXCEPT ![s] = Tail(@)]
    /\ UNCHANGED <<calls, clock, airplane, pc, arg, monitor, rec, meta, answers,
                   power, rilEvent, seen, prior, misled>>

(* A card without a subscription (locked, foreign, broken) is put in one   *)
(* of the other slots: a status broadcast that nobody asked for.           *)
(* Bound: one such broadcast under way.                                    *)
OtherCardChanges(s) ==
    /\ ~AtLeastS
    /\ s \in EmptySlots
    /\ \A w \in answers : w.slot \notin EmptySlots
    /\ answers' = answers \union {[slot |-> s, code |-> "ok", id |-> 0]}
    /\ UNCHANGED <<calls, clock, airplane, pc, arg, monitor, rec, meta, modem, power,
                   rilEvent, seen, prior, misled>>

(* Mutant: the listener takes the state of any slot. *)
AnyAnswerIsAccepted(w) == AtLeastS \/ monitor # None

(* The callback is accepted whoever waits; the status listener exists only *)
(* during a request and skips the other slots.                             *)
Accepts(w) == AtLeastS \/ (monitor # None /\ meta.slot = w.slot)

DeliverAnswer(w) ==
    /\ w \in answers
    /\ answers' = answers \ {w}
    /\ meta' = IF Accepts(w)
                THEN [meta EXCEPT !.code = w.code, !.from = w.id, !.fromSlot = w.slot]
                ELSE meta
    /\ UNCHANGED <<calls, clock, airplane, pc, arg, monitor, rec, modem, power,
                   rilEvent, seen, prior, misled>>

DeliverRilEvent ==
    /\ rilEvent
    /\ rilEvent' = FALSE
    /\ UNCHANGED <<calls, clock, airplane, pc, arg, monitor, rec, meta, modem,
                   answers, power, prior, misled>>
    /\ notifyAllListeners

-----------------------------------------------------------------------------
Thread(c) == Abort(c) \/ StartRequest(c) \/ FinishRequest(c)

ModemStep(s) == \/ \E code \in {"ok", "already", "error"} : ModemAnswers(s, code)
                \/ ModemIgnoresRequest(s)

Next ==
    \/ SetAirplaneMode
    \/ \E c \in Callers : Call(c) \/ Thread(c)
    \/ \E s \in Slots : ModemStep(s) \/ OtherCardChanges(s)
    \/ \E w \in answers : DeliverAnswer(w)
    \/ DeliverRilEvent

(* The threads run, and the modem and the binder deliver what they have,   *)
(* the answers to requests however many other broadcasts there are.        *)
(* Nobody has to call setSimState.                                         *)
Fairness ==
    /\ \A c \in Callers : WF_vars(Thread(c))
    /\ \A s \in Slots : WF_vars(ModemStep(s))
    /\ WF_vars(\E w \in answers : w.id # 0 /\ DeliverAnswer(w))
    /\ WF_vars(\E w \in answers : w.id = 0 /\ DeliverAnswer(w))
    /\ WF_vars(DeliverRilEvent)

Spec == Init /\ [][Next]_vars /\ Fairness

-----------------------------------------------------------------------------
(* The monitor admits one request, the bundle describes it, and until it   *)
(* finishes nobody else changes the persisted state it has announced.      *)
RequestIsExclusive ==
    /\ \A c \in Callers : pc[c] = "waiting" <=> monitor = c
    /\ monitor = None => meta.slot = None
    /\ monitor # None =>
          /\ meta.slot = arg[monitor].slot
          /\ meta.slot \notin EmptySlots
          /\ meta.id = clock
          /\ rec[meta.slot].enabled = arg[monitor].enabled

(* Nothing is under way between the application, the modem and listeners.  *)
Settled ==
    /\ monitor = None
    /\ \A s \in Slots : modem[s] = <<>>
    /\ answers = {}
    /\ ~rilEvent

(* What is persisted agrees with the SIM once everything has settled,      *)
(* whatever failed on the way: the revert undoes the early persist in      *)
(* setSimState.                                                            *)
RecordMatchesPower ==
    Settled => \A s \in Slots \ EmptySlots : rec[s].enabled = power[s]

(* The weaker half, for a modem that may not answer: a SIM believed to be  *)
(* disabled is never left powered ("everything will be reverted to the     *)
(* actual state"), unless a request for it has found the late answer to a  *)
(* revert of its own slot.  A SIM believed to be enabled may be unpowered: *)
(* the code takes a timeout while enabling for an empty slot.              *)
DisabledMeansPoweredDown ==
    Settled => \A s \in Slots \ (EmptySlots \union misled) : power[s] => rec[s].enabled

(* The response code a request finds in the shared bundle is the answer to *)
(* this request, not to an earlier one or to one for the other slot.       *)
AnswerMatchesRequest ==
    monitor # None /\ meta.code # None => meta.from = meta.id

(* With status broadcasts the code is at least about the request's slot.   *)
AnswerMatchesSlot == meta.code # None => meta.fromSlot = meta.slot

(* The listeners have read the state that is persisted once everything has *)
(* settled: every path either notifies them or changes the power, which    *)
(* the radio layer reports.                                                *)
ListenersAreUpToDate == Settled => seen = Enabled(rec)

(* "In case the SIM power change request fails, everything will be         *)
(* reverted": when a request ends by undoing the enabled state, the whole  *)
(* record is the one from before the request.                              *)
RevertRestoresRecord ==
    [][\A s \in Slots :
          (monitor # None /\ monitor' = None /\ rec'[s].enabled # rec[s].enabled)
             => rec'[s] = prior[s]]_vars

(* Every call of setSimState returns, whatever the modem does and however  *)
(* the callers interleave.                                                 *)
EveryCallReturns == \A c \in Callers : pc[c] # "idle" ~> pc[c] = "idle"
=============================================================================
