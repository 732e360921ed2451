--------------------- MODULE TelephonyControllerProofs ---------------------
(***************************************************************************)
(* TelephonyController, for any number of slots, callers and calls: its    *)
(* requests are exclusive whatever the modem does; with a modem that       *)
(* answers in time the answers, the persisted state and the listeners are  *)
(* right; and with one that may ignore requests a SIM believed to be       *)
(* disabled is unpowered.                                                  *)
(***************************************************************************)
EXTENDS TelephonyController, SequenceTheorems, TLAPS

LEMMA NoMetaType == NoMeta \in MetaType
  BY ControllerAssumption DEF NoMeta, MetaType

LEMMA ChangedType ==
    ASSUME NEW a \in Args, NEW now \in Nat
    PROVE  Changed(a, now) \in Record
  BY ControllerAssumption DEF Changed, Args, Record, Time, MIN

LEMMA InitTypeOK == Init => TypeOK
<1> SUFFICES ASSUME Init PROVE TypeOK
  OBVIOUS
<1>1. \E a \in Args : TRUE
  <2>1. PICK s \in Slots : TRUE
    BY ControllerAssumption
  <2>2. [slot |-> s, enabled |-> TRUE, keep |-> TRUE] \in Args
    BY DEF Args
  <2> QED BY <2>2
<1>2. (CHOOSE a \in Args : TRUE) \in Args
  BY <1>1
<1>3. arg \in [Callers -> Args]
  BY <1>2 DEF Init
<1>4. rec \in [Slots -> Record]
  BY ControllerAssumption DEF Init, Record, Time, MIN
<1>5. seen \in [Slots -> BOOLEAN]
  BY <1>4 DEF Init, Enabled, Record
<1>6. modem \in [Slots -> Seq(PowerRequest)]
  BY DEF Init
<1>7. meta \in MetaType
  BY NoMetaType DEF Init
<1>8. calls \in 0..MaxCalls /\ clock \in Nat
  BY ControllerAssumption DEF Init
<1>9. answers \subseteq Answer /\ prior \in [Slots -> Record]
  BY <1>4 DEF Init
<1>10. power \in [Slots -> BOOLEAN]
  BY DEF Init
<1>11. pc \in [Callers -> {"idle", "entering", "waiting"}]
  BY DEF Init
<1>12. airplane \in BOOLEAN /\ rilEvent \in BOOLEAN /\ monitor \in Callers \union {None}
  BY DEF Init
<1>13. misled \subseteq Slots
  BY DEF Init
<1> QED BY <1>3, <1>4, <1>5, <1>6, <1>7, <1>8, <1>9, <1>10, <1>11, <1>12, <1>13 DEF TypeOK

LEMMA NotifyType ==
    ASSUME rec' \in [Slots -> Record], notifyAllListeners
    PROVE  seen' \in [Slots -> BOOLEAN]
  BY DEF notifyAllListeners, Enabled, Record

LEMMA CallType ==
    ASSUME TypeOK, NEW c \in Callers, Call(c)
    PROVE  TypeOK'
<1> USE DEF TypeOK, Call
<1>1. calls' \in 0..MaxCalls /\ clock' \in Nat
  BY ControllerAssumption
<1>2. pc' \in [Callers -> {"idle", "entering", "waiting"}] /\ arg' \in [Callers -> Args]
  OBVIOUS
<1>3. rec' \in [Slots -> Record]
  OBVIOUS
<1>4. seen' \in [Slots -> BOOLEAN]
  BY <1>3, NotifyType
<1> QED BY <1>1, <1>2, <1>3, <1>4

LEMMA AbortType ==
    ASSUME TypeOK, NEW c \in Callers, Abort(c)
    PROVE  TypeOK'
<1>1. seen' \in [Slots -> BOOLEAN]
  BY NotifyType DEF TypeOK, Abort
<1> QED BY <1>1 DEF TypeOK, Abort

LEMMA StartRequestType ==
    ASSUME TypeOK, NEW c \in Callers, StartRequest(c)
    PROVE  TypeOK'
<1> DEFINE a == arg[c]
<1> USE DEF TypeOK
<1>1. a \in Args /\ a.slot \in Slots /\ a.enabled \in BOOLEAN
  BY DEF Args
<1>2. clock' \in Nat
  BY ControllerAssumption DEF StartRequest
<1>3. Changed(a, clock') \in Record
  BY <1>1, <1>2, ChangedType
<1>4. rec' \in [Slots -> Record] /\ prior' \in [Slots -> Record]
  BY <1>1, <1>3 DEF StartRequest
<1>5. meta' \in MetaType
  BY <1>1, <1>2 DEF StartRequest, MetaType
<1>6. modem' \in [Slots -> Seq(PowerRequest)]
  <2>1. Request(a, clock') \in PowerRequest
    BY <1>1, <1>2 DEF Request, PowerRequest
  <2>2. Append(modem[a.slot], Request(a, clock')) \in Seq(PowerRequest)
    BY <1>1, <2>1
  <2> QED BY <1>1, <2>2 DEF StartRequest
<1>7. pc' \in [Callers -> {"idle", "entering", "waiting"}]
  BY DEF StartRequest
<1>8. calls' \in 0..MaxCalls /\ monitor' \in Callers \union {None}
  BY DEF StartRequest
<1> QED BY <1>2, <1>4, <1>5, <1>6, <1>7, <1>8 DEF StartRequest

LEMMA FinishRequestType ==
    ASSUME TypeOK, NEW c \in Callers, FinishRequest(c), meta.slot \in Slots
    PROVE  TypeOK'
<1> DEFINE s == meta.slot
<1> USE DEF TypeOK
<1>1. rec[s] \in Record /\ rec[s].enabled \in BOOLEAN
  BY DEF Record
<1>2. Reverted(rec[s]) \in Record
  BY <1>1 DEF Reverted, Record
<1>3. rec' \in [Slots -> Record]
  BY <1>2 DEF FinishRequest, Revert
<1>4. modem' \in [Slots -> Seq(PowerRequest)]
  <2>1. [slot |-> s, up |-> ~rec[s].enabled, id |-> 0] \in PowerRequest
    BY <1>1, ControllerAssumption DEF PowerRequest
  <2>2. Append(modem[s], [slot |-> s, up |-> ~rec[s].enabled, id |-> 0]) \in Seq(PowerRequest)
    BY <2>1
  <2> QED BY <2>2 DEF FinishRequest, Revert
<1>5. seen' \in [Slots -> BOOLEAN]
  BY <1>3, NotifyType DEF FinishRequest
<1>6. meta' \in MetaType
  BY NoMetaType DEF FinishRequest, ClearMetadata
<1>7. pc' \in [Callers -> {"idle", "entering", "waiting"}]
  BY DEF FinishRequest
<1>8. misled' \subseteq Slots
  BY DEF FinishRequest
<1> QED BY <1>3, <1>4, <1>5, <1>6, <1>7, <1>8 DEF FinishRequest

LEMMA ModemType ==
    ASSUME TypeOK, NEW s \in Slots, ModemStep(s)
    PROVE  TypeOK'
<1> USE DEF TypeOK
<1>1. modem[s] # <<>> /\ modem' = [modem EXCEPT ![s] = Tail(@)]
  BY DEF ModemStep, ModemAnswers, ModemIgnoresRequest
<1>2. Head(modem[s]) \in PowerRequest /\ Tail(modem[s]) \in Seq(PowerRequest)
  BY <1>1
<1>3. modem' \in [Slots -> Seq(PowerRequest)]
  BY <1>1, <1>2
<1>4. ASSUME NEW code \in {"ok", "already", "error"}, ModemAnswers(s, code)
      PROVE  TypeOK'
  <2> DEFINE r == Head(modem[s])
  <2>1. r.up \in BOOLEAN /\ r.id \in Nat
    BY <1>2 DEF PowerRequest
  <2>2. power' \in [Slots -> BOOLEAN] /\ rilEvent' \in BOOLEAN
    BY <1>4, <2>1 DEF ModemAnswers
  <2>3. [slot |-> s, code |-> code, id |-> r.id] \in Answer
    BY <2>1 DEF Answer
  <2>4. answers' \subseteq Answer
    BY <1>4, <2>3 DEF ModemAnswers
  <2> QED BY <1>3, <1>4, <2>2, <2>4 DEF ModemAnswers
<1>5. CASE ModemIgnoresRequest(s)
  BY <1>3, <1>5 DEF ModemIgnoresRequest
<1> QED BY <1>4, <1>5 DEF ModemStep

LEMMA DeliverAnswerType ==
    ASSUME TypeOK, NEW w \in answers, DeliverAnswer(w)
    PROVE  TypeOK'
<1> USE DEF TypeOK
<1>1. w \in Answer
  OBVIOUS
<1>2. meta' \in MetaType
  BY <1>1 DEF DeliverAnswer, MetaType, Answer
<1> QED BY <1>2 DEF DeliverAnswer

(* The inductive invariant: the types, and the exclusiveness of requests.  *)
Inv == TypeOK /\ RequestIsExclusive

LEMMA InitInv == Init => Inv
<1> SUFFICES ASSUME Init PROVE RequestIsExclusive
  BY InitTypeOK DEF Inv
<1> QED BY ControllerAssumption DEF Init, RequestIsExclusive, NoMeta

LEMMA NextType == ASSUME Inv, [Next]_vars PROVE TypeOK'
<1> USE DEF Inv
<1>1. CASE SetAirplaneMode
  BY <1>1 DEF SetAirplaneMode, TypeOK
<1>2. ASSUME NEW c \in Callers, Call(c) PROVE TypeOK'
  BY <1>2, CallType
<1>3. ASSUME NEW c \in Callers, Abort(c) PROVE TypeOK'
  BY <1>3, AbortType
<1>4. ASSUME NEW c \in Callers, StartRequest(c) PROVE TypeOK'
  BY <1>4, StartRequestType
<1>5. ASSUME NEW c \in Callers, FinishRequest(c) PROVE TypeOK'
  <2>1. monitor = c
    BY <1>5 DEF FinishRequest, RequestIsExclusive
  <2>2. meta.slot \in Slots
    BY <2>1, ControllerAssumption DEF RequestIsExclusive, TypeOK, Args
  <2> QED BY <1>5, <2>2, FinishRequestType
<1>6. ASSUME NEW s \in Slots, ModemStep(s) PROVE TypeOK'
  BY <1>6, ModemType
<1>7. ASSUME NEW w \in answers, DeliverAnswer(w) PROVE TypeOK'
  BY <1>7, DeliverAnswerType
<1>8. CASE DeliverRilEvent
  BY <1>8, NotifyType DEF DeliverRilEvent, TypeOK
<1>9. ASSUME NEW s \in Slots, OtherCardChanges(s)
      PROVE  TypeOK'
  <2>1. [slot |-> s, code |-> "ok", id |-> 0] \in Answer
    BY DEF Answer
  <2>2. answers' \subseteq Answer
    BY <1>9, <2>1 DEF OtherCardChanges, TypeOK
  <2> QED BY <1>9, <2>2 DEF OtherCardChanges, TypeOK
<1>10. CASE UNCHANGED vars
  BY <1>10 DEF vars, TypeOK
<1> QED BY <1>1, <1>2, <1>3, <1>4, <1>5, <1>6, <1>7, <1>8, <1>9, <1>10 DEF Next, Thread

LEMMA NextExclusive == ASSUME Inv, [Next]_vars PROVE RequestIsExclusive'
<1> USE ControllerAssumption DEF Inv
<1>1. CASE SetAirplaneMode
  BY <1>1 DEF SetAirplaneMode, RequestIsExclusive
<1>2. ASSUME NEW c \in Callers, Call(c) PROVE RequestIsExclusive'
  BY <1>2 DEF Call, RequestIsExclusive, TypeOK
<1>3. ASSUME NEW c \in Callers, Abort(c) PROVE RequestIsExclusive'
  BY <1>3 DEF Abort, RequestIsExclusive, TypeOK
<1>4. ASSUME NEW c \in Callers, StartRequest(c) PROVE RequestIsExclusive'
  <2> DEFINE a == arg[c]
  <2>1. a.slot \in Slots /\ a.slot # None
    BY DEF TypeOK, Args
  <2>2. pc' = [pc EXCEPT ![c] = "waiting"] /\ monitor = None /\ monitor' = c /\ arg' = arg
    BY <1>4 DEF StartRequest
  <2>3. \A d \in Callers : pc'[d] = "waiting" <=> monitor' = d
    BY <2>2 DEF TypeOK, RequestIsExclusive
  <2>4. meta'.slot = a.slot /\ meta'.id = clock'
    BY <1>4 DEF StartRequest, TypeOK, MetaType
  <2>5. rec'[a.slot].enabled = a.enabled /\ a.slot \notin EmptySlots
    BY <1>4, <2>1 DEF StartRequest, TypeOK, Changed
  <2> QED BY <2>2, <2>3, <2>4, <2>5 DEF RequestIsExclusive
<1>5. ASSUME NEW c \in Callers, FinishRequest(c) PROVE RequestIsExclusive'
  <2>1. monitor = c /\ monitor' = None /\ pc' = [pc EXCEPT ![c] = "idle"]
    BY <1>5 DEF FinishRequest, RequestIsExclusive
  <2>2. \A d \in Callers : pc'[d] = "waiting" <=> monitor' = d
    BY <2>1 DEF TypeOK, RequestIsExclusive
  <2>3. meta'.slot = None
    BY <1>5 DEF FinishRequest, ClearMetadata, NoMeta
  <2> QED BY <2>1, <2>2, <2>3 DEF RequestIsExclusive
<1>6. ASSUME NEW s \in Slots, ModemStep(s) PROVE RequestIsExclusive'
  BY <1>6 DEF ModemStep, ModemAnswers, ModemIgnoresRequest, RequestIsExclusive
<1>7. ASSUME NEW w \in answers, DeliverAnswer(w) PROVE RequestIsExclusive'
  <2>1. meta'.slot = meta.slot /\ meta'.id = meta.id
    BY <1>7 DEF DeliverAnswer, TypeOK, MetaType
  <2>2. UNCHANGED <<pc, monitor, arg, clock, rec>>
    BY <1>7 DEF DeliverAnswer
  <2> QED BY <2>1, <2>2 DEF RequestIsExclusive
<1>8. CASE DeliverRilEvent
  BY <1>8 DEF DeliverRilEvent, RequestIsExclusive
<1>9. ASSUME NEW s \in Slots, OtherCardChanges(s)
      PROVE  RequestIsExclusive'
  BY <1>9 DEF OtherCardChanges, RequestIsExclusive
<1>10. CASE UNCHANGED vars
  BY <1>10 DEF vars, RequestIsExclusive
<1> QED BY <1>1, <1>2, <1>3, <1>4, <1>5, <1>6, <1>7, <1>8, <1>9, <1>10 DEF Next, Thread

LEMMA Invariance == Spec => []Inv
<1>1. Inv /\ [Next]_vars => Inv'
  BY NextType, NextExclusive DEF Inv
<1> QED BY InitInv, <1>1, PTL DEF Spec

(* Every variable keeps its type: in particular what is persisted is       *)
(* always a record of SubscriptionsDao.                                    *)
THEOREM TypeCorrect == Spec => []TypeOK
<1>1. Inv => TypeOK
  BY DEF Inv
<1> QED BY <1>1, Invariance, PTL

(* setSimState serves one request at a time, and while it waits for the    *)
(* modem the persisted state of the slot stays what it announced.          *)
THEOREM Exclusive == Spec => []RequestIsExclusive
<1>1. Inv => RequestIsExclusive
  BY DEF Inv
<1> QED BY <1>1, Invariance, PTL

(* Before Android 12 the status listener exists only while a request is    *)
(* waiting, so that a finished request leaves no code behind.              *)
BroadcastInv == /\ monitor = None => meta.code = None
                /\ AnswerMatchesSlot

LEMMA NextBroadcastInv ==
    ASSUME ~AtLeastS, Inv, BroadcastInv, [Next]_vars
    PROVE  BroadcastInv'
<1> USE DEF BroadcastInv, AnswerMatchesSlot
<1>1. CASE UNCHANGED <<monitor, meta>>
  BY <1>1
<1>2. ASSUME NEW c \in Callers, StartRequest(c) PROVE BroadcastInv'
  <2>1. monitor = None /\ meta'.code = meta.code
    BY <1>2 DEF StartRequest, Inv, TypeOK, MetaType
  <2> QED BY <2>1
<1>3. ASSUME NEW c \in Callers, FinishRequest(c) PROVE BroadcastInv'
  BY <1>3 DEF FinishRequest, ClearMetadata, NoMeta
<1>4. ASSUME NEW w \in answers, DeliverAnswer(w) PROVE BroadcastInv'
  <2>1. monitor' = monitor
    BY <1>4 DEF DeliverAnswer
  <2>2. CASE ~Accepts(w)
    BY <1>4, <2>1, <2>2 DEF DeliverAnswer
  <2>3. CASE Accepts(w)
    <3>1. monitor # None /\ meta.slot = w.slot
      BY <2>3 DEF Accepts
    <3>2. meta'.fromSlot = w.slot /\ meta'.slot = meta.slot
      BY <1>4, <2>3 DEF DeliverAnswer, Inv, TypeOK, MetaType
    <3> QED BY <2>1, <3>1, <3>2
  <2> QED BY <2>2, <2>3
<1>5. ASSUME NEW c \in Callers, Call(c) \/ Abort(c) PROVE UNCHANGED <<monitor, meta>>
  BY <1>5 DEF Call, Abort
<1>6. ASSUME NEW s \in Slots, ModemStep(s) PROVE UNCHANGED <<monitor, meta>>
  BY <1>6 DEF ModemStep, ModemAnswers, ModemIgnoresRequest
<1>7. SetAirplaneMode \/ DeliverRilEvent \/ UNCHANGED vars => UNCHANGED <<monitor, meta>>
  BY DEF SetAirplaneMode, DeliverRilEvent, vars
<1>8. ASSUME NEW s \in Slots, OtherCardChanges(s)
      PROVE  UNCHANGED <<monitor, meta>>
  BY <1>8 DEF OtherCardChanges
<1> QED BY <1>1, <1>2, <1>3, <1>4, <1>5, <1>6, <1>7, <1>8 DEF Next, Thread

(* Where answers are status broadcasts (before Android 12), the code a     *)
(* request finds is about its own slot: the listener skips the others, and *)
(* is gone before the next request may name another slot.                  *)
THEOREM AnswerIsForSlot == ASSUME ~AtLeastS PROVE Spec => []AnswerMatchesSlot
<1>1. Init => BroadcastInv
  BY DEF Init, NoMeta, BroadcastInv, AnswerMatchesSlot
<1>2. Inv /\ BroadcastInv /\ [Next]_vars => BroadcastInv'
  BY NextBroadcastInv
<1>3. BroadcastInv => AnswerMatchesSlot
  BY DEF BroadcastInv
<1> QED BY <1>1, <1>2, <1>3, Invariance, PTL DEF Spec

-----------------------------------------------------------------------------
(* A modem that answers every request in time: what the queues hold.       *)

PromptModem == ~ModemIgnores /\ ~ModemIsLate

(* The request for a slot that a thread waits for.                         *)
Waits(s) == monitor # None /\ meta.slot = s

(* What an answer to the waiting request says of its SIM.                  *)
Tells(code) ==
    \/ code = "ok" /\ power[meta.slot] = rec[meta.slot].enabled
    \/ code = "error" /\ power[meta.slot] # rec[meta.slot].enabled

(* A slot's queue holds reverts to the state of its SIM and, last, the     *)
(* request that is waited for and that nobody has answered.                *)
QueuesAreOrdered ==
    \A s \in Slots : \A i \in DOMAIN modem[s] :
        LET r == modem[s][i]
        IN  /\ s \notin EmptySlots
            /\ r.id = 0 => r.up = power[s]
            /\ r.id # 0 => /\ Waits(s) /\ r.id = meta.id /\ i = Len(modem[s])
                           /\ r.up = rec[s].enabled
                           /\ meta.code = None

(* Without a request the state is the SIM's; one that is queued is to      *)
(* change it.                                                              *)
StateFollowsPower ==
    \A s \in Slots \ EmptySlots :
        /\ ~Waits(s) => power[s] = rec[s].enabled
        /\ Waits(s) /\ modem[s] # <<>> =>
              /\ modem[s][Len(modem[s])].id = meta.id
              /\ power[s] # rec[s].enabled

(* Besides the status of empty slots only the answer to the waiting        *)
(* request is under way, or was delivered.                                 *)
AnswersAreOwn ==
    /\ \A w \in answers :
          \/ ~AtLeastS /\ w.slot \in EmptySlots /\ w.id = 0
          \/ /\ monitor # None /\ w.slot = meta.slot /\ w.id = meta.id
             /\ modem[meta.slot] = <<>> /\ meta.code = None /\ Tells(w.code)
    /\ meta.code # None =>
          /\ monitor # None /\ meta.from = meta.id
          /\ modem[meta.slot] = <<>> /\ Tells(meta.code)
          /\ \A w \in answers : w.id # meta.id

(* The waiting request is at the modem, answered, or about to be.          *)
NoAnswerIsLost ==
    monitor # None =>
        /\ meta.id # 0
        /\ modem[meta.slot] # <<>> \/ meta.code # None \/ \E w \in answers : w.id = meta.id

PromptInv == QueuesAreOrdered /\ StateFollowsPower /\ AnswersAreOwn /\ NoAnswerIsLost

(* The listeners know a slot's state, or will hear of it: an event is      *)
(* under way, or the request that waits has not changed the power.         *)
ListenersWillKnow ==
    \A s \in Slots : \/ rilEvent
                     \/ seen[s] = rec[s].enabled
                     \/ Waits(s) /\ power[s] # rec[s].enabled

-----------------------------------------------------------------------------
(* A modem that may ignore requests, with status broadcasts.               *)

(* The waiting request is the last at its slot, and unanswered.            *)
OwnIsLast ==
    monitor # None =>
        /\ meta.id # 0
        /\ \A s \in Slots : \A i \in DOMAIN modem[s] : modem[s][i].id = meta.id =>
              /\ s = meta.slot /\ i = Len(modem[s])
              /\ modem[s][i].up = rec[s].enabled
              /\ meta.from # meta.id
              /\ \A w \in answers : w.id # meta.id

(* Its own answer, under way or delivered, tells of the SIM's power.       *)
OwnAnswerTells ==
    monitor # None =>
        /\ \A w \in answers : w.id = meta.id =>
              modem[meta.slot] = <<>> /\ Tells(w.code)
        /\ meta.code # None /\ meta.from = meta.id =>
              modem[meta.slot] = <<>> /\ Tells(meta.code)

(* A SIM believed to be disabled is unpowered and nobody asked otherwise.  *)
DisabledStaysDown ==
    \A s \in Slots \ (EmptySlots \union misled) : ~Waits(s) /\ ~rec[s].enabled =>
        /\ ~power[s]
        /\ \A i \in DOMAIN modem[s] : ~modem[s][i].up

IdsAreOld ==
    /\ \A s \in Slots : \A i \in DOMAIN modem[s] : modem[s][i].id <= clock
    /\ \A w \in answers : w.id <= clock
    /\ meta.from <= clock

SilentInv == OwnIsLast /\ OwnAnswerTells /\ DisabledStaysDown /\ IdsAreOld


(* With callbacks, what is asked or answered is about the request that waits. *)
CallbacksAreOwn ==
    /\ \A s \in Slots : \A i \in DOMAIN modem[s] : modem[s][i].id # 0 =>
          /\ Waits(s) /\ modem[s][i].id = meta.id /\ i = Len(modem[s])
          /\ meta.code = None /\ answers = {}
    /\ \A w \in answers : /\ monitor # None /\ w.id = meta.id
                          /\ meta.code = None /\ answers = {w}
    /\ meta.code # None => monitor # None /\ meta.from = meta.id /\ answers = {}

-----------------------------------------------------------------------------
(* What the steps do to the queues.                                        *)

LEMMA Appended ==
    ASSUME TypeOK, NEW s \in Slots, NEW r \in PowerRequest,
           modem' = [modem EXCEPT ![s] = Append(@, r)]
    PROVE  /\ \A t \in Slots \ {s} : modem'[t] = modem[t]
           /\ modem'[s] # <<>>
           /\ Len(modem'[s]) = Len(modem[s]) + 1
           /\ modem'[s][Len(modem'[s])] = r
           /\ \A i \in DOMAIN modem'[s] :
                 \/ i \in DOMAIN modem[s] /\ i # Len(modem'[s]) /\ modem'[s][i] = modem[s][i]
                 \/ i = Len(modem'[s]) /\ modem'[s][i] = r
<1>1. modem[s] \in Seq(PowerRequest) /\ modem'[s] = Append(modem[s], r)
  BY DEF TypeOK
<1>2. \A t \in Slots \ {s} : modem'[t] = modem[t]
  BY DEF TypeOK
<1> QED
  BY <1>1, <1>2, AppendProperties

LEMMA TailFacts ==
    ASSUME NEW S, NEW q \in Seq(S), q # <<>>
    PROVE  /\ Len(q) \in Nat /\ 1 \in DOMAIN q
           /\ Head(q) = q[1] /\ Head(q) \in S
           /\ Len(Tail(q)) = Len(q) - 1
           /\ 1 = Len(q) <=> Tail(q) = <<>>
           /\ \A i \in DOMAIN Tail(q) :
                 i \in Nat /\ i + 1 \in DOMAIN q /\ Tail(q)[i] = q[i + 1]
<1>1. Len(q) \in Nat /\ Len(q) >= 1 /\ 1 \in DOMAIN q /\ DOMAIN q = 1..Len(q)
  BY EmptySeq, LenProperties
<1>2. /\ Head(q) = q[1] /\ Head(q) \in S /\ Tail(q) \in Seq(S)
      /\ Len(Tail(q)) = Len(q) - 1
      /\ \A i \in 1..Len(Tail(q)) : Tail(q)[i] = q[i + 1]
  BY <1>1, HeadTailProperties
<1>3. DOMAIN Tail(q) = 1..Len(q) - 1
  BY <1>2, LenProperties
<1>4. Tail(q) = <<>> <=> Len(q) - 1 = 0
  BY <1>2, EmptySeq
<1> QED
  BY <1>1, <1>2, <1>3, <1>4

LEMMA Served ==
    ASSUME TypeOK, NEW s \in Slots, modem[s] # <<>>,
           modem' = [modem EXCEPT ![s] = Tail(@)]
    PROVE  /\ \A t \in Slots \ {s} : modem'[t] = modem[t]
           /\ Head(modem[s]) = modem[s][1] /\ Head(modem[s]) \in PowerRequest
           /\ 1 \in DOMAIN modem[s]
           /\ Len(modem[s]) \in Nat
           /\ Len(modem'[s]) = Len(modem[s]) - 1
           /\ 1 = Len(modem[s]) <=> modem'[s] = <<>>
           /\ \A i \in DOMAIN modem'[s] :
                 i \in Nat /\ i + 1 \in DOMAIN modem[s] /\ modem'[s][i] = modem[s][i + 1]
<1>1. modem[s] \in Seq(PowerRequest) /\ modem'[s] = Tail(modem[s])
  BY DEF TypeOK
<1>2. \A t \in Slots \ {s} : modem'[t] = modem[t]
  BY DEF TypeOK
<1>3. LET q == modem[s]
      IN  /\ Len(q) \in Nat /\ 1 \in DOMAIN q
          /\ Head(q) = q[1] /\ Head(q) \in PowerRequest
          /\ Len(Tail(q)) = Len(q) - 1
          /\ 1 = Len(q) <=> Tail(q) = <<>>
          /\ \A i \in DOMAIN Tail(q) :
                i \in Nat /\ i + 1 \in DOMAIN q /\ Tail(q)[i] = q[i + 1]
  BY <1>1, TailFacts
<1> QED
  BY <1>1, <1>2, <1>3

(* The state the queues are about, and what the proofs below read.         *)
world == <<clock, monitor, rec, meta, modem, answers, power, misled>>

LEMMA QuietSteps ==
    ASSUME \/ SetAirplaneMode \/ DeliverRilEvent \/ UNCHANGED vars
           \/ \E c \in Callers : Call(c) \/ Abort(c)
    PROVE  /\ UNCHANGED world
           /\ seen' = Enabled(rec) \/ UNCHANGED <<seen, rilEvent>>
<1> USE DEF world, notifyAllListeners, Enabled
<1>1. CASE SetAirplaneMode \/ UNCHANGED vars
  BY <1>1 DEF SetAirplaneMode, vars
<1>2. CASE DeliverRilEvent
  BY <1>2 DEF DeliverRilEvent
<1>3. ASSUME NEW c \in Callers, Call(c) \/ Abort(c)
      PROVE  UNCHANGED world /\ (seen' = Enabled(rec) \/ UNCHANGED <<seen, rilEvent>>)
  BY <1>3 DEF Call, Abort
<1> QED
  BY <1>1, <1>2, <1>3

(* What a request changes.                                                 *)
LEMMA Starting ==
    ASSUME Inv, NEW c \in Callers, StartRequest(c)
    PROVE  LET s == arg[c].slot
           IN  /\ s \in Slots \ EmptySlots
               /\ monitor = None /\ monitor' # None
               /\ clock \in Nat /\ clock' = clock + 1
               /\ meta'.slot = s /\ meta'.id = clock'
               /\ meta'.code = meta.code /\ meta'.from = meta.from
               /\ \A t \in Slots \ {s} : rec'[t].enabled = rec[t].enabled
               /\ rec'[s].enabled = ~rec[s].enabled
               /\ rec[s].enabled \in BOOLEAN
               /\ \A t \in Slots \ {s} : modem'[t] = modem[t]
               /\ modem'[s] # <<>>
               /\ modem'[s][Len(modem'[s])]
                     = [slot |-> s, up |-> rec'[s].enabled, id |-> clock']
               /\ \A i \in DOMAIN modem'[s] :
                     \/ /\ i \in DOMAIN modem[s] /\ i # Len(modem'[s])
                        /\ modem'[s][i] = modem[s][i]
                     \/ /\ i = Len(modem'[s])
                        /\ modem'[s][i] = [slot |-> s, up |-> rec'[s].enabled, id |-> clock']
               /\ UNCHANGED <<answers, power, rilEvent, seen, misled>>
<1> DEFINE s == arg[c].slot
           r == [slot |-> s, up |-> rec'[s].enabled, id |-> clock']
<1> USE DEF Inv
<1>1. s \in Slots \ EmptySlots /\ arg[c].enabled \in BOOLEAN
  BY DEF StartRequest, TypeOK, Args
<1>2. clock \in Nat /\ clock' = clock + 1 /\ clock' \in Nat
  BY DEF StartRequest, TypeOK
<1>3. monitor = None /\ monitor' = c /\ c # None
  BY ControllerAssumption DEF StartRequest
<1>4. rec' = [rec EXCEPT ![s] = Changed(arg[c], clock')]
  BY DEF StartRequest
<1>5. rec'[s].enabled = arg[c].enabled /\ \A t \in Slots \ {s} : rec'[t].enabled = rec[t].enabled
  BY <1>1, <1>4 DEF TypeOK, Changed
<1>6. rec[s].enabled \in BOOLEAN /\ rec[s].enabled # arg[c].enabled
  BY <1>1 DEF StartRequest, TypeOK, Record
<1>7. meta' = [meta EXCEPT !.slot = s, !.id = clock'] /\ meta \in MetaType
  BY DEF StartRequest, TypeOK
<1>8. /\ meta'.slot = s /\ meta'.id = clock'
      /\ meta'.code = meta.code /\ meta'.from = meta.from
  BY <1>7 DEF MetaType
<1>9. modem' = [modem EXCEPT ![s] = Append(@, r)]
  BY <1>5 DEF StartRequest, Request
<1>10. r \in PowerRequest
  BY <1>1, <1>2, <1>5 DEF PowerRequest
<1>11. UNCHANGED <<answers, power, rilEvent, seen, misled>>
  BY DEF StartRequest
<1>12. /\ \A t \in Slots \ {s} : modem'[t] = modem[t]
       /\ modem'[s] # <<>>
       /\ modem'[s][Len(modem'[s])] = r
       /\ \A i \in DOMAIN modem'[s] :
             \/ i \in DOMAIN modem[s] /\ i # Len(modem'[s]) /\ modem'[s][i] = modem[s][i]
             \/ i = Len(modem'[s]) /\ modem'[s][i] = r
  <2>1. s \in Slots /\ TypeOK
    BY <1>1
  <2> HIDE DEF s, r
  <2> QED
    BY ONLY <1>9, <1>10, <2>1, Appended
<1> QED
  BY <1>1, <1>2, <1>3, <1>5, <1>6, <1>8, <1>11, <1>12

-----------------------------------------------------------------------------
(* A prompt modem.                                                         *)

LEMMA PromptInit == Init => PromptInv /\ ListenersWillKnow
<1> SUFFICES ASSUME Init PROVE PromptInv /\ ListenersWillKnow
  OBVIOUS
<1>1. monitor = None /\ meta.code = None /\ answers = {}
  BY DEF Init, NoMeta
<1>2. \A s \in Slots : modem[s] = <<>>
  BY DEF Init
<1>3. \A s \in Slots : rec[s].enabled = TRUE /\ power[s] = (s \notin EmptySlots)
  BY DEF Init
<1>4. \A s \in Slots : seen[s] = rec[s].enabled
  BY DEF Init, Enabled
<1>5. QueuesAreOrdered
  BY <1>2 DEF QueuesAreOrdered
<1>6. StateFollowsPower
  BY <1>1, <1>3 DEF StateFollowsPower, Waits
<1>7. AnswersAreOwn /\ NoAnswerIsLost
  BY <1>1 DEF AnswersAreOwn, NoAnswerIsLost
<1>8. ListenersWillKnow
  BY <1>4 DEF ListenersWillKnow
<1> QED
  BY <1>5, <1>6, <1>7, <1>8 DEF PromptInv

LEMMA PromptQuiet ==
    ASSUME PromptInv, UNCHANGED world PROVE PromptInv'
  BY DEF world, PromptInv, QueuesAreOrdered, StateFollowsPower, AnswersAreOwn, NoAnswerIsLost,
     Waits, Tells

LEMMA PromptStarts ==
    ASSUME Inv, PromptInv, ListenersWillKnow, NEW c \in Callers, StartRequest(c)
    PROVE  PromptInv' /\ ListenersWillKnow'
<1> DEFINE s == arg[c].slot
           r == [slot |-> s, up |-> rec'[s].enabled, id |-> clock']
<1> USE DEF PromptInv
<1>1. /\ s \in Slots \ EmptySlots
      /\ monitor = None /\ monitor' # None
      /\ clock \in Nat /\ clock' = clock + 1
      /\ meta'.slot = s /\ meta'.id = clock'
      /\ meta'.code = meta.code
      /\ \A t \in Slots \ {s} : rec'[t].enabled = rec[t].enabled
      /\ rec'[s].enabled = ~rec[s].enabled
      /\ rec[s].enabled \in BOOLEAN
      /\ UNCHANGED <<answers, power, rilEvent, seen, misled>>
  BY Starting
<1>2. /\ \A t \in Slots \ {s} : modem'[t] = modem[t]
      /\ modem'[s] # <<>>
      /\ modem'[s][Len(modem'[s])] = r
      /\ \A i \in DOMAIN modem'[s] :
            \/ i \in DOMAIN modem[s] /\ modem'[s][i] = modem[s][i]
            \/ i = Len(modem'[s]) /\ modem'[s][i] = r
  BY Starting
<1>3. \A t \in Slots : ~Waits(t) /\ \A i \in DOMAIN modem[t] :
          modem[t][i].id = 0 /\ t \notin EmptySlots /\ modem[t][i].up = power[t]
  BY <1>1 DEF QueuesAreOrdered, Waits
<1>4. meta.code = None /\ \A w \in answers : ~AtLeastS /\ w.slot \in EmptySlots /\ w.id = 0
  BY <1>1 DEF AnswersAreOwn
<1>5. clock' # 0 /\ \A t \in Slots : (Waits(t))' <=> t = s
  BY <1>1 DEF Waits
<1>6. QueuesAreOrdered'
  BY <1>1, <1>2, <1>3, <1>4, <1>5 DEF QueuesAreOrdered
<1>7. power[s] = rec[s].enabled
  BY <1>1, <1>3 DEF StateFollowsPower
<1>8. StateFollowsPower'
  BY <1>1, <1>2, <1>3, <1>5, <1>7 DEF StateFollowsPower
<1>9. AnswersAreOwn'
  BY <1>1, <1>4 DEF AnswersAreOwn
<1>10. NoAnswerIsLost'
  BY <1>1, <1>2, <1>5 DEF NoAnswerIsLost
<1>11. ListenersWillKnow'
  BY <1>1, <1>3, <1>5, <1>7 DEF ListenersWillKnow
<1> QED
  BY <1>6, <1>8, <1>9, <1>10, <1>11

(* The request that ends has found its own answer.                         *)
LEMMA PromptAnswer ==
    ASSUME PromptModem, Inv, PromptInv, NEW c \in Callers, FinishRequest(c)
    PROVE  /\ monitor = c /\ c # None /\ meta.slot \in Slots \ EmptySlots
           /\ meta.code # None /\ modem[meta.slot] = <<>> /\ Tells(meta.code)
           /\ \A w \in answers : ~AtLeastS /\ w.slot \in EmptySlots /\ w.id = 0
<1> DEFINE s == meta.slot
<1>1. monitor = c /\ c # None /\ s \in Slots \ EmptySlots
  BY ControllerAssumption DEF FinishRequest, Inv, RequestIsExclusive, TypeOK, Args
<1>2. meta.code # None
  <2> SUFFICES ASSUME meta.code = None PROVE FALSE
    OBVIOUS
  <2>1. ~RequestPending(meta.id)
    BY DEF FinishRequest, TimedOut, PromptModem
  <2>2. modem[s] # <<>>
    BY <1>1, <2>1 DEF RequestPending, PromptInv, NoAnswerIsLost
  <2>3. modem[s][Len(modem[s])].id = meta.id
    BY <1>1, <2>2 DEF PromptInv, StateFollowsPower, Waits
  <2>4. Len(modem[s]) \in DOMAIN modem[s]
    BY <1>1, <2>2, EmptySeq, LenProperties DEF Inv, TypeOK
  <2> QED
    BY <1>1, <2>1, <2>3, <2>4 DEF RequestPending
<1>3. modem[s] = <<>> /\ Tells(meta.code) /\ \A w \in answers : w.id # meta.id
  BY <1>2 DEF PromptInv, AnswersAreOwn
<1> QED
  BY <1>1, <1>2, <1>3 DEF PromptInv, AnswersAreOwn

LEMMA PromptFinishes ==
    ASSUME PromptModem, Inv, PromptInv, ListenersWillKnow, NEW c \in Callers, FinishRequest(c)
    PROVE  PromptInv' /\ ListenersWillKnow'
<1> DEFINE s == meta.slot
           r == [slot |-> s, up |-> ~rec[s].enabled, id |-> 0]
<1>1. /\ monitor = c /\ c # None /\ s \in Slots \ EmptySlots
      /\ meta.code # None /\ modem[s] = <<>> /\ Tells(meta.code)
      /\ \A w \in answers : ~AtLeastS /\ w.slot \in EmptySlots /\ w.id = 0
  BY PromptAnswer
<1>2. monitor' = None /\ meta' = NoMeta /\ UNCHANGED <<answers, power, rilEvent>>
  BY DEF FinishRequest, ClearMetadata
<1>3. meta'.code = None /\ \A t \in Slots : ~(Waits(t))'
  BY <1>2 DEF NoMeta, Waits
<1>4. \A t \in Slots \ {s} : ~Waits(t)
  BY DEF Waits
<1>5. \A t \in Slots \ {s} : \A i \in DOMAIN modem[t] :
          modem[t][i].id = 0 /\ t \notin EmptySlots /\ modem[t][i].up = power[t]
  BY <1>4 DEF PromptInv, QueuesAreOrdered
<1>6. \A t \in Slots \ EmptySlots : t # s => power[t] = rec[t].enabled
  BY <1>4 DEF PromptInv, StateFollowsPower
<1>7. AnswersAreOwn' /\ NoAnswerIsLost'
  BY <1>1, <1>2, <1>3 DEF AnswersAreOwn, NoAnswerIsLost
<1>8. resCode = meta.code
  BY <1>1 DEF resCode
<1>9. rec[s] \in Record /\ rec[s].enabled \in BOOLEAN /\ power[s] \in BOOLEAN
  BY <1>1 DEF Inv, TypeOK, Record
<1>10. CASE meta.code = "error"
  <2>1. requestFailed /\ shouldNotifyAllListeners
    BY <1>8, <1>10 DEF requestFailed, shouldNotifyAllListeners
  <2>2. rec' = [rec EXCEPT ![s] = Reverted(rec[s])] /\ seen' = Enabled(rec')
        /\ modem' = [modem EXCEPT ![s] = Append(@, r)]
    BY <2>1 DEF FinishRequest, Revert, notifyAllListeners
  <2>3. rec'[s].enabled = ~rec[s].enabled /\ \A t \in Slots \ {s} : rec'[t] = rec[t]
    BY <1>1, <1>9, <2>2 DEF Reverted, Inv, TypeOK
  <2>4. power[s] = ~rec[s].enabled
    BY <1>1, <1>9, <1>10 DEF Tells
  <2>5. r \in PowerRequest
    BY <1>1, <1>9 DEF PowerRequest
  <2>6. /\ \A t \in Slots \ {s} : modem'[t] = modem[t]
        /\ \A i \in DOMAIN modem'[s] :
              \/ i \in DOMAIN modem[s] /\ modem'[s][i] = modem[s][i]
              \/ i = Len(modem'[s]) /\ modem'[s][i] = r
    BY <1>1, <2>2, <2>5, Appended DEF Inv
  <2>7. \A i \in DOMAIN modem'[s] : modem'[s][i] = r
    BY <1>1, <2>6
  <2>8. QueuesAreOrdered'
    BY <1>1, <1>2, <1>5, <2>4, <2>6, <2>7 DEF QueuesAreOrdered
  <2>9. StateFollowsPower'
    BY <1>2, <1>3, <1>6, <2>3, <2>4 DEF StateFollowsPower
  <2>10. ListenersWillKnow'
    BY <2>2 DEF ListenersWillKnow, Enabled
  <2> QED
    BY <1>7, <2>8, <2>9, <2>10 DEF PromptInv
<1>11. CASE meta.code # "error"
  <2>1. ~requestFailed
    BY <1>1, <1>8, <1>11 DEF requestFailed, Tells
  <2>2. rec' = rec /\ modem' = modem /\ (seen' = Enabled(rec') \/ seen' = seen)
    BY <2>1 DEF FinishRequest, notifyAllListeners
  <2>3. power[s] = rec[s].enabled
    BY <1>1, <1>11 DEF Tells
  <2>4. \A t \in Slots : rilEvent \/ seen[t] = rec[t].enabled
    BY <1>4, <2>3 DEF ListenersWillKnow
  <2>5. QueuesAreOrdered'
    BY <1>1, <1>2, <1>5, <2>2 DEF QueuesAreOrdered
  <2>6. StateFollowsPower'
    BY <1>2, <1>3, <1>6, <2>2, <2>3 DEF StateFollowsPower
  <2>7. ListenersWillKnow'
    BY <1>2, <2>2, <2>4 DEF ListenersWillKnow, Enabled
  <2> QED
    BY <1>7, <2>5, <2>6, <2>7 DEF PromptInv
<1> QED
  BY <1>10, <1>11

LEMMA PromptListeners ==
    ASSUME PromptInv, ListenersWillKnow, UNCHANGED <<monitor, rec, seen>>, meta'.slot = meta.slot,
           rilEvent' = (rilEvent \/ power' # power)
    PROVE  ListenersWillKnow'
  BY DEF ListenersWillKnow, Waits

LEMMA PromptServes ==
    ASSUME PromptModem, Inv, PromptInv, ListenersWillKnow,
           NEW s \in Slots, NEW code \in {"ok", "already", "error"}, ModemAnswers(s, code)
    PROVE  PromptInv' /\ ListenersWillKnow'
<1> DEFINE r == Head(modem[s])
           w == [slot |-> s, code |-> code, id |-> r.id]
<1> USE DEF PromptInv
<1>1. /\ \A t \in Slots \ {s} : modem'[t] = modem[t]
      /\ r = modem[s][1] /\ r \in PowerRequest /\ 1 \in DOMAIN modem[s]
      /\ Len(modem[s]) \in Nat
      /\ Len(modem'[s]) = Len(modem[s]) - 1
      /\ 1 = Len(modem[s]) <=> modem'[s] = <<>>
      /\ \A i \in DOMAIN modem'[s] :
            i \in Nat /\ i + 1 \in DOMAIN modem[s] /\ modem'[s][i] = modem[s][i + 1]
  BY Served DEF Inv, ModemAnswers
<1>2. /\ code = "already" <=> power[s] = r.up
      /\ power' = [power EXCEPT ![s] = IF code = "ok" THEN r.up ELSE @]
      /\ rilEvent' = (rilEvent \/ power' # power)
      /\ answers' = IF IF AtLeastS THEN r.id = 0 ELSE code = "already"
                    THEN answers ELSE answers \union {w}
      /\ UNCHANGED <<clock, monitor, rec, meta, seen, misled>>
      /\ modem[s] # <<>>
  BY DEF ModemAnswers
<1>3. s \notin EmptySlots
  BY <1>1 DEF QueuesAreOrdered
<1>4. \A t \in Slots : (Waits(t))' <=> Waits(t)
  BY <1>2 DEF Waits
<1>5. ListenersWillKnow'
  BY <1>2, PromptListeners
<1>6. power \in [Slots -> BOOLEAN] /\ r.up \in BOOLEAN /\ rec[s].enabled \in BOOLEAN
  BY <1>1 DEF Inv, TypeOK, PowerRequest, Record
<1>7. \A t \in Slots \ {s} : power'[t] = power[t]
  BY <1>2, <1>6
<1>8. CASE r.id = 0
  <2>1. power[s] = r.up
    BY <1>1, <1>8 DEF QueuesAreOrdered
  <2>2. answers' = answers /\ power' = power
    BY <1>2, <1>6, <1>8, <2>1
  <2>3. Waits(s) => /\ modem[s][Len(modem[s])].id = meta.id /\ meta.id # 0
                    /\ 1 # Len(modem[s])
                    /\ Len(modem'[s]) \in DOMAIN modem'[s]
    <3> SUFFICES ASSUME Waits(s)
                 PROVE  /\ modem[s][Len(modem[s])].id = meta.id /\ meta.id # 0
                        /\ 1 # Len(modem[s])
                        /\ Len(modem'[s]) \in DOMAIN modem'[s]
      OBVIOUS
    <3>1. modem[s][Len(modem[s])].id = meta.id /\ meta.id # 0
      BY <1>2, <1>3 DEF StateFollowsPower, NoAnswerIsLost, Waits
    <3>2. 1 # Len(modem[s])
      BY <1>1, <1>8, <3>1
    <3>3. modem'[s] \in Seq(PowerRequest) /\ modem'[s] # <<>>
      BY <1>1, <3>2, TailFacts, HeadTailProperties DEF Inv, TypeOK, ModemAnswers
    <3> QED
      BY <3>1, <3>2, <3>3, EmptySeq, LenProperties
  <2>4. QueuesAreOrdered'
    BY <1>1, <1>2, <1>4, <2>2 DEF QueuesAreOrdered
  <2>5. StateFollowsPower'
    BY <1>1, <1>2, <1>4, <2>2, <2>3 DEF StateFollowsPower
  <2>6. modem[meta.slot] = <<>> => modem'[meta.slot] = modem[meta.slot]
    BY <1>1, <1>2 DEF ModemAnswers, Inv, TypeOK
  <2>7. \A k : Tells(k) => Tells(k)'
    BY <1>2, <2>2 DEF Tells
  <2>8. AnswersAreOwn'
    BY <1>2, <2>2, <2>6, <2>7 DEF AnswersAreOwn
  <2>9. monitor # None /\ modem[meta.slot] # <<>> => modem'[meta.slot] # <<>>
    BY <1>1, <2>3 DEF Waits, ModemAnswers, Inv, TypeOK
  <2>10. NoAnswerIsLost'
    BY <1>2, <2>2, <2>9 DEF NoAnswerIsLost
  <2> QED
    BY <1>5, <2>4, <2>5, <2>8, <2>10
<1>9. CASE r.id # 0
  <2>1. /\ Waits(s) /\ r.id = meta.id /\ 1 = Len(modem[s])
        /\ r.up = rec[s].enabled /\ meta.code = None
    BY <1>1, <1>9 DEF QueuesAreOrdered
  <2>2. monitor # None /\ meta.slot = s /\ modem'[s] = <<>>
    BY <1>1, <2>1 DEF Waits
  <2>3. power[s] # rec[s].enabled
    BY <1>2, <1>3, <2>1 DEF StateFollowsPower
  <2>4. code # "already" /\ answers' = answers \union {w}
    BY <1>2, <1>9, <2>1, <2>3
  <2>5. power'[s] = IF code = "ok" THEN rec[s].enabled ELSE power[s]
    BY <1>2, <1>6, <2>1
  <2>6. Tells(code)'
    BY <1>2, <1>6, <2>2, <2>3, <2>4, <2>5 DEF Tells
  <2>7. \A u \in answers : ~AtLeastS /\ u.slot \in EmptySlots /\ u.id = 0
    BY <1>2, <2>2 DEF AnswersAreOwn
  <2>8. QueuesAreOrdered'
    BY <1>1, <1>2, <1>4, <1>7, <2>2 DEF QueuesAreOrdered
  <2>9. StateFollowsPower'
    BY <1>1, <1>2, <1>4, <1>7, <2>1, <2>2 DEF StateFollowsPower
  <2>10. AnswersAreOwn'
    BY <1>2, <2>1, <2>2, <2>4, <2>6, <2>7 DEF AnswersAreOwn
  <2>11. w \in answers' /\ w.id = meta.id /\ meta'.id # 0 /\ meta' = meta
    BY <1>2, <1>9, <2>1, <2>4
  <2>12. NoAnswerIsLost'
    BY <2>11 DEF NoAnswerIsLost
  <2> QED
    BY <1>5, <2>8, <2>9, <2>10, <2>12
<1> QED
  BY <1>8, <1>9

LEMMA Delivering ==
    ASSUME Inv, NEW w \in answers, DeliverAnswer(w)
    PROVE  /\ answers' = answers \ {w}
           /\ meta'.slot = meta.slot /\ meta'.id = meta.id
           /\ UNCHANGED <<clock, monitor, rec, modem, power, rilEvent, seen, misled>>
           /\ IF Accepts(w) THEN meta'.code = w.code /\ meta'.from = w.id ELSE meta' = meta
           /\ w \in Answer /\ w.code # None
<1>1. w \in Answer /\ meta \in MetaType
  BY DEF Inv, TypeOK
<1>2. w.code # None
  BY <1>1 DEF Answer, None
<1>3. answers' = answers \ {w}
      /\ UNCHANGED <<clock, monitor, rec, modem, power, rilEvent, seen, misled>>
  BY DEF DeliverAnswer
<1>4. CASE Accepts(w)
  BY <1>1, <1>2, <1>3, <1>4 DEF DeliverAnswer, MetaType
<1>5. CASE ~Accepts(w)
  BY <1>1, <1>2, <1>3, <1>5 DEF DeliverAnswer
<1> QED
  BY <1>4, <1>5

LEMMA PromptDelivers ==
    ASSUME Inv, PromptInv, ListenersWillKnow, NEW w \in answers, DeliverAnswer(w)
    PROVE  PromptInv' /\ ListenersWillKnow'
<1> USE DEF PromptInv
<1>1. /\ answers' = answers \ {w}
      /\ meta'.slot = meta.slot /\ meta'.id = meta.id
      /\ UNCHANGED <<clock, monitor, rec, modem, power, rilEvent, seen, misled>>
      /\ IF Accepts(w) THEN meta'.code = w.code /\ meta'.from = w.id ELSE meta' = meta
      /\ w \in Answer /\ w.code # None
  BY Delivering
<1>2. \A t \in Slots : (Waits(t))' <=> Waits(t)
  BY <1>1 DEF Waits
<1>3. \A k : Tells(k)' <=> Tells(k)
  BY <1>1 DEF Tells
<1>4. ListenersWillKnow'
  BY <1>1, <1>2 DEF ListenersWillKnow
<1>5. StateFollowsPower'
  BY <1>1, <1>2 DEF StateFollowsPower
<1>6. CASE ~AtLeastS /\ w.slot \in EmptySlots /\ w.id = 0
  <2>1. ~Accepts(w)
    BY <1>6, ControllerAssumption DEF Accepts, Inv, RequestIsExclusive
  <2>2. meta' = meta
    BY <1>1, <2>1
  <2>3. QueuesAreOrdered' /\ AnswersAreOwn'
    BY <1>1, <1>2, <1>3, <2>2 DEF QueuesAreOrdered, AnswersAreOwn
  <2>4. NoAnswerIsLost'
    BY <1>1, <1>6, <2>2 DEF NoAnswerIsLost
  <2> QED
    BY <1>4, <1>5, <2>3, <2>4
<1>7. CASE ~(~AtLeastS /\ w.slot \in EmptySlots /\ w.id = 0)
  <2>1. /\ monitor # None /\ w.slot = meta.slot /\ w.id = meta.id
        /\ modem[meta.slot] = <<>> /\ meta.code = None /\ Tells(w.code)
    BY <1>7 DEF AnswersAreOwn
  <2>2. meta'.code = w.code /\ meta'.from = w.id
    BY <1>1, <2>1 DEF Accepts
  <2>3. QueuesAreOrdered'
    <3>1. \A t \in Slots : Waits(t) => modem[t] = <<>>
      BY <2>1 DEF Waits
    <3> QED
      BY <1>1, <1>2, <3>1 DEF QueuesAreOrdered
  <2>4. \A u \in answers' : ~AtLeastS /\ u.slot \in EmptySlots /\ u.id = 0
    <3> SUFFICES ASSUME NEW u \in answers, u # w, ~(~AtLeastS /\ u.slot \in EmptySlots /\ u.id = 0)
                 PROVE  FALSE
      BY <1>1
    <3>1. u.slot = meta.slot /\ u.id = meta.id /\ Tells(u.code)
      BY DEF AnswersAreOwn
    <3>3. u \in Answer
      BY DEF Inv, TypeOK
    <3>2. u.code = w.code
      BY <2>1, <3>1 DEF Tells
    <3> QED
      BY <1>1, <2>1, <3>1, <3>2, <3>3 DEF Answer
  <2>5. meta.id # 0
    BY <2>1 DEF NoAnswerIsLost
  <2>6. AnswersAreOwn'
    BY <1>1, <1>3, <2>1, <2>2, <2>4, <2>5 DEF AnswersAreOwn
  <2>7. NoAnswerIsLost'
    BY <1>1, <2>1, <2>2, <2>5 DEF NoAnswerIsLost
  <2> QED
    BY <1>4, <1>5, <2>3, <2>6, <2>7
<1> QED
  BY <1>6, <1>7

LEMMA PromptOther ==
    ASSUME Inv, PromptInv, ListenersWillKnow, NEW s \in Slots, OtherCardChanges(s)
    PROVE  PromptInv' /\ ListenersWillKnow'
<1>1. /\ ~AtLeastS /\ s \in EmptySlots
      /\ answers' = answers \union {[slot |-> s, code |-> "ok", id |-> 0]}
      /\ UNCHANGED <<clock, monitor, rec, meta, modem, power, rilEvent, seen, misled>>
  BY DEF OtherCardChanges
<1>2. QueuesAreOrdered' /\ StateFollowsPower' /\ ListenersWillKnow' /\ NoAnswerIsLost'
  BY <1>1 DEF PromptInv, QueuesAreOrdered, StateFollowsPower, ListenersWillKnow, NoAnswerIsLost,
     Waits
<1>3. \A k : Tells(k)' <=> Tells(k)
  BY <1>1 DEF Tells
<1>4. meta.code # None => meta.id # 0
  BY DEF PromptInv, AnswersAreOwn, NoAnswerIsLost
<1>5. AnswersAreOwn'
  BY <1>1, <1>3, <1>4 DEF PromptInv, AnswersAreOwn
<1> QED
  BY <1>2, <1>5 DEF PromptInv

LEMMA PromptStep ==
    ASSUME PromptModem, Inv, PromptInv, ListenersWillKnow, [Next]_vars
    PROVE  PromptInv' /\ ListenersWillKnow'
<1>1. CASE \/ SetAirplaneMode \/ DeliverRilEvent \/ UNCHANGED vars
           \/ \E c \in Callers : Call(c) \/ Abort(c)
  <2>1. UNCHANGED world /\ (seen' = Enabled(rec) \/ UNCHANGED <<seen, rilEvent>>)
    BY <1>1, QuietSteps
  <2>2. ListenersWillKnow'
    BY <2>1 DEF world, ListenersWillKnow, Waits, Enabled
  <2> QED
    BY <2>1, <2>2, PromptQuiet
<1>2. ASSUME NEW c \in Callers, StartRequest(c) PROVE PromptInv' /\ ListenersWillKnow'
  BY <1>2, PromptStarts
<1>3. ASSUME NEW c \in Callers, FinishRequest(c) PROVE PromptInv' /\ ListenersWillKnow'
  BY <1>3, PromptFinishes
<1>4. ASSUME NEW s \in Slots, ModemStep(s) PROVE PromptInv' /\ ListenersWillKnow'
  BY <1>4, PromptServes DEF ModemStep, ModemIgnoresRequest, PromptModem
<1>5. ASSUME NEW w \in answers, DeliverAnswer(w) PROVE PromptInv' /\ ListenersWillKnow'
  BY <1>5, PromptDelivers
<1>6. ASSUME NEW s \in Slots, OtherCardChanges(s) PROVE PromptInv' /\ ListenersWillKnow'
  BY <1>6, PromptOther
<1> QED
  BY <1>1, <1>2, <1>3, <1>4, <1>5, <1>6 DEF Next, Thread

LEMMA PromptHolds == ASSUME PromptModem PROVE Spec => [](PromptInv /\ ListenersWillKnow)
<1>1. Inv /\ PromptInv /\ ListenersWillKnow /\ [Next]_vars => PromptInv' /\ ListenersWillKnow'
  BY PromptStep
<1> QED
  BY PromptInit, <1>1, Invariance, PTL DEF Spec

(* What is persisted agrees with the SIM once everything has settled: with *)
(* a modem that answers, with success or an error, the revert in           *)
(* handleOnSetSimPowerStateForSlotFinished undoes the early persist of     *)
(* setSimState, for any number of threads and slots.                       *)
THEOREM RecordsArePower == ASSUME PromptModem PROVE Spec => []RecordMatchesPower
<1>1. PromptInv => RecordMatchesPower
  BY DEF PromptInv, StateFollowsPower, RecordMatchesPower, Settled, Waits
<1> QED
  BY <1>1, PromptHolds, PTL

(* The listeners have read what is persisted once everything has settled:  *)
(* every path of setSimState notifies them, or has changed the power, of   *)
(* which the radio layer tells them.                                       *)
THEOREM ListenersKnow == ASSUME PromptModem PROVE Spec => []ListenersAreUpToDate
<1>1. Inv /\ ListenersWillKnow => ListenersAreUpToDate
  <2> SUFFICES ASSUME Inv, ListenersWillKnow, Settled PROVE seen = Enabled(rec)
    BY DEF ListenersAreUpToDate
  <2>1. \A s \in Slots : seen[s] = rec[s].enabled
    BY DEF ListenersWillKnow, Settled, Waits
  <2> QED
    BY <2>1 DEF Inv, TypeOK, Enabled
<1> QED
  BY <1>1, Invariance, PromptHolds, PTL

-----------------------------------------------------------------------------
(* Callbacks, and a modem that may ignore requests.                        *)

LEMMA CallbacksStep ==
    ASSUME AtLeastS, ~ModemIsLate, Inv, CallbacksAreOwn, [Next]_vars
    PROVE  CallbacksAreOwn'
<1>1. CASE \/ SetAirplaneMode \/ DeliverRilEvent \/ UNCHANGED vars
           \/ \E c \in Callers : Call(c) \/ Abort(c)
  BY <1>1, QuietSteps DEF world, CallbacksAreOwn, Waits
<1>2. ASSUME NEW c \in Callers, StartRequest(c) PROVE CallbacksAreOwn'
  <2> DEFINE s == arg[c].slot
             r == [slot |-> s, up |-> rec'[s].enabled, id |-> clock']
  <2>1. /\ monitor = None /\ monitor' # None
        /\ meta'.slot = s /\ meta'.id = clock' /\ meta'.code = meta.code
        /\ \A t \in Slots \ {s} : modem'[t] = modem[t]
        /\ \A i \in DOMAIN modem'[s] :
              \/ i \in DOMAIN modem[s] /\ modem'[s][i] = modem[s][i]
              \/ i = Len(modem'[s]) /\ modem'[s][i] = r
        /\ answers' = answers
    BY <1>2, Starting
  <2>2. /\ meta.code = None /\ answers = {}
        /\ \A t \in Slots : \A i \in DOMAIN modem[t] : modem[t][i].id = 0
    BY <2>1 DEF CallbacksAreOwn, Waits
  <2> QED
    BY <2>1, <2>2 DEF CallbacksAreOwn, Waits
<1>3. ASSUME NEW c \in Callers, FinishRequest(c) PROVE CallbacksAreOwn'
  <2> DEFINE s == meta.slot
             r == [slot |-> s, up |-> ~rec[s].enabled, id |-> 0]
  <2>1. /\ s \in Slots /\ meta' = NoMeta /\ answers' = answers
        /\ modem' = [modem EXCEPT ![s] = Append(@, r)] \/ modem' = modem
    BY <1>3, ControllerAssumption
    DEF FinishRequest, Inv, RequestIsExclusive, TypeOK, Args, ClearMetadata, Revert
  <2>2. answers = {} /\ \A t \in Slots : \A i \in DOMAIN modem[t] : modem[t][i].id = 0
    <3>1. CASE meta.code # None
      BY <3>1 DEF CallbacksAreOwn
    <3>2. CASE ~RequestPending(meta.id)
      BY <3>2 DEF CallbacksAreOwn, RequestPending
    <3> QED
      BY <1>3, <3>1, <3>2 DEF FinishRequest, TimedOut
  <2>3. r \in PowerRequest
    BY <2>1 DEF PowerRequest, Inv, TypeOK, Record
  <2>4. \A t \in Slots : \A i \in DOMAIN modem'[t] : modem'[t][i].id = 0
    <3>1. CASE modem' = [modem EXCEPT ![s] = Append(@, r)]
      BY <2>1, <2>2, <2>3, <3>1, Appended DEF Inv
    <3>2. CASE modem' = modem
      BY <2>2, <3>2
    <3> QED
      BY <2>1, <3>1, <3>2
  <2> QED
    BY <2>1, <2>2, <2>4 DEF CallbacksAreOwn, NoMeta
<1>4. ASSUME NEW s \in Slots, ModemStep(s) PROVE CallbacksAreOwn'
  <2> DEFINE r == Head(modem[s])
  <2>1. /\ \A t \in Slots \ {s} : modem'[t] = modem[t]
        /\ r = modem[s][1] /\ 1 \in DOMAIN modem[s]
        /\ Len(modem[s]) \in Nat
        /\ Len(modem'[s]) = Len(modem[s]) - 1
        /\ 1 = Len(modem[s]) <=> modem'[s] = <<>>
        /\ \A i \in DOMAIN modem'[s] :
              i \in Nat /\ i + 1 \in DOMAIN modem[s] /\ modem'[s][i] = modem[s][i + 1]
    BY <1>4, Served DEF Inv, ModemStep, ModemAnswers, ModemIgnoresRequest
  <2>2. /\ UNCHANGED <<monitor, meta>>
        /\ \/ answers' = answers
           \/ /\ r.id # 0
              /\ \E k \in {"ok", "already", "error"} :
                    answers' = answers \union {[slot |-> s, code |-> k, id |-> r.id]}
    <3>1. ASSUME NEW k \in {"ok", "already", "error"}, ModemAnswers(s, k)
          PROVE  /\ UNCHANGED <<monitor, meta>>
                 /\ \/ answers' = answers
                    \/ /\ r.id # 0
                       /\ answers' = answers \union {[slot |-> s, code |-> k, id |-> r.id]}
      BY <3>1 DEF ModemAnswers
    <3>2. CASE ModemIgnoresRequest(s)
      BY <3>2 DEF ModemIgnoresRequest
    <3> QED
      BY <1>4, <3>1, <3>2 DEF ModemStep
  <2>3. \A t \in Slots : (Waits(t))' <=> Waits(t)
    BY <2>2 DEF Waits
  <2>4. CASE answers' = answers
    <3>1. \A i \in DOMAIN modem'[s] : modem'[s][i].id # 0 =>
             /\ Waits(s) /\ modem'[s][i].id = meta.id /\ i = Len(modem'[s])
             /\ meta.code = None /\ answers = {}
      <4> SUFFICES ASSUME NEW i \in DOMAIN modem'[s], modem'[s][i].id # 0
                   PROVE  /\ Waits(s) /\ modem'[s][i].id = meta.id /\ i = Len(modem'[s])
                          /\ meta.code = None /\ answers = {}
        OBVIOUS
      <4>1. i \in Nat /\ i + 1 \in DOMAIN modem[s] /\ modem'[s][i] = modem[s][i + 1]
        BY <2>1
      <4>2. /\ Waits(s) /\ modem[s][i + 1].id = meta.id /\ i + 1 = Len(modem[s])
            /\ meta.code = None /\ answers = {}
        BY <4>1 DEF CallbacksAreOwn
      <4> QED
        BY <2>1, <4>1, <4>2
    <3>2. \A t \in Slots \ {s} : \A i \in DOMAIN modem'[t] : modem'[t][i].id # 0 =>
             /\ Waits(t) /\ modem'[t][i].id = meta.id /\ i = Len(modem'[t])
             /\ meta.code = None /\ answers = {}
      BY <2>1 DEF CallbacksAreOwn
    <3> QED
      BY <2>2, <2>3, <2>4, <3>1, <3>2 DEF CallbacksAreOwn
  <2>5. CASE answers' # answers
    <3>1. r.id # 0 /\ Waits(s) /\ r.id = meta.id /\ 1 = Len(modem[s])
          /\ meta.code = None /\ answers = {}
      BY <2>1, <2>2, <2>5 DEF CallbacksAreOwn
    <3>2. \A t \in Slots : \A i \in DOMAIN modem'[t] : modem'[t][i].id = 0
      <4>1. \A t \in Slots \ {s} : ~Waits(t)
        BY <3>1 DEF Waits
      <4>2. modem'[s] = <<>>
        BY <2>1, <3>1
      <4> QED
        BY <2>1, <4>1, <4>2 DEF CallbacksAreOwn
    <3> QED
      BY <2>2, <2>5, <3>1, <3>2 DEF CallbacksAreOwn, Waits
  <2> QED
    BY <2>4, <2>5
<1>5. ASSUME NEW w \in answers, DeliverAnswer(w) PROVE CallbacksAreOwn'
  <2>1. /\ answers' = answers \ {w}
        /\ meta'.slot = meta.slot /\ meta'.id = meta.id
        /\ UNCHANGED <<monitor, modem>>
        /\ meta'.code = w.code /\ meta'.from = w.id
    BY <1>5, Delivering DEF Accepts
  <2>2. /\ monitor # None /\ w.id = meta.id /\ answers = {w}
        /\ \A t \in Slots : \A i \in DOMAIN modem[t] : modem[t][i].id = 0
    BY DEF CallbacksAreOwn
  <2> QED
    BY <2>1, <2>2 DEF CallbacksAreOwn
<1>6. ASSUME NEW s \in Slots, OtherCardChanges(s) PROVE CallbacksAreOwn'
  BY <1>6 DEF OtherCardChanges
<1> QED
  BY <1>1, <1>2, <1>3, <1>4, <1>5, <1>6 DEF Next, Thread

(* The response code a waiting request finds in the shared bundle is the   *)
(* answer to this request: with a modem that answers within the three      *)
(* seconds and, before Android 12, ignores nothing.                        *)
THEOREM AnswerIsForRequest ==
    ASSUME ~ModemIsLate, AtLeastS \/ ~ModemIgnores
    PROVE  Spec => []AnswerMatchesRequest
<1>1. CASE AtLeastS
  <2>1. Init => CallbacksAreOwn
    <3> SUFFICES ASSUME Init PROVE CallbacksAreOwn
      OBVIOUS
    <3>1. meta.code = None /\ answers = {} /\ \A s \in Slots : modem[s] = <<>>
      BY DEF Init, NoMeta
    <3> QED
      BY <3>1 DEF CallbacksAreOwn
  <2>2. Inv /\ CallbacksAreOwn /\ [Next]_vars => CallbacksAreOwn'
    BY <1>1, CallbacksStep
  <2>3. CallbacksAreOwn => AnswerMatchesRequest
    BY DEF CallbacksAreOwn, AnswerMatchesRequest
  <2> QED
    BY <2>1, <2>2, <2>3, Invariance, PTL DEF Spec
<1>2. CASE ~AtLeastS
  <2>1. PromptModem
    BY <1>2 DEF PromptModem
  <2>2. PromptInv => AnswerMatchesRequest
    BY DEF PromptInv, AnswersAreOwn, AnswerMatchesRequest
  <2>3. Spec => [](PromptInv /\ ListenersWillKnow)
    BY <2>1, PromptHolds
  <2> QED
    BY <2>2, <2>3, PTL
<1> QED
  BY <1>1, <1>2

-----------------------------------------------------------------------------
(* Status broadcasts, and a modem that may ignore requests.                *)

LEMMA SilentInit == Init => SilentInv
<1> SUFFICES ASSUME Init PROVE SilentInv
  OBVIOUS
<1>1. /\ monitor = None /\ meta.from = 0 /\ answers = {} /\ clock = 0
      /\ \A s \in Slots : modem[s] = <<>> /\ rec[s].enabled = TRUE
  BY DEF Init, NoMeta
<1> QED
  BY <1>1 DEF SilentInv, OwnIsLast, OwnAnswerTells, DisabledStaysDown, IdsAreOld

LEMMA SilentStarts ==
    ASSUME Inv, SilentInv, NEW c \in Callers, StartRequest(c)
    PROVE  SilentInv'
<1> DEFINE s == arg[c].slot
           r == [slot |-> s, up |-> rec'[s].enabled, id |-> clock']
<1> USE DEF SilentInv
<1>1. /\ s \in Slots \ EmptySlots
      /\ monitor = None /\ monitor' # None
      /\ clock \in Nat /\ clock' = clock + 1
      /\ meta'.slot = s /\ meta'.id = clock'
      /\ meta'.code = meta.code /\ meta'.from = meta.from
      /\ \A t \in Slots \ {s} : rec'[t].enabled = rec[t].enabled
      /\ UNCHANGED <<answers, power, rilEvent, seen, misled>>
  BY Starting
<1>2. /\ \A t \in Slots \ {s} : modem'[t] = modem[t]
      /\ \A i \in DOMAIN modem'[s] :
            \/ i \in DOMAIN modem[s] /\ modem'[s][i] = modem[s][i]
            \/ i = Len(modem'[s]) /\ modem'[s][i] = r
  BY Starting
<1>3. \A t \in Slots : ~Waits(t) /\ ((Waits(t))' <=> t = s)
  BY <1>1 DEF Waits
<1>4. /\ \A t \in Slots : \A i \in DOMAIN modem[t] :
            modem[t][i] \in PowerRequest /\ modem[t][i].id \in Nat
      /\ \A w \in answers : w.id \in Nat
      /\ meta.from \in Nat
  <2>1. \A t \in Slots : \A i \in DOMAIN modem[t] : modem[t][i] \in PowerRequest
    <3> TAKE t \in Slots
    <3>1. modem[t] \in Seq(PowerRequest)
      BY DEF Inv, TypeOK
    <3> QED
      BY <3>1, ElementOfSeq, LenProperties
  <2> QED
    BY <2>1 DEF Inv, TypeOK, PowerRequest, Answer, MetaType
<1>5. /\ \A t \in Slots : \A i \in DOMAIN modem[t] :
            modem[t][i].id <= clock /\ modem[t][i].id # clock' /\ modem[t][i].id <= clock'
      /\ \A w \in answers : w.id # clock' /\ w.id <= clock'
      /\ meta.from # clock' /\ meta.from <= clock'
      /\ clock' # 0 /\ clock' <= clock'
  BY <1>1, <1>4 DEF IdsAreOld
<1>6. OwnIsLast'
  BY <1>1, <1>2, <1>5 DEF OwnIsLast
<1>7. OwnAnswerTells'
  BY <1>1, <1>5 DEF OwnAnswerTells
<1>8. DisabledStaysDown'
  BY <1>1, <1>2, <1>3 DEF DisabledStaysDown
<1>9. IdsAreOld'
  BY <1>1, <1>2, <1>5 DEF IdsAreOld
<1> QED
  BY <1>6, <1>7, <1>8, <1>9

LEMMA SilentFinishes ==
    ASSUME ~AtLeastS, ~ModemIsLate, Inv, SilentInv, NEW c \in Callers, FinishRequest(c)
    PROVE  SilentInv'
<1> DEFINE s == meta.slot
           r == [slot |-> s, up |-> ~rec[s].enabled, id |-> 0]
<1> USE DEF SilentInv
<1>1. monitor # None /\ s \in Slots \ EmptySlots
  BY ControllerAssumption DEF FinishRequest, Inv, RequestIsExclusive, TypeOK, Args
<1>2. /\ monitor' = None /\ meta' = NoMeta /\ UNCHANGED <<clock, answers, power>>
      /\ misled' = IF Misleading THEN misled \union {s} ELSE misled
      /\ IF requestFailed THEN Revert(s) ELSE UNCHANGED <<rec, modem>>
  BY DEF FinishRequest, ClearMetadata
<1>3. rec[s] \in Record /\ rec[s].enabled \in BOOLEAN /\ power[s] \in BOOLEAN /\ clock \in Nat
  BY <1>1 DEF Inv, TypeOK, Record
<1>4. r \in PowerRequest
  BY <1>1, <1>3 DEF PowerRequest
<1>5. /\ \A t \in Slots \ {s} : rec'[t] = rec[t] /\ modem'[t] = modem[t]
      /\ \A i \in DOMAIN modem'[s] :
            \/ i \in DOMAIN modem[s] /\ modem'[s][i] = modem[s][i]
            \/ requestFailed /\ modem'[s][i] = r
      /\ rec'[s].enabled = IF requestFailed THEN ~rec[s].enabled ELSE rec[s].enabled
  <2>1. CASE requestFailed
    <3>1. rec' = [rec EXCEPT ![s] = Reverted(rec[s])]
          /\ modem' = [modem EXCEPT ![s] = Append(@, r)]
      BY <1>2, <2>1 DEF Revert
    <3>2. rec'[s].enabled = ~rec[s].enabled /\ \A t \in Slots \ {s} : rec'[t] = rec[t]
      BY <1>1, <1>3, <3>1 DEF Reverted, Inv, TypeOK
    <3>3. /\ \A t \in Slots \ {s} : modem'[t] = modem[t]
          /\ \A i \in DOMAIN modem'[s] :
                \/ i \in DOMAIN modem[s] /\ modem'[s][i] = modem[s][i]
                \/ modem'[s][i] = r
      BY <1>1, <1>4, <3>1, Appended DEF Inv
    <3> QED
      BY <2>1, <3>2, <3>3
  <2>2. CASE ~requestFailed
    BY <1>2, <2>2
  <2> QED
    BY <2>1, <2>2
<1>6. OwnIsLast' /\ OwnAnswerTells'
  BY <1>2 DEF OwnIsLast, OwnAnswerTells
<1>7. IdsAreOld'
  <2>1. r.id <= clock /\ meta'.from <= clock
    BY <1>2, <1>3 DEF NoMeta
  <2> QED
    BY <1>2, <1>5, <2>1 DEF IdsAreOld
<1>8. s \notin misled' /\ ~rec'[s].enabled =>
         ~power[s] /\ \A i \in DOMAIN modem'[s] : ~modem'[s][i].up
  <2>1. CASE meta.code = None
    <3>1. requestFailed <=> ~rec[s].enabled
      BY <2>1 DEF requestFailed, resCode
    <3> QED
      BY <1>3, <1>5, <3>1
  <2>2. CASE Misleading
    BY <1>2, <2>2
  <2>3. CASE meta.code # None /\ ~Misleading
    <3>1. modem[s] = <<>> /\ Tells(meta.code)
      BY <1>1, <2>3 DEF OwnAnswerTells, Misleading
    <3>2. resCode = meta.code /\ (requestFailed <=> meta.code = "error")
      BY <2>3, <3>1 DEF resCode, requestFailed, Tells
    <3>3. power[s] = rec'[s].enabled
      BY <1>3, <1>5, <3>1, <3>2 DEF Tells
    <3>4. \A i \in DOMAIN modem'[s] : modem'[s][i] = r /\ rec'[s].enabled = ~rec[s].enabled
      BY <1>5, <3>1
    <3> QED
      BY <3>3, <3>4
  <2> QED
    BY <2>1, <2>2, <2>3
<1>9. DisabledStaysDown'
  <2>1. \A t \in Slots \ {s} : ~Waits(t)
    BY DEF Waits
  <2>2. misled \subseteq misled'
    BY <1>2
  <2> QED
    BY <1>2, <1>5, <1>8, <2>1, <2>2 DEF DisabledStaysDown
<1> QED
  BY <1>6, <1>7, <1>9

LEMMA SilentModem ==
    ASSUME ~AtLeastS, Inv, SilentInv, NEW s \in Slots, ModemStep(s)
    PROVE  SilentInv'
<1> DEFINE r == Head(modem[s])
           Given(k) == [slot |-> s, code |-> k, id |-> r.id]
<1> USE DEF SilentInv
<1>1. /\ \A t \in Slots \ {s} : modem'[t] = modem[t]
      /\ r = modem[s][1] /\ r \in PowerRequest /\ 1 \in DOMAIN modem[s]
      /\ modem[s] # <<>>
      /\ Len(modem[s]) \in Nat
      /\ Len(modem'[s]) = Len(modem[s]) - 1
      /\ 1 = Len(modem[s]) <=> modem'[s] = <<>>
      /\ \A i \in DOMAIN modem'[s] :
            i \in Nat /\ i + 1 \in DOMAIN modem[s] /\ modem'[s][i] = modem[s][i + 1]
  BY Served DEF Inv, ModemStep, ModemAnswers, ModemIgnoresRequest
<1>2. power \in [Slots -> BOOLEAN] /\ r.up \in BOOLEAN /\ rec[s].enabled \in BOOLEAN
  BY <1>1 DEF Inv, TypeOK, PowerRequest, Record
<1>3. /\ UNCHANGED <<clock, monitor, rec, meta, misled>>
      /\ \A t \in Slots \ {s} : power'[t] = power[t]
      /\ power'[s] \in {power[s], r.up}
      /\ \/ answers' = answers
         \/ \E k \in {"ok", "error"} :
               /\ answers' = answers \union {Given(k)}
               /\ power[s] # r.up
               /\ power'[s] = IF k = "ok" THEN r.up ELSE power[s]
  <2>1. ASSUME NEW k \in {"ok", "already", "error"}, ModemAnswers(s, k)
        PROVE  /\ UNCHANGED <<clock, monitor, rec, meta, misled>>
               /\ \A t \in Slots \ {s} : power'[t] = power[t]
               /\ power'[s] = IF k = "ok" THEN r.up ELSE power[s]
               /\ k = "already" <=> power[s] = r.up
               /\ answers' = IF k = "already" THEN answers ELSE answers \union {Given(k)}
    BY <1>2, <2>1 DEF ModemAnswers
  <2>2. CASE ModemIgnoresRequest(s)
    BY <2>2 DEF ModemIgnoresRequest
  <2> QED
    BY <2>1, <2>2 DEF ModemStep
<1>4. \A t \in Slots : (Waits(t))' <=> Waits(t)
  BY <1>3 DEF Waits
<1>5. \A w \in answers' : w \in answers \/ w.id = r.id
  BY <1>3
<1>6. ASSUME monitor # None, r.id = meta.id
      PROVE  /\ s = meta.slot /\ modem'[s] = <<>> /\ r.up = rec[s].enabled
             /\ meta.from # meta.id /\ \A w \in answers : w.id # meta.id
             /\ \A t \in Slots : \A i \in DOMAIN modem'[t] : modem'[t][i].id # meta.id
  <2>1. /\ s = meta.slot /\ 1 = Len(modem[s]) /\ r.up = rec[s].enabled
        /\ meta.from # meta.id /\ \A w \in answers : w.id # meta.id
    BY <1>1, <1>6 DEF OwnIsLast
  <2>2. \A t \in Slots \ {s} : \A i \in DOMAIN modem'[t] : modem'[t][i].id # meta.id
    BY <1>1, <1>6, <2>1 DEF OwnIsLast
  <2> QED
    BY <1>1, <2>1, <2>2
<1>7. OwnIsLast'
  <2> SUFFICES ASSUME monitor # None,
                      NEW t \in Slots, NEW i \in DOMAIN modem'[t], modem'[t][i].id = meta.id
               PROVE  /\ t = meta.slot /\ i = Len(modem'[t])
                      /\ modem'[t][i].up = rec[t].enabled
                      /\ meta.from # meta.id
                      /\ \A w \in answers' : w.id # meta.id
    <3>1. monitor # None => meta.id # 0
      BY DEF OwnIsLast
    <3> QED
      BY <1>3, <3>1 DEF OwnIsLast
  <2>1. r.id # meta.id
    BY <1>6
  <2>2. CASE t = s
    <3>1. i \in Nat /\ i + 1 \in DOMAIN modem[s] /\ modem'[s][i] = modem[s][i + 1]
      BY <1>1, <2>2
    <3>2. /\ s = meta.slot /\ i + 1 = Len(modem[s]) /\ modem[s][i + 1].up = rec[s].enabled
          /\ meta.from # meta.id /\ \A w \in answers : w.id # meta.id
      BY <2>2, <3>1 DEF OwnIsLast
    <3> QED
      BY <1>1, <1>5, <2>1, <2>2, <3>1, <3>2
  <2>3. CASE t # s
    BY <1>1, <1>5, <2>1, <2>3 DEF OwnIsLast
  <2> QED
    BY <2>2, <2>3
<1>8. OwnAnswerTells'
  <2>1. ASSUME monitor # None, modem[meta.slot] = <<>>, NEW k, Tells(k)
        PROVE  modem'[meta.slot] = <<>> /\ Tells(k)'
    <3>1. meta.slot \in Slots \ {s}
      BY <1>1, <2>1, ControllerAssumption DEF Inv, RequestIsExclusive, TypeOK, Args
    <3> QED
      BY <1>1, <1>3, <2>1, <3>1 DEF Tells
  <2>2. ASSUME monitor # None, NEW w \in answers', w.id = meta.id
        PROVE  modem'[meta.slot] = <<>> /\ Tells(w.code)'
    <3>1. CASE w \in answers
      BY <2>1, <2>2, <3>1 DEF OwnAnswerTells
    <3>2. CASE w \notin answers
      <4>1. PICK k \in {"ok", "error"} : /\ w = Given(k) /\ power[s] # r.up
                                         /\ power'[s] = IF k = "ok" THEN r.up ELSE power[s]
        BY <1>3, <3>2
      <4>2. s = meta.slot /\ modem'[s] = <<>> /\ r.up = rec[s].enabled
        BY <1>6, <2>2, <4>1
      <4> QED
        BY <1>3, <4>1, <4>2 DEF Tells
    <3> QED
      BY <3>1, <3>2
  <2> QED
    BY <1>3, <2>1, <2>2 DEF OwnAnswerTells
<1>9. DisabledStaysDown'
  BY <1>1, <1>2, <1>3, <1>4 DEF DisabledStaysDown
<1>10. IdsAreOld'
  BY <1>1, <1>3, <1>5 DEF IdsAreOld
<1> QED
  BY <1>7, <1>8, <1>9, <1>10

LEMMA SilentDelivers ==
    ASSUME Inv, SilentInv, NEW w \in answers, DeliverAnswer(w)
    PROVE  SilentInv'
<1> USE DEF SilentInv
<1>1. /\ answers' = answers \ {w}
      /\ meta'.slot = meta.slot /\ meta'.id = meta.id
      /\ UNCHANGED <<clock, monitor, rec, modem, power, rilEvent, seen, misled>>
      /\ IF Accepts(w) THEN meta'.code = w.code /\ meta'.from = w.id ELSE meta' = meta
  BY Delivering
<1>2. \A t \in Slots : (Waits(t))' <=> Waits(t)
  BY <1>1 DEF Waits
<1>3. \A k : Tells(k)' <=> Tells(k)
  BY <1>1 DEF Tells
<1>4. OwnIsLast'
  BY <1>1 DEF OwnIsLast
<1>5. OwnAnswerTells'
  BY <1>1, <1>3 DEF OwnAnswerTells
<1>6. DisabledStaysDown'
  BY <1>1, <1>2 DEF DisabledStaysDown
<1>7. IdsAreOld'
  BY <1>1 DEF IdsAreOld
<1> QED
  BY <1>4, <1>5, <1>6, <1>7

LEMMA SilentStep ==
    ASSUME ~AtLeastS, ~ModemIsLate, Inv, SilentInv, [Next]_vars
    PROVE  SilentInv'
<1>1. CASE \/ SetAirplaneMode \/ DeliverRilEvent \/ UNCHANGED vars
           \/ \E c \in Callers : Call(c) \/ Abort(c)
  BY <1>1, QuietSteps
  DEF world, SilentInv, OwnIsLast, OwnAnswerTells, DisabledStaysDown, IdsAreOld, Waits, Tells
<1>2. ASSUME NEW c \in Callers, StartRequest(c) PROVE SilentInv'
  BY <1>2, SilentStarts
<1>3. ASSUME NEW c \in Callers, FinishRequest(c) PROVE SilentInv'
  BY <1>3, SilentFinishes
<1>4. ASSUME NEW s \in Slots, ModemStep(s) PROVE SilentInv'
  BY <1>4, SilentModem
<1>5. ASSUME NEW w \in answers, DeliverAnswer(w) PROVE SilentInv'
  BY <1>5, SilentDelivers
<1>6. ASSUME NEW s \in Slots, OtherCardChanges(s) PROVE SilentInv'
  <2>1. /\ answers' = answers \union {[slot |-> s, code |-> "ok", id |-> 0]}
        /\ UNCHANGED <<clock, monitor, rec, meta, modem, power, misled>>
    BY <1>6 DEF OtherCardChanges
  <2>2. clock \in Nat /\ 0 <= clock
    BY DEF Inv, TypeOK
  <2> QED
    BY <2>1, <2>2
    DEF SilentInv, OwnIsLast, OwnAnswerTells, DisabledStaysDown, IdsAreOld, Waits, Tells
<1> QED
  BY <1>1, <1>2, <1>3, <1>4, <1>5, <1>6 DEF Next, Thread

(* A SIM believed to be disabled is never left powered, though the modem   *)
(* may ignore requests: before Android 12 a timeout while disabling is a   *)
(* failure too, and is reverted.  It holds for the slots where no request  *)
(* has taken the late answer to a revert for its own.                      *)
THEOREM DisabledIsDown ==
    ASSUME ~AtLeastS, ~ModemIsLate PROVE Spec => []DisabledMeansPoweredDown
<1>1. Inv /\ SilentInv /\ [Next]_vars => SilentInv'
  BY SilentStep
<1>2. Inv /\ SilentInv => DisabledMeansPoweredDown
  <2> SUFFICES ASSUME Inv, SilentInv, Settled,
                      NEW s \in Slots \ (EmptySlots \union misled), power[s]
               PROVE  rec[s].enabled
    BY DEF DisabledMeansPoweredDown
  <2>1. ~Waits(s)
    BY DEF Waits, Settled
  <2> QED
    BY <2>1 DEF SilentInv, DisabledStaysDown
<1> QED
  BY SilentInit, <1>1, <1>2, Invariance, PTL DEF Spec
====
