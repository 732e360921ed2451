------------------------ MODULE ForegroundServiceProofs ------------------------
(***************************************************************************)
(* ForegroundService, for any number of requests and deaths of the         *)
(* process: the service ends only when every request was served or given   *)
(* up, and a task that was marked as done never runs again.                *)
(***************************************************************************)
EXTENDS ForegroundService, SequenceTheorems, TLAPS

Starts(i) == main[i].what = "start"

(* The requests that wait for the worker, or to be queued for it.          *)
Pending == ElementsOf(tasks) \union {main[i].id : i \in {j \in DOMAIN main : Starts(j)}}

Served == done \union dropped

(* Without a record of the service no request awaits delivery.             *)
AckedIsRight ==
    /\ acked <= lastId
    /\ ~started => acked = lastId

(* What need not be delivered again is served; the rest is pending.        *)
NothingIsLost ==
    /\ 1..acked \subseteq Served
    /\ 1..lastId \subseteq Served \union Pending

(* Requests are queued in the order of their ids.                          *)
IdsAscend ==
    /\ \A i, j \in DOMAIN tasks : i < j => tasks[i] < tasks[j]
    /\ \A i, j \in DOMAIN main : i < j /\ Starts(i) /\ Starts(j) => main[i].id < main[j].id
    /\ \A i \in DOMAIN tasks, j \in DOMAIN main : Starts(j) => tasks[i] < main[j].id
    /\ \A id \in Pending : id <= lastId

(* An instance ends, and the next begins, after the start requests that    *)
(* need no other delivery.                                                 *)
EndsAfterMarks ==
    \A i \in DOMAIN main : ~Starts(i) =>
        /\ \A k \in DOMAIN tasks : tasks[k] <= acked
        /\ \A j \in DOMAIN main : j < i /\ Starts(j) => main[j].id <= acked

WorkerHasTask ==
    /\ worker # "idle" => tasks # <<>>
    /\ worker = "stopping" => Head(tasks) \in done

(* A task that was marked is never delivered again, nor pending.           *)
MarkedIsGone ==
    /\ marked \subseteq 1..acked
    /\ marked \intersect Pending = {}

Inv == /\ TypeOK /\ AckedIsRight /\ NothingIsLost /\ IdsAscend /\ EndsAfterMarks
       /\ WorkerHasTask /\ MarkedIsGone

-----------------------------------------------------------------------------
(* Sequences that grow and shrink.                                         *)

LEMMA AppendFacts ==
    ASSUME NEW S, NEW q \in Seq(S), NEW x \in S
    PROVE  LET p == Append(q, x)
           IN  /\ p \in Seq(S) /\ Len(q) \in Nat /\ Len(p) = Len(q) + 1
               /\ DOMAIN q = 1..Len(q) /\ DOMAIN p = 1..Len(q) + 1
               /\ p[Len(q) + 1] = x
               /\ \A i \in DOMAIN q : p[i] = q[i]
  BY AppendProperties, LenProperties

LEMMA TailFacts ==
    ASSUME NEW S, NEW q \in Seq(S), q # <<>>
    PROVE  /\ Len(q) \in Nat \ {0} /\ DOMAIN q = 1..Len(q) /\ 1 \in DOMAIN q
           /\ Head(q) = q[1] /\ q[1] \in S /\ Tail(q) \in Seq(S)
           /\ DOMAIN Tail(q) = 1..Len(q) - 1
           /\ \A i \in DOMAIN Tail(q) : i + 1 \in DOMAIN q /\ Tail(q)[i] = q[i + 1]
           /\ \A i \in DOMAIN q \ {1} : i - 1 \in DOMAIN Tail(q) /\ Tail(q)[i - 1] = q[i]
<1>1. Len(q) \in Nat /\ Len(q) >= 1 /\ 1 \in DOMAIN q /\ DOMAIN q = 1..Len(q)
  BY EmptySeq, LenProperties
<1>2. /\ Head(q) = q[1] /\ Head(q) \in S /\ Tail(q) \in Seq(S)
      /\ Len(Tail(q)) = Len(q) - 1
      /\ \A i \in 1..Len(Tail(q)) : Tail(q)[i] = q[i + 1]
  BY <1>1, HeadTailProperties
<1>3. DOMAIN Tail(q) = 1..Len(q) - 1
  BY <1>2, LenProperties
<1>4. \A i \in DOMAIN q \ {1} : i - 1 \in 1..Len(q) - 1 /\ (i - 1) + 1 = i
  BY <1>1
<1> QED
  BY <1>1, <1>2, <1>3, <1>4

LEMMA Elements ==
    ASSUME TypeOK
    PROVE  /\ \A k \in DOMAIN tasks : k \in Nat /\ tasks[k] \in Ids
           /\ \A i \in DOMAIN main : i \in Nat /\ main[i] \in Message
           /\ \A i \in DOMAIN main : Starts(i) => main[i].id \in Ids
           /\ \A id : id \in Pending <=>
                 \/ \E k \in DOMAIN tasks : tasks[k] = id
                 \/ \E i \in DOMAIN main : Starts(i) /\ main[i].id = id
           /\ lastId \in Nat /\ acked \in Nat /\ MaxStarts \in Nat
<1>1. tasks \in Seq(Ids) /\ main \in Seq(Message)
  BY DEF TypeOK
<1>2. \A k \in DOMAIN tasks : k \in Nat /\ tasks[k] \in Ids
  BY <1>1, ElementOfSeq, LenProperties
<1>3. \A i \in DOMAIN main : i \in Nat /\ main[i] \in Message
  BY <1>1, ElementOfSeq, LenProperties
<1>4. \A i \in DOMAIN main : Starts(i) => main[i].id \in Ids
  BY <1>3 DEF Starts, Message
<1> QED
  BY <1>2, <1>3, <1>4, ServiceAssumption DEF TypeOK, Pending, ElementsOf

LEMMA Messages ==
    ASSUME NEW id \in Ids, NEW b \in BOOLEAN
    PROVE  /\ Create \in Message /\ Destroy \in Message /\ StartMsg(id, b) \in Message
           /\ Create.what # "start" /\ Destroy.what # "start"
           /\ StartMsg(id, b).what = "start" /\ StartMsg(id, b).id = id
  BY DEF Message, Create, Destroy, StartMsg

-----------------------------------------------------------------------------
LEMMA InvInit == Init => Inv
<1> SUFFICES ASSUME Init PROVE Inv
  OBVIOUS
<1>1. tasks = <<>> /\ main = <<>> /\ acked = 0 /\ lastId = 0 /\ marked = {} /\ worker = "idle"
  BY DEF Init
<1>2. TypeOK
  <2>1. 0 \in 0..MaxStarts /\ 0 \in 0..MaxCrashes
    BY ServiceAssumption
  <2>2. <<>> \in Seq(Message) /\ <<>> \in Seq(Ids)
    BY EmptySeq
  <2> QED
    BY <2>1, <2>2 DEF Init, TypeOK
<1>3. DOMAIN tasks = {} /\ DOMAIN main = {}
  BY <1>1
<1>4. Pending = {}
  BY <1>2, <1>3, Elements
<1>5. 1..0 = {}
  OBVIOUS
<1>6. AckedIsRight /\ NothingIsLost
  BY <1>1, <1>5 DEF AckedIsRight, NothingIsLost
<1>7. IdsAscend /\ EndsAfterMarks
  BY <1>3, <1>4 DEF IdsAscend, EndsAfterMarks
<1>8. WorkerHasTask /\ MarkedIsGone
  BY <1>1, <1>4, <1>5 DEF WorkerHasTask, MarkedIsGone
<1> QED
  BY <1>2, <1>6, <1>7, <1>8 DEF Inv

(* The requests and the worker's task as they are.                         *)
LEMMA Untouched ==
    ASSUME Inv, TypeOK', UNCHANGED <<lastId, started, acked, main, tasks, marked>>,
           WorkerHasTask', done \subseteq done', dropped \subseteq dropped'
    PROVE  Inv'
<1>1. Pending' = Pending
  BY DEF Pending, ElementsOf, Starts
<1>2. AckedIsRight' /\ IdsAscend' /\ EndsAfterMarks' /\ MarkedIsGone'
  BY <1>1 DEF Inv, AckedIsRight, IdsAscend, EndsAfterMarks, MarkedIsGone, Starts
<1>3. NothingIsLost'
  BY <1>1 DEF Inv, NothingIsLost, Served
<1> QED
  BY <1>2, <1>3 DEF Inv

LEMMA StartKeeps == ASSUME Inv, StartAction PROVE Inv'
<1> DEFINE id == lastId + 1
           rest == IF started THEN main ELSE Append(main, Create)
           m == StartMsg(id, FALSE)
<1>1. /\ lastId' = id /\ id \in Ids /\ lastId \in Nat /\ acked \in Nat
      /\ main' = Append(rest, m)
      /\ started' = TRUE
      /\ UNCHANGED <<acked, worker, tasks, done, marked, dropped>>
  BY Elements DEF StartAction, Inv, TypeOK, Ids
<1>2. main \in Seq(Message) /\ Create \in Message /\ m \in Message
      /\ m.what = "start" /\ m.id = id /\ Create.what # "start"
  BY <1>1, Messages DEF Inv, TypeOK
<1>3. /\ rest \in Seq(Message) /\ Len(main) \in Nat /\ DOMAIN main = 1..Len(main)
      /\ Len(rest) \in Nat /\ Len(main) <= Len(rest) /\ DOMAIN rest = 1..Len(rest)
      /\ \A i \in DOMAIN main : rest[i] = main[i]
      /\ \A i \in DOMAIN rest \ DOMAIN main : ~started /\ rest[i] = Create /\ i = Len(main) + 1
  <2>1. CASE started
    BY <1>2, <2>1, LenProperties
  <2>2. CASE ~started
    <3> DEFINE p == Append(main, Create)
    <3>1. /\ p \in Seq(Message) /\ Len(main) \in Nat /\ Len(p) = Len(main) + 1
          /\ DOMAIN main = 1..Len(main) /\ DOMAIN p = 1..Len(main) + 1
          /\ p[Len(main) + 1] = Create
          /\ \A i \in DOMAIN main : p[i] = main[i]
      BY <1>2, AppendFacts
    <3>2. rest = p
      BY <2>2
    <3> HIDE DEF p, rest
    <3> QED
      BY <2>2, <3>1, <3>2
  <2> QED
    BY <2>1, <2>2
<1> HIDE DEF rest, m
<1>4. /\ main' \in Seq(Message) /\ DOMAIN main' = 1..Len(rest) + 1
      /\ main'[Len(rest) + 1] = m
      /\ \A i \in DOMAIN rest : main'[i] = rest[i]
  BY <1>1, <1>2, <1>3, AppendFacts
<1>5. /\ DOMAIN main \subseteq DOMAIN main'
      /\ \A i \in DOMAIN main' :
            \/ i \in DOMAIN main /\ main'[i] = main[i] /\ i < Len(rest) + 1
            \/ i = Len(rest) + 1 /\ main'[i] = m
            \/ ~started /\ main'[i] = Create /\ i = Len(main) + 1 /\ i < Len(rest) + 1
      /\ \A i \in DOMAIN main : main'[i] = main[i]
      /\ Len(rest) + 1 \in DOMAIN main'
  BY <1>3, <1>4
<1>6. TypeOK'
  <2>1. lastId' \in 0..MaxStarts
    BY <1>1 DEF Ids
  <2> QED
    BY <1>4, <2>1 DEF StartAction, Inv, TypeOK
<1>7. \A i \in DOMAIN main' : /\ i \in Nat
                               /\ (Starts(i))' <=> \/ i \in DOMAIN main /\ Starts(i)
                                                   \/ i = Len(rest) + 1
  BY <1>2, <1>3, <1>5, <1>6, Elements DEF Starts
<1>8. Pending' = Pending \union {id}
  <2>1. ASSUME NEW u \in Pending' PROVE u \in Pending \union {id}
    <3>1. CASE \E k \in DOMAIN tasks' : tasks'[k] = u
      BY <1>1, <3>1, Elements DEF Inv
    <3>2. ASSUME NEW i \in DOMAIN main', (Starts(i))', main'[i].id = u
          PROVE  u \in Pending \union {id}
      BY <1>2, <1>3, <1>5, <1>7, <3>2, Elements DEF Inv
    <3> QED
      <4> DEFINE A == \E k \in DOMAIN tasks' : tasks'[k] = u
                 B == \E i \in DOMAIN main' : (Starts(i))' /\ main'[i].id = u
      <4>1. A \/ B
        BY DEF Pending, ElementsOf, Starts
      <4> QED
        BY <3>1, <3>2, <4>1
  <2>2. ASSUME NEW u \in Pending PROVE u \in Pending'
    BY <1>1, <1>5, <2>2 DEF Pending, ElementsOf, Starts
  <2>3. id \in Pending'
    BY <1>2, <1>5 DEF Pending, Starts
  <2> QED
    BY <2>1, <2>2, <2>3
<1>9. AckedIsRight'
  BY <1>1 DEF Inv, AckedIsRight
<1>10. NothingIsLost'
  <2>1. 1..id \subseteq 1..lastId \union {id}
    BY <1>1
  <2> QED
    BY <1>1, <1>8, <2>1 DEF Inv, NothingIsLost, Served
<1>11. IdsAscend'
  <2>1. \A u \in Pending : u <= lastId /\ u < id /\ u <= id
    <3>1. \A u \in Pending : u \in Ids
      BY Elements DEF Inv
    <3> QED
      BY <1>1, <3>1 DEF Inv, IdsAscend, Ids
  <2>2. \A i \in DOMAIN main : Starts(i) => main[i].id < id
    BY <2>1, Elements DEF Inv
  <2>3. \A k \in DOMAIN tasks : tasks[k] < id
    BY <2>1, Elements DEF Inv
  <2>4. \A i, j \in DOMAIN main' : i < j /\ (Starts(i))' /\ (Starts(j))' => main'[i].id < main'[j].id
    <3> SUFFICES ASSUME NEW i \in DOMAIN main', NEW j \in DOMAIN main', i < j,
                        (Starts(i))', (Starts(j))'
                 PROVE  main'[i].id < main'[j].id
      OBVIOUS
    <3>1. i \in DOMAIN main /\ Starts(i) /\ main'[i] = main[i]
      BY <1>3, <1>5, <1>7
    <3>2. CASE j = Len(rest) + 1
      BY <1>2, <1>5, <2>2, <3>1, <3>2
    <3>3. CASE j # Len(rest) + 1
      BY <1>5, <1>7, <3>1, <3>3 DEF Inv, IdsAscend
    <3> QED
      BY <3>2, <3>3
  <2>5. \A k \in DOMAIN tasks', j \in DOMAIN main' : (Starts(j))' => tasks'[k] < main'[j].id
    <3> SUFFICES ASSUME NEW k \in DOMAIN tasks, NEW j \in DOMAIN main', (Starts(j))'
                 PROVE  tasks[k] < main'[j].id
      BY <1>1
    <3>1. CASE j = Len(rest) + 1
      BY <1>2, <1>5, <2>3, <3>1
    <3>2. CASE j # Len(rest) + 1
      BY <1>5, <1>7, <3>2 DEF Inv, IdsAscend
    <3> QED
      BY <3>1, <3>2
  <2>6. \A u \in Pending' : u <= lastId'
    BY <1>1, <1>8, <2>1
  <2>7. \A i, j \in DOMAIN tasks' : i < j => tasks'[i] < tasks'[j]
    BY <1>1 DEF Inv, IdsAscend
  <2> QED
    BY <2>4, <2>5, <2>6, <2>7 DEF IdsAscend
<1>12. EndsAfterMarks'
  <2> SUFFICES ASSUME NEW i \in DOMAIN main', ~(Starts(i))'
               PROVE  /\ \A k \in DOMAIN tasks : tasks[k] <= acked
                      /\ \A j \in DOMAIN main' : j < i /\ (Starts(j))' => main'[j].id <= acked
    BY <1>1 DEF EndsAfterMarks
  <2>1. i < Len(rest) + 1
    BY <1>3, <1>5, <1>7
  <2>2. CASE i \in DOMAIN main
    <3>1. ~Starts(i)
      BY <1>7, <2>2
    <3> QED
      BY <1>3, <1>5, <1>7, <2>1, <2>2, <3>1 DEF Inv, EndsAfterMarks
  <2>3. CASE i \notin DOMAIN main
    <3>1. \A u \in Pending : u <= acked
      BY <1>5, <2>1, <2>3 DEF Inv, AckedIsRight, IdsAscend
    <3> QED
      BY <1>3, <1>5, <1>7, <2>1, <3>1, Elements DEF Inv
  <2> QED
    BY <2>2, <2>3
<1>13. WorkerHasTask'
  BY <1>1 DEF Inv, WorkerHasTask
<1>14. MarkedIsGone'
  <2>1. id \notin marked
    BY <1>1 DEF Inv, MarkedIsGone, AckedIsRight
  <2> QED
    BY <1>1, <1>8, <2>1 DEF Inv, MarkedIsGone
<1> QED
  BY <1>6, <1>9, <1>10, <1>11, <1>12, <1>13, <1>14 DEF Inv

(* An instance begins or ends: the tasks at its worker need no delivery.   *)
LEMMA InstanceChanges ==
    ASSUME Inv, TypeOK', main # <<>>, ~Starts(1), main' = Tail(main), tasks' = <<>>,
           worker' = "idle", dropped \subseteq dropped',
           UNCHANGED <<lastId, started, acked, done, marked>>
    PROVE  Inv'
<1>1. /\ 1 \in DOMAIN main
      /\ \A i \in DOMAIN main' : i + 1 \in DOMAIN main /\ main'[i] = main[i + 1]
      /\ \A i \in DOMAIN main \ {1} : i - 1 \in DOMAIN main' /\ main'[i - 1] = main[i]
      /\ \A i \in DOMAIN main' : i \in Nat
  BY TailFacts, Elements DEF Inv, TypeOK
<1>2. DOMAIN tasks' = {}
  OBVIOUS
<1>3. \A u \in Pending : u \in Pending' \/ u \in 1..acked
  <2>1. \A k \in DOMAIN tasks : tasks[k] \in 1..acked
    BY <1>1, Elements DEF Inv, EndsAfterMarks, Ids
  <2>2. ASSUME NEW i \in DOMAIN main, Starts(i) PROVE main[i].id \in Pending'
    <3>1. i - 1 \in DOMAIN main' /\ main'[i - 1] = main[i]
      BY <1>1, <2>2
    <3> QED
      BY <2>2, <3>1 DEF Pending, Starts
  <2> QED
    BY <2>1, <2>2, Elements DEF Inv
<1>4. Pending' \subseteq Pending
  <2>1. \A u \in Pending' : \E i \in DOMAIN main' : (Starts(i))' /\ main'[i].id = u
    BY <1>2 DEF Pending, ElementsOf, Starts
  <2> QED
    BY <1>1, <2>1 DEF Pending, Starts
<1>5. AckedIsRight' /\ WorkerHasTask' /\ MarkedIsGone'
  BY <1>4 DEF Inv, AckedIsRight, WorkerHasTask, MarkedIsGone
<1>6. NothingIsLost'
  BY <1>3 DEF Inv, NothingIsLost, Served
<1>7. IdsAscend'
  <2>1. \A i, j \in DOMAIN main' : i < j => i + 1 < j + 1
    BY <1>1
  <2> QED
    BY <1>1, <1>2, <1>4, <2>1 DEF Inv, IdsAscend, Starts
<1>8. EndsAfterMarks'
  <2>1. \A i, j \in DOMAIN main' : i < j => i + 1 < j + 1
    BY <1>1
  <2> QED
    BY <1>1, <1>2, <2>1 DEF Inv, EndsAfterMarks, Starts
<1> QED
  BY <1>5, <1>6, <1>7, <1>8 DEF Inv

LEMMA QueueKeeps == ASSUME Inv, OnStartCommand PROVE Inv'
<1> DEFINE id == main[1].id
           n == Len(tasks) + 1
<1>1. /\ 1 \in DOMAIN main /\ Starts(1) /\ Head(main) = main[1]
      /\ main' = Tail(main) /\ main' \in Seq(Message)
      /\ \A i \in DOMAIN main' : i + 1 \in DOMAIN main /\ main'[i] = main[i + 1]
      /\ \A i \in DOMAIN main \ {1} : i - 1 \in DOMAIN main' /\ main'[i - 1] = main[i]
      /\ \A i \in DOMAIN main' : i \in Nat
  <2>1. /\ 1 \in DOMAIN main /\ Starts(1) /\ Head(main) = main[1]
        /\ main' = Tail(main) /\ main' \in Seq(Message)
    BY TailFacts DEF OnStartCommand, Handles, Starts, Inv, TypeOK
  <2>2. /\ \A i \in DOMAIN main' : i + 1 \in DOMAIN main /\ main'[i] = main[i + 1]
        /\ \A i \in DOMAIN main \ {1} : i - 1 \in DOMAIN main' /\ main'[i - 1] = main[i]
    BY <2>1, TailFacts DEF OnStartCommand, Handles, Inv, TypeOK
  <2> QED
    BY <2>1, <2>2, LenProperties
<1>2. id \in Ids /\ \A i \in DOMAIN main : i \in Nat
  BY <1>1, Elements DEF Inv
<1>3. /\ tasks' \in Seq(Ids) /\ Len(tasks) \in Nat
      /\ DOMAIN tasks = 1..Len(tasks) /\ DOMAIN tasks' = 1..n
      /\ tasks'[n] = id
      /\ \A k \in DOMAIN tasks : tasks'[k] = tasks[k]
  BY <1>1, <1>2, AppendFacts DEF OnStartCommand, Inv, TypeOK
<1>4. UNCHANGED <<lastId, started, acked, worker, done, marked, dropped>>
  BY DEF OnStartCommand
<1>5. TypeOK'
  <2>1. main[1].again \in BOOLEAN
    <3>1. main[1] \in Message
      BY <1>1, Elements DEF Inv
    <3> QED
      BY <3>1 DEF Message
  <2>2. lock' \in BOOLEAN /\ stopAt' \in BOOLEAN /\ timer' \in BOOLEAN
    BY <1>1, <2>1 DEF OnStartCommand, Inv, TypeOK
  <2> QED
    BY <1>1, <1>3, <2>2 DEF OnStartCommand, Inv, TypeOK
<1>6. /\ n \in DOMAIN tasks' /\ DOMAIN tasks \subseteq DOMAIN tasks'
      /\ \A k \in DOMAIN tasks' : k \in DOMAIN tasks \/ k = n
  BY <1>3
<1>7. Pending' = Pending
  <2>1. ASSUME NEW u \in Pending PROVE u \in Pending'
    <3>1. ASSUME NEW k \in DOMAIN tasks, tasks[k] = u PROVE u \in Pending'
      BY <1>3, <1>6, <3>1 DEF Pending, ElementsOf
    <3>2. ASSUME NEW i \in DOMAIN main, Starts(i), main[i].id = u PROVE u \in Pending'
      <4>1. CASE i = 1
        BY <1>3, <1>6, <3>2, <4>1 DEF Pending, ElementsOf
      <4>2. CASE i # 1
        <5>1. i - 1 \in DOMAIN main' /\ main'[i - 1] = main[i]
          BY <1>1, <4>2
        <5> QED
          BY <3>2, <5>1 DEF Pending, Starts
      <4> QED
        BY <4>1, <4>2
    <3> QED
      BY <3>1, <3>2, Elements DEF Inv
  <2>2. ASSUME NEW u \in Pending' PROVE u \in Pending
    <3>1. ASSUME NEW k \in DOMAIN tasks', tasks'[k] = u PROVE u \in Pending
      BY <1>1, <1>3, <1>6, <3>1, Elements DEF Inv
    <3>2. ASSUME NEW i \in DOMAIN main', (Starts(i))', main'[i].id = u PROVE u \in Pending
      BY <1>1, <3>2 DEF Pending, Starts
    <3> QED
      BY <3>1, <3>2 DEF Pending, ElementsOf, Starts
  <2> QED
    BY <2>1, <2>2
<1>8. AckedIsRight' /\ NothingIsLost' /\ MarkedIsGone'
  BY <1>4, <1>7 DEF Inv, AckedIsRight, NothingIsLost, Served, MarkedIsGone
<1>9. WorkerHasTask'
  <2>1. tasks # <<>> => tasks' # <<>> /\ Head(tasks') = Head(tasks)
    <3> SUFFICES ASSUME tasks # <<>> PROVE tasks' # <<>> /\ Head(tasks') = Head(tasks)
      OBVIOUS
    <3>1. 1 \in DOMAIN tasks /\ Head(tasks) = tasks[1]
      BY TailFacts DEF Inv, TypeOK
    <3>2. tasks' # <<>>
      BY <1>6
    <3>3. Head(tasks') = tasks'[1]
      BY <1>3, <3>2, TailFacts
    <3> QED
      BY <1>3, <3>1, <3>2, <3>3
  <2> QED
    BY <1>4, <2>1 DEF Inv, WorkerHasTask
<1>10. \A i, j \in DOMAIN main' : i < j => i + 1 < j + 1
  BY <1>1
<1>11. \A j \in DOMAIN main' : 1 < j + 1
  <2>1. main' \in Seq(Message)
    BY <1>1
  <2>2. \A j \in DOMAIN main' : j \in 1..Len(main')
    BY <2>1, LenProperties
  <2> QED
    BY <2>1, <2>2, LenProperties
<1>12. IdsAscend'
  <2>1. \A k \in DOMAIN tasks : tasks[k] < id
    BY <1>1 DEF Inv, IdsAscend
  <2>2. \A j \in DOMAIN main' : (Starts(j))' => id < main'[j].id
    BY <1>1, <1>11 DEF Inv, IdsAscend, Starts
  <2>3. \A i, j \in DOMAIN tasks' : i < j => tasks'[i] < tasks'[j]
    <3> SUFFICES ASSUME NEW i \in DOMAIN tasks', NEW j \in DOMAIN tasks', i < j
                 PROVE  tasks'[i] < tasks'[j]
      OBVIOUS
    <3>1. i \in DOMAIN tasks
      BY <1>3
    <3> QED
      BY <1>3, <1>6, <2>1, <3>1 DEF Inv, IdsAscend
  <2>4. \A i, j \in DOMAIN main' : i < j /\ (Starts(i))' /\ (Starts(j))' => main'[i].id < main'[j].id
    BY <1>1, <1>10 DEF Inv, IdsAscend, Starts
  <2>5. \A k \in DOMAIN tasks', j \in DOMAIN main' : (Starts(j))' => tasks'[k] < main'[j].id
    BY <1>1, <1>3, <1>6, <2>2 DEF Inv, IdsAscend, Starts
  <2>6. \A u \in Pending' : u <= lastId'
    BY <1>4, <1>7 DEF Inv, IdsAscend
  <2> QED
    BY <2>3, <2>4, <2>5, <2>6 DEF IdsAscend
<1>13. EndsAfterMarks'
  <2> SUFFICES ASSUME NEW i \in DOMAIN main', ~(Starts(i))'
               PROVE  /\ \A k \in DOMAIN tasks' : tasks'[k] <= acked
                      /\ \A j \in DOMAIN main' : j < i /\ (Starts(j))' => main'[j].id <= acked
    BY <1>4 DEF EndsAfterMarks
  <2>1. i + 1 \in DOMAIN main /\ ~Starts(i + 1)
    BY <1>1 DEF Starts
  <2>2. id <= acked
    BY <1>1, <1>11, <2>1 DEF Inv, EndsAfterMarks
  <2>3. \A k \in DOMAIN tasks : tasks[k] <= acked
    BY <2>1 DEF Inv, EndsAfterMarks
  <2>4. \A j \in DOMAIN main' : j < i /\ (Starts(j))' => main'[j].id <= acked
    BY <1>1, <1>10, <2>1 DEF Inv, EndsAfterMarks, Starts
  <2> QED
    BY <1>3, <1>6, <2>2, <2>3, <2>4
<1> QED
  BY <1>5, <1>8, <1>9, <1>12, <1>13 DEF Inv

(* Tasks are finished or given up, and the service may have to end.        *)
LEMMA MarksKeep ==
    ASSUME Inv, TypeOK', WorkerHasTask', lastId' = lastId,
           acked <= acked', acked' <= lastId, ~started' => acked' = lastId,
           Served \subseteq Served', 1..acked' \subseteq Served',
           main' = main \/ (main' = Append(main, Destroy) /\ acked' = lastId),
           \/ tasks' = tasks /\ marked' = marked
           \/ /\ tasks # <<>> /\ tasks' = Tail(tasks)
              /\ Head(tasks) \in 1..acked' /\ marked' = marked \union {Head(tasks)}
    PROVE  Inv'
<1>1. /\ DOMAIN main \subseteq DOMAIN main'
      /\ \A i \in DOMAIN main : main'[i] = main[i]
      /\ \A i \in DOMAIN main' :
            i \in DOMAIN main \/ (main'[i] = Destroy /\ acked' = lastId)
  <2>1. CASE main' = main
    BY ONLY <2>1
  <2>2. CASE main' = Append(main, Destroy) /\ acked' = lastId
    <3>1. main \in Seq(Message) /\ Destroy \in Message
      BY DEF Inv, TypeOK, Message, Destroy
    <3>2. /\ Len(main) \in Nat
          /\ DOMAIN main = 1..Len(main) /\ DOMAIN main' = 1..Len(main) + 1
          /\ main'[Len(main) + 1] = Destroy
          /\ \A i \in DOMAIN main : main'[i] = main[i]
      BY <2>2, <3>1, AppendFacts
    <3> QED
      BY <2>2, <3>2
  <2> QED
    BY <2>1, <2>2
<1>2. \A i \in DOMAIN main' : (Starts(i))' <=> i \in DOMAIN main /\ Starts(i)
  BY <1>1 DEF Starts, Destroy
<1>3. \A i \in DOMAIN main : i \in Nat /\ (Starts(i) => main[i].id \in Nat)
  BY Elements DEF Inv, Ids
<1>4. \A k \in DOMAIN tasks : k \in Nat /\ tasks[k] \in Nat
  BY Elements DEF Inv, Ids
<1>5. acked \in Nat /\ acked' \in Nat /\ lastId \in Nat
  BY DEF Inv, TypeOK
<1>6. \E d \in {0, 1} :
         /\ d = 0 => tasks' = tasks /\ marked' = marked
         /\ d = 1 => /\ 1 \in DOMAIN tasks /\ tasks[1] \in 1..acked'
                     /\ marked' = marked \union {tasks[1]}
         /\ \A k \in DOMAIN tasks' : k \in Nat \ {0} /\ k + d \in DOMAIN tasks /\ tasks'[k] = tasks[k + d]
         /\ \A k \in DOMAIN tasks : k = d \/ (k - d \in DOMAIN tasks' /\ tasks'[k - d] = tasks[k])
  <2>1. CASE tasks' = tasks /\ marked' = marked
    <3>1. \A k \in DOMAIN tasks : k \in Nat \ {0} /\ k + 0 = k /\ k - 0 = k
      BY LenProperties DEF Inv, TypeOK
    <3> QED
      BY <2>1, <3>1
  <2>2. CASE /\ tasks # <<>> /\ tasks' = Tail(tasks)
             /\ Head(tasks) \in 1..acked' /\ marked' = marked \union {Head(tasks)}
    <3>1. /\ 1 \in DOMAIN tasks /\ Head(tasks) = tasks[1] /\ tasks' \in Seq(Ids)
          /\ \A k \in DOMAIN tasks' : k + 1 \in DOMAIN tasks /\ tasks'[k] = tasks[k + 1]
          /\ \A k \in DOMAIN tasks \ {1} : k - 1 \in DOMAIN tasks' /\ tasks'[k - 1] = tasks[k]
      BY <2>2, TailFacts DEF Inv, TypeOK
    <3>2. \A k \in DOMAIN tasks' : k \in Nat \ {0}
      <4>1. DOMAIN tasks' = 1..Len(tasks')
        BY <3>1, LenProperties
      <4> QED
        BY <4>1
    <3> QED
      BY <2>2, <3>1, <3>2
  <2> QED
    BY <2>1, <2>2
<1>7. PICK d \in {0, 1} :
         /\ d = 0 => tasks' = tasks /\ marked' = marked
         /\ d = 1 => /\ 1 \in DOMAIN tasks /\ tasks[1] \in 1..acked'
                     /\ marked' = marked \union {tasks[1]}
         /\ \A k \in DOMAIN tasks' : k \in Nat \ {0} /\ k + d \in DOMAIN tasks /\ tasks'[k] = tasks[k + d]
         /\ \A k \in DOMAIN tasks : k = d \/ (k - d \in DOMAIN tasks' /\ tasks'[k - d] = tasks[k])
  BY <1>6
<1>8. Pending' \subseteq Pending
  <2>1. ASSUME NEW k \in DOMAIN tasks' PROVE tasks'[k] \in Pending
    BY <1>7, <2>1 DEF Pending, ElementsOf
  <2>2. ASSUME NEW i \in DOMAIN main', (Starts(i))' PROVE main'[i].id \in Pending
    BY <1>1, <1>2, <2>2 DEF Pending
  <2>3. \A u \in Pending' : \/ \E k \in DOMAIN tasks' : tasks'[k] = u
                            \/ \E i \in DOMAIN main' : (Starts(i))' /\ main'[i].id = u
    BY DEF Pending, ElementsOf, Starts
  <2> QED
    BY <2>1, <2>2, <2>3
<1>9. \A u \in Pending : u \in Pending' \/ (d = 1 /\ u = tasks[1])
  <2>1. ASSUME NEW k \in DOMAIN tasks, k # d PROVE tasks[k] \in Pending'
    BY <1>7, <2>1 DEF Pending, ElementsOf
  <2>2. ASSUME NEW i \in DOMAIN main, Starts(i) PROVE main[i].id \in Pending'
    BY <1>1, <2>2 DEF Pending, Starts
  <2>3. 0 \notin DOMAIN tasks
    BY LenProperties DEF Inv, TypeOK
  <2> QED
    BY <2>1, <2>2, <2>3, Elements DEF Inv
<1>10. AckedIsRight'
  BY DEF AckedIsRight
<1>11. NothingIsLost'
  BY <1>7, <1>9 DEF Inv, NothingIsLost
<1>12. IdsAscend'
  <2>1. \A i, j \in DOMAIN tasks' : i < j => i + d < j + d
    BY <1>7
  <2>2. \A i, j \in DOMAIN tasks' : i < j => tasks'[i] < tasks'[j]
    BY <1>7, <2>1 DEF Inv, IdsAscend
  <2>3. \A i, j \in DOMAIN main' : i < j /\ (Starts(i))' /\ (Starts(j))' => main'[i].id < main'[j].id
    BY <1>1, <1>2 DEF Inv, IdsAscend
  <2>4. \A k \in DOMAIN tasks', j \in DOMAIN main' : (Starts(j))' => tasks'[k] < main'[j].id
    BY <1>1, <1>2, <1>7 DEF Inv, IdsAscend
  <2> QED
    BY <1>8, <2>2, <2>3, <2>4 DEF Inv, IdsAscend
<1>13. EndsAfterMarks'
  <2> SUFFICES ASSUME NEW i \in DOMAIN main', ~(Starts(i))'
               PROVE  /\ \A k \in DOMAIN tasks' : tasks'[k] <= acked'
                      /\ \A j \in DOMAIN main' : j < i /\ (Starts(j))' => main'[j].id <= acked'
    BY DEF EndsAfterMarks
  <2>1. CASE i \in DOMAIN main
    <3>1. ~Starts(i)
      BY <1>2, <2>1
    <3>2. \A k \in DOMAIN tasks' : tasks'[k] <= acked'
      <4>1. \A k \in DOMAIN tasks : tasks[k] <= acked
        BY <2>1, <3>1 DEF Inv, EndsAfterMarks
      <4>2. \A k \in DOMAIN tasks : tasks[k] <= acked'
        BY <1>4, <1>5, <4>1
      <4> QED
        BY <1>7, <4>2
    <3>3. ASSUME NEW j \in DOMAIN main', j < i, (Starts(j))' PROVE main'[j].id <= acked'
      <4>1. j \in DOMAIN main /\ Starts(j) /\ main'[j] = main[j]
        BY <1>1, <1>2, <3>3
      <4>2. main[j].id <= acked
        BY <2>1, <3>1, <3>3, <4>1 DEF Inv, EndsAfterMarks
      <4> QED
        BY <1>3, <1>5, <4>1, <4>2
    <3> QED
      BY <3>2, <3>3
  <2>2. CASE i \notin DOMAIN main
    <3>1. acked' = lastId /\ \A u \in Pending' : u <= lastId
      BY <1>1, <1>8, <2>2 DEF Inv, IdsAscend
    <3>2. /\ \A k \in DOMAIN tasks' : tasks'[k] \in Pending'
          /\ \A j \in DOMAIN main' : (Starts(j))' => main'[j].id \in Pending'
      BY DEF Pending, ElementsOf, Starts
    <3> QED
      BY <3>1, <3>2
  <2> QED
    BY <2>1, <2>2
<1>14. MarkedIsGone'
  <2>1. marked' \subseteq 1..acked'
    <3>1. 1..acked \subseteq 1..acked'
      BY <1>5
    <3> QED
      BY <1>7, <3>1 DEF Inv, MarkedIsGone
  <2>2. d = 1 => tasks[1] \notin Pending'
    <3> SUFFICES ASSUME d = 1 PROVE tasks[1] \notin Pending'
      OBVIOUS
    <3>1. ASSUME NEW k \in DOMAIN tasks' PROVE tasks'[k] # tasks[1]
      <4>1. k \in Nat \ {0} /\ k + 1 \in DOMAIN tasks /\ tasks'[k] = tasks[k + 1] /\ 1 < k + 1
        BY <1>7
      <4>2. tasks[1] < tasks[k + 1]
        BY <1>7, <4>1 DEF Inv, IdsAscend
      <4> QED
        BY <1>4, <1>7, <4>1, <4>2
    <3>2. ASSUME NEW i \in DOMAIN main', (Starts(i))' PROVE main'[i].id # tasks[1]
      <4>1. i \in DOMAIN main /\ Starts(i) /\ main'[i] = main[i]
        BY <1>1, <1>2, <3>2
      <4>2. tasks[1] < main[i].id
        BY <1>7, <4>1 DEF Inv, IdsAscend
      <4> QED
        BY <1>3, <1>4, <1>7, <4>1, <4>2
    <3> QED
      BY <3>1, <3>2 DEF Pending, ElementsOf, Starts
  <2>3. marked' \intersect Pending' = {}
    BY <1>7, <1>8, <2>2 DEF Inv, MarkedIsGone
  <2> QED
    BY <2>1, <2>3 DEF MarkedIsGone
<1> QED
  BY <1>10, <1>11, <1>12, <1>13, <1>14 DEF Inv

(* A task is marked as done: those before it in the order of ids were      *)
(* served, or they would be at the worker before it.                       *)
LEMMA MarkKeeps == ASSUME Inv, MarkDone PROVE Inv'
<1> DEFINE id == Head(tasks)
<1>1. /\ tasks # <<>> /\ id \in done /\ tasks' = Tail(tasks) /\ worker' = "idle"
      /\ acked' = AfterMark(id) /\ marked' = marked \union {id}
      /\ UNCHANGED <<lastId, done, dropped>>
  BY DEF MarkDone, StopSelfResult, Inv, WorkerHasTask
<1>2. 1 \in DOMAIN tasks /\ id = tasks[1] /\ id \in Ids /\ tasks' \in Seq(Ids)
  BY <1>1, TailFacts DEF Inv, TypeOK
<1>3. id \in Pending
  BY <1>2 DEF Pending, ElementsOf
<1>4. acked \in Nat /\ lastId \in Nat /\ id \in Nat /\ 1 <= id /\ id <= lastId /\ acked <= lastId
  BY <1>2, <1>3 DEF Inv, TypeOK, IdsAscend, AckedIsRight, Ids
<1>5. \A u \in Pending : u \in Nat /\ id <= u
  <2>1. ASSUME NEW k \in DOMAIN tasks PROVE tasks[k] \in Nat /\ id <= tasks[k]
    <3>1. k \in Nat \ {0} /\ tasks[k] \in Nat
      <4>1. DOMAIN tasks = 1..Len(tasks)
        BY LenProperties DEF Inv, TypeOK
      <4> QED
        BY <2>1, <4>1, Elements DEF Inv, Ids
    <3>2. CASE k = 1
      BY <1>2, <1>4, <3>1, <3>2
    <3>3. CASE k # 1
      <4>1. 1 < k
        BY <3>1, <3>3
      <4>2. tasks[1] < tasks[k]
        BY <1>2, <2>1, <4>1 DEF Inv, IdsAscend
      <4> QED
        BY <1>2, <1>4, <3>1, <4>2
    <3> QED
      BY <3>2, <3>3
  <2>2. ASSUME NEW i \in DOMAIN main, Starts(i) PROVE main[i].id \in Nat /\ id <= main[i].id
    <3>1. main[i].id \in Nat /\ tasks[1] < main[i].id
      BY <1>2, <2>2, Elements DEF Inv, IdsAscend, Ids
    <3> QED
      BY <1>2, <1>4, <3>1
  <2> QED
    BY <2>1, <2>2, Elements DEF Inv
<1>6. 1..id \subseteq Served
  <2> SUFFICES ASSUME NEW u \in 1..id PROVE u \in Served
    OBVIOUS
  <2>1. CASE u = id
    BY <1>1, <2>1 DEF Served
  <2>2. CASE u # id
    <3>1. u \in 1..lastId /\ u < id
      BY <1>4, <2>2
    <3>2. u \notin Pending
      BY <1>4, <1>5, <3>1
    <3> QED
      BY <3>1, <3>2 DEF Inv, NothingIsLost
  <2> QED
    BY <2>1, <2>2
<1>7. /\ acked' \in Nat /\ acked <= acked' /\ acked' <= lastId /\ id \in 1..acked'
      /\ 1..acked' \subseteq Served
  <2>1. CASE id > acked
    BY <1>1, <1>4, <1>6, <2>1 DEF AfterMark
  <2>2. CASE ~(id > acked)
    BY <1>1, <1>4, <2>2 DEF AfterMark, Inv, NothingIsLost
  <2> QED
    BY <2>1, <2>2
<1>8. Served' = Served
  BY <1>1 DEF Served
<1>9. /\ main' = main \/ (main' = Append(main, Destroy) /\ acked' = lastId)
      /\ ~started' => acked' = lastId
      /\ started' \in BOOLEAN
  <2>1. CASE started /\ id = lastId
    <3>1. main' = Append(main, Destroy) /\ started' = FALSE
      BY <2>1 DEF MarkDone, StopSelfResult
    <3>2. acked' = lastId
      BY <1>4, <1>7, <2>1
    <3> QED
      BY <3>1, <3>2
  <2>2. CASE ~(started /\ id = lastId)
    <3>1. main' = main /\ started' = started
      BY <2>2 DEF MarkDone, StopSelfResult
    <3>2. ~started => acked' = lastId
      BY <1>4, <1>7 DEF Inv, AckedIsRight
    <3> QED
      BY <3>1, <3>2 DEF Inv, TypeOK
  <2> QED
    BY <2>1, <2>2
<1>10. TypeOK'
  <2>1. main' \in Seq(Message)
    <3>1. Destroy \in Message
      BY DEF Message, Destroy
    <3> QED
      BY <1>9, <3>1, AppendFacts DEF Inv, TypeOK
  <2>2. acked' \in 0..MaxStarts
    BY <1>1, <1>2, <1>4 DEF AfterMark, Inv, TypeOK, Ids
  <2> QED
    BY <1>1, <1>2, <1>9, <2>1, <2>2 DEF MarkDone, Inv, TypeOK
<1>11. WorkerHasTask'
  BY <1>1 DEF WorkerHasTask
<1> QED
  BY <1>1, <1>7, <1>8, <1>9, <1>10, <1>11, MarksKeep

LEMMA TimeoutKeeps == ASSUME Inv, Timeout PROVE Inv'
<1>1. UNCHANGED <<lastId, crashes, instance, worker, tasks, lock, stopAt, done, marked>>
      /\ timer' = FALSE /\ safe' = FALSE
  BY DEF Timeout
<1>2. WorkerHasTask'
  BY <1>1 DEF Inv, WorkerHasTask
<1>3. CASE started /\ ~Stopping
  <2>1. /\ started' = FALSE /\ acked' = lastId /\ main' = Append(main, Destroy)
        /\ dropped' = dropped \union ((acked + 1)..lastId \ done)
    BY <1>3 DEF Timeout, StopSelf
  <2>2. lastId \in Nat /\ acked \in Nat /\ acked <= lastId /\ lastId <= MaxStarts /\ MaxStarts \in Nat
    BY ServiceAssumption DEF Inv, TypeOK, AckedIsRight
  <2>3. main' \in Seq(Message)
    <3>1. Destroy \in Message
      BY DEF Message, Destroy
    <3> QED
      BY <2>1, <3>1, AppendFacts DEF Inv, TypeOK
  <2>4. dropped' \subseteq Ids
    <3>1. (acked + 1)..lastId \subseteq Ids
      BY <2>2 DEF Ids
    <3> QED
      BY <2>1, <3>1 DEF Inv, TypeOK
  <2>5. TypeOK'
    BY <1>1, <2>1, <2>2, <2>3, <2>4 DEF Inv, TypeOK
  <2>6. Served \subseteq Served'
    BY <1>1, <2>1 DEF Served
  <2>7. 1..acked' \subseteq Served'
    <3>1. 1..lastId \subseteq 1..acked \union (acked + 1)..lastId
      BY <2>2
    <3>2. (acked + 1)..lastId \subseteq Served'
      BY <1>1, <2>1 DEF Served
    <3> QED
      BY <2>1, <2>6, <3>1, <3>2 DEF Inv, NothingIsLost
  <2> QED
    BY <1>1, <1>2, <2>1, <2>2, <2>5, <2>6, <2>7, MarksKeep
<1>4. CASE ~(started /\ ~Stopping)
  <2>1. UNCHANGED <<started, acked, main, dropped>>
    BY <1>4 DEF Timeout, StopSelf
  <2>2. TypeOK'
    BY <1>1, <2>1 DEF Inv, TypeOK
  <2> QED
    BY <1>1, <1>2, <2>1, <2>2, Untouched
<1> QED
  BY <1>3, <1>4

(* After a death of the process what was not marked is delivered again.    *)
LEMMA CrashKeeps == ASSUME Inv, Crash PROVE Inv'
<1> DEFINE n == lastId - acked
<1>1. /\ tasks' = <<>> /\ worker' = "idle" /\ crashes' \in 0..MaxCrashes
      /\ started' = (started /\ acked < lastId)
      /\ main' = IF started' THEN <<Create>> \o Again ELSE <<>>
      /\ instance' = "none" /\ timer' = FALSE /\ safe' = TRUE /\ lock' = FALSE /\ stopAt' = FALSE
      /\ UNCHANGED <<lastId, acked, done, marked, dropped>>
  BY ServiceAssumption DEF Crash, Inv, TypeOK
<1>2. lastId \in Nat /\ acked \in Nat /\ acked <= lastId /\ lastId <= MaxStarts /\ MaxStarts \in Nat
      /\ n \in Nat
  BY ServiceAssumption DEF Inv, TypeOK, AckedIsRight
<1>3. \A i \in 1..n : acked + i \in Ids /\ StartMsg(acked + i, TRUE) \in Message
  <2>1. \A i \in 1..n : acked + i \in Ids
    BY <1>2 DEF Ids
  <2> QED
    BY <2>1, Messages
<1>4. Again \in Seq(Message) /\ Len(Again) = n /\ \A i \in 1..n : Again[i] = StartMsg(acked + i, TRUE)
  <2>1. Again \in [1..n -> Message]
    BY <1>3 DEF Again
  <2>2. Again \in Seq(Message)
    BY <1>2, <2>1, SeqDef
  <2>3. DOMAIN Again = 1..n
    BY DEF Again
  <2>4. Len(Again) = n
    BY <1>2, <2>2, <2>3, LenProperties
  <2>5. \A i \in 1..n : Again[i] = StartMsg(acked + i, TRUE)
    BY DEF Again
  <2> QED
    BY <2>2, <2>4, <2>5
<1>5. ASSUME started'
      PROVE  /\ main' \in Seq(Message) /\ DOMAIN main' = 1..n + 1
             /\ main'[1] = Create
             /\ \A i \in 2..n + 1 : main'[i] = StartMsg(acked + (i - 1), TRUE)
  <2>1. Create \in Message
    BY DEF Message, Create
  <2>2. <<Create>> \in Seq(Message) /\ Len(<<Create>>) = 1 /\ <<Create>>[1] = Create
    BY <2>1
  <2>3. main' = <<Create>> \o Again
    BY <1>1, <1>5
  <2>4. /\ main' \in Seq(Message) /\ Len(main') = 1 + n
        /\ \A i \in 1..1 + n : main'[i] = IF i <= 1 THEN <<Create>>[i] ELSE Again[i - 1]
    BY <1>4, <2>2, <2>3, ConcatProperties
  <2>5. DOMAIN main' = 1..n + 1
    BY <1>2, <2>4, LenProperties
  <2>6. \A i \in 2..n + 1 : i - 1 \in 1..n /\ i \in 1..1 + n /\ ~(i <= 1)
    BY <1>2
  <2>7. \A i \in 2..n + 1 : main'[i] = StartMsg(acked + (i - 1), TRUE)
    BY <1>4, <2>4, <2>6
  <2>8. main'[1] = Create
    BY <1>2, <2>2, <2>4
  <2> QED
    BY <2>4, <2>5, <2>7, <2>8
<1>6. \A i \in DOMAIN main' : /\ started' /\ i \in 1..n + 1
                              /\ (Starts(i))' <=> i # 1
                              /\ (Starts(i))' => main'[i].id = acked + (i - 1)
  <2> SUFFICES ASSUME NEW i \in DOMAIN main'
               PROVE  /\ started' /\ i \in 1..n + 1
                      /\ (Starts(i))' <=> i # 1
                      /\ (Starts(i))' => main'[i].id = acked + (i - 1)
    OBVIOUS
  <2>1. started'
    BY <1>1
  <2>2. CASE i = 1
    BY <1>5, <2>1, <2>2 DEF Starts, Create
  <2>3. CASE i # 1
    <3>1. i \in 2..n + 1 /\ i \in 1..n + 1
      BY <1>2, <1>5, <2>1, <2>3
    <3>2. main'[i] = StartMsg(acked + (i - 1), TRUE)
      BY <1>5, <2>1, <3>1
    <3> QED
      BY <2>1, <2>3, <3>1, <3>2 DEF Starts, StartMsg
  <2> QED
    BY <2>2, <2>3
<1>7. \A u : u \in Pending' <=> started' /\ u \in (acked + 1)..lastId
  <2>1. ASSUME NEW u \in Pending' PROVE started' /\ u \in (acked + 1)..lastId
    <3>1. PICK i \in DOMAIN main' : (Starts(i))' /\ main'[i].id = u
      BY <1>1, <2>1 DEF Pending, ElementsOf, Starts
    <3> QED
      BY <1>2, <1>6, <3>1
  <2>2. ASSUME started', NEW u \in (acked + 1)..lastId PROVE u \in Pending'
    <3>1. PICK i \in 1..n + 1 : i \in 2..n + 1 /\ i # 1 /\ acked + (i - 1) = u
      <4>1. u - acked + 1 \in 1..n + 1
        BY <1>2, <2>2
      <4> WITNESS u - acked + 1 \in 1..n + 1
      <4> QED
        BY <1>2, <2>2
    <3>2. i \in DOMAIN main' /\ (Starts(i))' /\ main'[i].id = u
      BY <1>5, <1>6, <2>2, <3>1
    <3> QED
      BY <3>1, <3>2 DEF Pending, Starts
  <2> QED
    BY <2>1, <2>2
<1>8. TypeOK'
  <2>1. started' \in BOOLEAN
    BY <1>1
  <2>2. main' \in Seq(Message)
    <3>1. CASE started'
      BY <1>5, <3>1
    <3>2. CASE ~started'
      BY <1>1, <3>2, EmptySeq
    <3> QED
      BY <3>1, <3>2
  <2>3. tasks' \in Seq(Ids)
    BY <1>1, EmptySeq
  <2> QED
    BY <1>1, <2>1, <2>2, <2>3 DEF Inv, TypeOK
<1>9. AckedIsRight'
  <2>1. ~started' => ~started \/ ~(acked < lastId)
    BY <1>1
  <2>2. ~(acked < lastId) => acked = lastId
    BY <1>2
  <2>3. ~started' => acked = lastId
    BY <2>1, <2>2 DEF Inv, AckedIsRight
  <2> QED
    BY <1>1, <1>2, <2>3 DEF AckedIsRight
<1>10. NothingIsLost'
  <2>1. 1..lastId \subseteq 1..acked \union (acked + 1)..lastId
    BY <1>2
  <2>2. ~started' => acked = lastId
    BY <1>1, <1>9 DEF AckedIsRight
  <2> QED
    BY <1>1, <1>7, <2>1, <2>2 DEF Inv, NothingIsLost, Served
<1>11. IdsAscend'
  <2>1. DOMAIN tasks' = {}
    BY <1>1
  <2>2. \A i, j \in DOMAIN main' : i < j /\ (Starts(i))' /\ (Starts(j))' => main'[i].id < main'[j].id
    BY <1>2, <1>6
  <2>3. \A u \in Pending' : u <= lastId'
    BY <1>1, <1>2, <1>7
  <2> QED
    BY <2>1, <2>2, <2>3 DEF IdsAscend
<1>12. EndsAfterMarks'
  <2>1. DOMAIN tasks' = {}
    BY <1>1
  <2>2. \A i, j \in DOMAIN main' : ~(Starts(i))' /\ j < i => FALSE
    BY <1>2, <1>6
  <2> QED
    BY <2>1, <2>2 DEF EndsAfterMarks
<1>13. WorkerHasTask'
  BY <1>1 DEF WorkerHasTask
<1>14. MarkedIsGone'
  <2>1. \A u \in 1..acked : u \notin (acked + 1)..lastId
    BY <1>2
  <2> QED
    BY <1>1, <1>7, <2>1 DEF Inv, MarkedIsGone
<1> QED
  BY <1>8, <1>9, <1>10, <1>11, <1>12, <1>13, <1>14 DEF Inv

LEMMA InvStep == ASSUME Inv, [Next]_vars PROVE Inv'
<1>1. CASE StartAction
  BY <1>1, StartKeeps
<1>2. CASE StartFails
  <2>1. TypeOK' /\ WorkerHasTask'
    BY <1>2 DEF StartFails, Inv, TypeOK, WorkerHasTask
  <2> QED
    BY <1>2, <2>1, Untouched DEF StartFails
<1>3. CASE OnCreate
  <2>1. main # <<>> /\ main' = Tail(main) /\ main' \in Seq(Message) /\ ~Starts(1)
    BY <1>3, TailFacts DEF OnCreate, Handles, Inv, TypeOK, Starts
  <2>2. TypeOK'
    BY <1>3, <2>1, EmptySeq DEF OnCreate, Inv, TypeOK
  <2> QED
    BY <1>3, <2>1, <2>2, InstanceChanges DEF OnCreate
<1>4. CASE OnStartCommand
  BY <1>4, QueueKeeps
<1>5. CASE OnDestroy
  <2>1. main # <<>> /\ main' = Tail(main) /\ main' \in Seq(Message) /\ ~Starts(1)
    BY <1>5, TailFacts DEF OnDestroy, Handles, Inv, TypeOK, Starts
  <2>2. ElementsOf(tasks) \subseteq Ids
    BY Elements DEF Inv, ElementsOf
  <2>3. dropped' \subseteq Ids /\ dropped \subseteq dropped'
    BY <1>5, <2>2 DEF OnDestroy, Inv, TypeOK
  <2>4. TypeOK'
    BY <1>5, <2>1, <2>3, EmptySeq DEF OnDestroy, Inv, TypeOK
  <2> QED
    BY <1>5, <2>1, <2>3, <2>4, InstanceChanges DEF OnDestroy
<1>6. CASE Timeout
  BY <1>6, TimeoutKeeps
<1>7. CASE Begin
  <2>1. TypeOK' /\ WorkerHasTask'
    BY <1>7 DEF Begin, Inv, TypeOK, WorkerHasTask
  <2> QED
    BY <1>7, <2>1, Untouched DEF Begin
<1>8. CASE Return
  <2>1. tasks # <<>> /\ Head(tasks) \in Ids
    BY <1>8, TailFacts DEF Return, Inv, WorkerHasTask, TypeOK
  <2>2. TypeOK' /\ WorkerHasTask'
    BY <1>8, <2>1 DEF Return, Inv, TypeOK, WorkerHasTask
  <2> QED
    BY <1>8, <2>2, Untouched DEF Return
<1>9. CASE MarkDone
  BY <1>9, MarkKeeps
<1>10. CASE Crash
  BY <1>10, CrashKeeps
<1>11. CASE UNCHANGED vars
  <2>1. TypeOK' /\ WorkerHasTask'
    BY <1>11 DEF vars, Inv, TypeOK, WorkerHasTask
  <2> QED
    BY <1>11, <2>1, Untouched DEF vars
<1> QED
  BY <1>1, <1>2, <1>3, <1>4, <1>5, <1>6, <1>7, <1>8, <1>9, <1>10, <1>11
  DEF Next, MainThread, WorkerThread

LEMMA InvHolds == Spec => []Inv
  BY InvInit, InvStep, PTL DEF Spec

(* The state of the service is well typed: in particular its ids and tasks *)
(* are those of requests that startAction made.                            *)
THEOREM TypeCorrect == Spec => []TypeOK
<1>1. Inv => TypeOK
  BY DEF Inv
<1> QED
  BY <1>1, InvHolds, PTL

(* The service ends when its queue runs out of tasks, and not before:      *)
(* stopSelfResult ends it only with the last id, and every request before  *)
(* was served, or given up by the timeout.                                 *)
THEOREM StopIsLast == Spec => []StopsOnlyWhenDone
<1>1. Inv => StopsOnlyWhenDone
  BY DEF Inv, AckedIsRight, NothingIsLost, StopsOnlyWhenDone, Started, Served
<1> QED
  BY <1>1, InvHolds, PTL

(* A task that stopSelfResult marked is not delivered again after a death  *)
(* of the process, so that it never runs a second time.                    *)
THEOREM CompletedStaysDone == Spec => CompletedIsNotRepeated
<1> DEFINE Once == \A id \in Ids :
                     (worker = "idle" /\ worker' # "idle" /\ id = Head(tasks)) => id \notin marked
<1>1. Inv /\ [Next]_vars => [Once]_vars
  <2> SUFFICES ASSUME Inv, Next, worker = "idle", worker' # "idle"
               PROVE  Head(tasks) \notin marked
    BY DEF vars
  <2>1. Begin
    <3>1. CASE MainThread
      BY <3>1 DEF MainThread, OnCreate, OnStartCommand, OnDestroy
    <3>2. CASE WorkerThread
      BY <3>2 DEF WorkerThread, Return, MarkDone
    <3>3. CASE StartAction \/ StartFails \/ Timeout \/ Crash
      BY <3>3 DEF StartAction, StartFails, Timeout, Crash
    <3> QED
      BY <3>1, <3>2, <3>3 DEF Next
  <2>2. 1 \in DOMAIN tasks /\ Head(tasks) = tasks[1]
    BY <2>1, TailFacts DEF Begin, Inv, TypeOK
  <2>3. Head(tasks) \in Pending
    BY <2>2 DEF Pending, ElementsOf
  <2> QED
    BY <2>3 DEF Inv, MarkedIsGone
<1> QED
  BY <1>1, InvHolds, PTL DEF Spec, CompletedIsNotRepeated
=============================================================================
