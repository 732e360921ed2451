--------------------------- MODULE ForegroundService ---------------------------
(***************************************************************************)
(* ForegroundService of 7SIM: broadcast receivers and other services hand  *)
(* it tasks as intents; its main thread queues them for one worker thread, *)
(* and each finished task tells the activity manager that its start        *)
(* request is done, so that the service stops with the last one and only   *)
(* undone requests are delivered again after a crash.  A wake lock, shared *)
(* by all instances and not reference counted, keeps the device awake.     *)
(***************************************************************************)
EXTENDS Integers, Sequences, FiniteSets

CONSTANTS
    MaxStarts,       \* bound: calls of startAction
    MaxCrashes,      \* bound: deaths of the process
    OverlapStarts,   \* startAction may come between the end of one instance's
                     \*   start requests and its onDestroy
    StartMayFail,    \* startForegroundServiceAsUser may throw
    TaskMayHang,     \* a task may never return
    Timeouts         \* tasks may take the three minutes of the service

ASSUME ServiceAssumption ==
    /\ MaxStarts \in Nat /\ MaxCrashes \in Nat
    /\ {OverlapStarts, StartMayFail, TaskMayHang, Timeouts} \subseteq BOOLEAN

VARIABLES
    lastId,     \* start ids given by the activity manager so far
    crashes,    \* deaths so far
    started,    \* the activity manager has a record of the service
    acked,      \* its start requests up to this id need no other delivery
    main,       \* messages for the service in the main thread's queue
    instance,   \* "none" or "alive": between onCreate and onDestroy
    timer,      \* the timeout is posted at the main thread
    safe,       \* mIsServiceTerminatedSafely
    worker,     \* "idle", "running", "hung" or "stopping": about to mark a task done
    tasks,      \* task ids at the worker, the running one first
    lock,       \* the wake lock is held
    stopAt,     \* SERVICE_STOP_AT_TIME_MS has a value
    done,       \* history: tasks whose callback has returned
    marked,     \* history: tasks marked as done by stopSelfResult
    dropped     \* history: tasks given up by a timeout

vars == <<lastId, crashes, started, acked, main, instance, timer, safe, worker,
          tasks, lock, stopAt, done, marked, dropped>>

Ids == 1..MaxStarts
Message == [what : {"create", "destroy"}, id : {0}, again : {FALSE}]
           \union [what : {"start"}, id : Ids, again : BOOLEAN]

Create == [what |-> "create", id |-> 0, again |-> FALSE]
Destroy == [what |-> "destroy", id |-> 0, again |-> FALSE]
StartMsg(id, again) == [what |-> "start", id |-> id, again |-> again]

TypeOK ==
    /\ lastId \in 0..MaxStarts
    /\ crashes \in 0..MaxCrashes
    /\ started \in BOOLEAN
    /\ acked \in 0..MaxStarts
    /\ main \in Seq(Message)
    /\ instance \in {"none", "alive"}
    /\ timer \in BOOLEAN
    /\ safe \in BOOLEAN
    /\ worker \in {"idle", "running", "hung", "stopping"}
    /\ tasks \in Seq(Ids)
    /\ lock \in BOOLEAN
    /\ stopAt \in BOOLEAN
    /\ done \subseteq Ids
    /\ marked \subseteq Ids
    /\ dropped \subseteq Ids

Init ==
    /\ lastId = 0
    /\ crashes = 0
    /\ started = FALSE
    /\ acked = 0
    /\ main = <<>>
    /\ instance = "none"
    /\ timer = FALSE
    /\ safe = TRUE
    /\ worker = "idle"
    /\ tasks = <<>>
    /\ lock = FALSE
    /\ stopAt = FALSE
    /\ done = {}
    /\ marked = {}
    /\ dropped = {}

ElementsOf(s) == {s[i] : i \in DOMAIN s}

-----------------------------------------------------------------------------
(* The activity manager (external): what a start request, stopSelf and     *)
(* stopSelfResult do to its record of the service.                         *)

(* The requests up to an id are done; the service stops with the last one. *)
AfterMark(id) == IF id > acked THEN id ELSE acked

StopSelfResult(id) ==
    /\ acked' = AfterMark(id)
    /\ marked' = marked \union {id}
    /\ IF started /\ id = lastId
       THEN started' = FALSE /\ main' = Append(main, Destroy)
       ELSE UNCHANGED <<started, main>>

Stopping == \E i \in DOMAIN main : main[i].what = "destroy"

(* stopSelf stops the instance whatever it was asked to do, and has no     *)
(* effect on the record of the next one.                                   *)
StopSelf ==
    IF started /\ ~Stopping
    THEN /\ started' = FALSE
         /\ acked' = lastId
         /\ main' = Append(main, Destroy)
         /\ dropped' = dropped \union ((acked + 1)..lastId \ done)
    ELSE UNCHANGED <<started, acked, main, dropped>>

-----------------------------------------------------------------------------
(* startAction, on the thread of any caller.                               *)
StartAction ==
    /\ lastId < MaxStarts
    /\ OverlapStarts \/ ~Stopping
    /\ lock' = TRUE
    /\ stopAt' = TRUE
    /\ lastId' = lastId + 1
    /\ started' = TRUE
    /\ main' = Append(IF started THEN main ELSE Append(main, Create),
                      StartMsg(lastId', FALSE))
    /\ UNCHANGED <<crashes, acked, instance, timer, safe, worker, tasks, done, marked, dropped>>

(* The exception is passed on to the caller with the lock released.        *)
StartFails ==
    /\ StartMayFail
    /\ lock' = FALSE
    /\ stopAt' = TRUE
    /\ UNCHANGED <<lastId, crashes, started, acked, main, instance, timer, safe,
                   worker, tasks, done, marked, dropped>>

-----------------------------------------------------------------------------
(* The main thread.                                                        *)
Handles(what) == main # <<>> /\ Head(main).what = what

OnCreate ==
    /\ Handles("create")
    /\ main' = Tail(main)
    /\ instance' = "alive"
    /\ safe' = TRUE
    /\ worker' = "idle"
    /\ tasks' = <<>>
    /\ timer' = stopAt
    /\ UNCHANGED <<lastId, crashes, started, acked, lock, stopAt, done, marked, dropped>>

(* Mutant: onStartCommand always returns START_NOT_STICKY. *)
NotRedelivered ==
    LET m == Head(main)
    IN  /\ Handles("start")
        /\ main' = Tail(main)
        /\ tasks' = Append(tasks, m.id)
        /\ lock' = (lock \/ m.again)
        /\ stopAt' = (stopAt \/ m.again)
        /\ timer' = (timer \/ m.again)
        /\ acked' = AfterMark(m.id)
        /\ UNCHANGED <<lastId, crashes, started, instance, safe, worker, done, marked, dropped>>

(* The task is queued.  Had the worker already finished it, stopSelfResult *)
(* would be called a second time, to no effect.                            *)
OnStartCommand ==
    LET m == Head(main)
    IN  /\ Handles("start")
        /\ main' = Tail(main)
        /\ tasks' = Append(tasks, m.id)
        /\ lock' = (lock \/ m.again)
        /\ stopAt' = (stopAt \/ m.again)
        /\ timer' = (timer \/ m.again)
        /\ UNCHANGED <<lastId, crashes, started, acked, instance, safe, worker,
                       done, marked, dropped>>

(* The looper quits: nothing is left for it in an orderly termination; in  *)
(* an unsafe one its messages are dropped and the task is interrupted.     *)
OnDestroy ==
    /\ Handles("destroy")
    /\ main' = Tail(main)
    /\ instance' = "none"
    /\ timer' = FALSE
    /\ worker' = "idle"
    /\ tasks' = <<>>
    /\ dropped' = dropped \union (IF safe THEN {} ELSE ElementsOf(tasks) \ done)
    /\ lock' = FALSE
    /\ UNCHANGED <<lastId, crashes, started, acked, safe, stopAt, done, marked>>

(* Mutant: the timeout waits for the running task. *)
TimeoutAfterTask ==
    /\ Timeouts /\ timer
    /\ worker = "idle"
    /\ timer' = FALSE
    /\ safe' = FALSE
    /\ StopSelf
    /\ UNCHANGED <<lastId, crashes, instance, worker, tasks, lock, stopAt, done, marked>>

Timeout ==
    /\ Timeouts /\ timer
    /\ timer' = FALSE
    /\ safe' = FALSE
    /\ StopSelf
    /\ UNCHANGED <<lastId, crashes, instance, worker, tasks, lock, stopAt, done, marked>>

-----------------------------------------------------------------------------
(* The worker thread.                                                      *)
Begin ==
    /\ worker = "idle" /\ tasks # <<>>
    /\ worker' \in {"running"} \union (IF TaskMayHang THEN {"hung"} ELSE {})
    /\ UNCHANGED <<lastId, crashes, started, acked, main, instance, timer, safe,
                   tasks, lock, stopAt, done, marked, dropped>>

Return ==
    /\ worker = "running"
    /\ worker' = "stopping"
    /\ done' = done \union {Head(tasks)}
    /\ UNCHANGED <<lastId, crashes, started, acked, main, instance, timer, safe,
                   tasks, lock, stopAt, marked, dropped>>

(* Mutant: the whole service is told to stop when a task is finished. *)
MarkStopsService ==
    /\ worker = "stopping"
    /\ worker' = "idle"
    /\ tasks' = Tail(tasks)
    /\ acked' = lastId
    /\ marked' = marked \union {Head(tasks)}
    /\ IF started
       THEN started' = FALSE /\ main' = Append(main, Destroy)
       ELSE UNCHANGED <<started, main>>
    /\ UNCHANGED <<lastId, crashes, instance, timer, safe, lock, stopAt, done, dropped>>

(* Mutant: the service stops itself only at the last task. *)
MarkOnlyLast ==
    /\ worker = "stopping"
    /\ worker' = "idle"
    /\ tasks' = Tail(tasks)
    /\ IF Len(tasks) = 1 THEN StopSelfResult(Head(tasks))
       ELSE marked' = marked \union {Head(tasks)} /\ UNCHANGED <<acked, started, main>>
    /\ UNCHANGED <<lastId, crashes, instance, timer, safe, lock, stopAt, done, dropped>>

MarkDone ==
    /\ worker = "stopping"
    /\ worker' = "idle"
    /\ tasks' = Tail(tasks)
    /\ StopSelfResult(Head(tasks))
    /\ UNCHANGED <<lastId, crashes, instance, timer, safe, lock, stopAt, done, dropped>>

-----------------------------------------------------------------------------
(* The process dies with its threads, messages and lock; the activity      *)
(* manager starts it again if a request is undone, and delivers those      *)
(* again, in order.                                                        *)
Again == [i \in 1..(lastId - acked) |-> StartMsg(acked + i, TRUE)]

Crash ==
    /\ crashes < MaxCrashes
    /\ instance = "alive" \/ main # <<>>
    /\ crashes' = crashes + 1
    /\ instance' = "none"
    /\ worker' = "idle"
    /\ tasks' = <<>>
    /\ timer' = FALSE
    /\ safe' = TRUE
    /\ lock' = FALSE
    /\ stopAt' = FALSE
    /\ started' = (started /\ acked < lastId)
    /\ main' = IF started' THEN <<Create>> \o Again ELSE <<>>
    /\ UNCHANGED <<lastId, acked, done, marked, dropped>>

-----------------------------------------------------------------------------
MainThread == OnCreate \/ OnStartCommand \/ OnDestroy
WorkerThread == Begin \/ Return \/ MarkDone

Next == StartAction \/ StartFails \/ MainThread \/ Timeout \/ WorkerThread \/ Crash

(* Threads with something to do are scheduled, and time passes.            *)
Fairness == /\ WF_vars(MainThread)
            /\ WF_vars(WorkerThread)
            /\ WF_vars(Timeout)

Spec == Init /\ [][Next]_vars /\ Fairness

-----------------------------------------------------------------------------
Started == 1..lastId

(* "the service will *always* terminate as soon as the worker's queue runs *)
(* out of tasks", and not before: once the service is gone, every request  *)
(* was served, or given up by a timeout.                                   *)
StopsOnlyWhenDone ==
    ~started /\ main = <<>> /\ instance = "none" => Started \subseteq done \union dropped

(* "This will prevent from delivering again all completed tasks": a task   *)
(* that was marked as done never runs again, whenever the process dies.    *)
CompletedIsNotRepeated ==
    [][\A id \in Ids :
          (worker = "idle" /\ worker' # "idle" /\ id = Head(tasks)) => id \notin marked]_vars

(* "Hold wake lock to ensure that the service will start and operate till  *)
(* termination": the device is kept awake while a task runs.               *)
AwakeWhileWorking == worker # "idle" => lock

(* Every request is served, across deaths of the process, unless a timeout *)
(* gives it up.                                                            *)
EveryTaskRuns == \A id \in Ids : id \in Started ~> id \in done \union dropped

(* "Set the timeout to ensure this foreground service will be recycled     *)
(* whatsoever", even if a task hangs.                                      *)
ServiceIsRecycled == instance = "alive" ~> instance = "none"
=============================================================================
