----------------------------- MODULE SimScheduler -----------------------------
(***************************************************************************)
(* The scheduler of 7SIM: weekly repeat schedules switch the SIM           *)
(* subscriptions on and off, the user's own switch takes precedence until  *)
(* the next schedule, an edit of the schedules takes precedence over the   *)
(* user.  One alarm, at the nearest schedule that inverts a subscription,  *)
(* drives everything; the work is done by the worker thread of the         *)
(* foreground service, first in first out, each task with the date-time    *)
(* captured when it was queued.                                            *)
(*                                                                         *)
(* Requests to the modem succeed here (TelephonyController models the      *)
(* failures), and a task runs within the minute it was queued in, unless   *)
(* a phone call postpones it.                                              *)
(***************************************************************************)
EXTENDS WeeklySchedule, Sequences

CONSTANTS
    Subs,          \* subscriptions, 1..n in the order of the iterator
    Legacy,        \* legacy RIL: a disabled SIM is powered again by a reboot
    Rows,          \* bound: rows the user puts in the table
    MaxRows,       \* bound: rows in the table at the same time
    LastMinute,    \* bound: the clock stops here
    MaxTasks,      \* bound: no new events with more tasks than this in the queue
    UserEdits,     \* the user edits schedules while the phone runs
    PowerCycles,   \* the phone is switched off: "never", "briefly" (only
                   \*   when nothing is due, within a minute) or "for long"
    PhoneCalls,    \* there are phone calls: "never", "briefly" (they end within
                   \*   the minute they begin in) or "for long"
    AlarmLag,      \* an alarm may ring after other events of its minute
    Interleaved    \* user, call and worker interleave within a task

ASSUME SchedulerAssumption ==
    /\ IsFiniteSet(Subs) /\ Subs = 1..Cardinality(Subs) /\ Subs # {}
    /\ Rows \subseteq ScheduleOf(Subs)
    /\ MaxRows \in Nat /\ MaxTasks \in Nat
    /\ LastMinute \in Nat /\ LastMinute >= Week
    /\ {PowerCycles, PhoneCalls} \subseteq {"never", "briefly", "for long"}
    /\ {Legacy, UserEdits, AlarmLag, Interleaved} \subseteq BOOLEAN

VARIABLES
    now,         \* the clock, in minutes
    on,          \* the phone runs
    schedules,   \* the table subscription_schedules
    subs,        \* subscription -> its state and its row in the database
    alarm,       \* the date-time set at AlarmManager, or NoAlarm
    queue,       \* tasks of ForegroundService's worker
    at,          \* the subscription syncAll has come to, in the head of queue
    chosen,      \* what the running task has read and computed, not yet done
    carrier,     \* subscriptions with a CARRIER_CONFIG_CHANGED under way
    inCall,      \* TelephonyUtils.isInCall
    postponed,   \* tasks kept by PhoneCallEndObserverService
    want         \* history: subscription -> state after the latest event: "on",
                 \*   "off", or "kept", switched off by the user

vars == <<now, on, schedules, subs, alarm, queue, at, chosen, carrier, inCall,
          postponed, want>>

NoAlarm == -1
Nothing == [kind |-> "nothing"]

SyncAll(t) == [kind |-> "syncAll", sub |-> 0, time |-> t]
SyncOne(u, t, override) ==
    [kind |-> IF override THEN "override" ELSE "sync", sub |-> u, time |-> t]
UpdateNext(t) == [kind |-> "next", sub |-> 0, time |-> t]

Task == [kind : {"syncAll", "sync", "override", "next"}, sub : Subs \union {0}, time : Nat]

TypeOK ==
    /\ now \in Week..LastMinute
    /\ on \in BOOLEAN
    /\ schedules \subseteq Rows
    /\ subs \in [Subs -> [enabled : BOOLEAN, lastActivated : Week..LastMinute \union {MIN},
                          lastDeactivated : Week..LastMinute \union {MIN}, keep : BOOLEAN]]
    /\ alarm \in Nat \union {NoAlarm}
    /\ queue \in Seq(Task)
    /\ at \in Subs
    /\ chosen \in {Nothing} \union [kind : {"set"}, sub : Subs, enabled : BOOLEAN, keep : BOOLEAN]
                  \union [kind : {"alarm"}, time : Nat \union {NoAlarm}]
    /\ carrier \subseteq Subs
    /\ inCall \in BOOLEAN
    /\ postponed \subseteq Task
    /\ want \in [Subs -> {"on", "off", "kept"}]

-----------------------------------------------------------------------------
(* What the code reads of the table.                                       *)
Start(table, u, t) == NearestBefore(table, u, TRUE, t)
End(table, u, t) == NearestBefore(table, u, FALSE, t)

(* Mutant: schedules of the present state are looked for. *)
NextOfSameState(table, states, t) ==
    LET times == UNION {NearestAfter(table, u, states[u].enabled, t) : u \in Subs}
    IN  IF times = {} THEN NoAlarm ELSE Min(times)

(* updateNextWeeklyRepeatScheduleProcessingIter: the nearest schedule that *)
(* inverts the state of a subscription, or no alarm.  (The alarm kept only *)
(* for the PINs in its intent never rings: it is no alarm here.)           *)
NextProcessingTime(table, states, t) ==
    LET times == UNION {NearestAfter(table, u, ~states[u].enabled, t) : u \in Subs}
    IN  IF times = {} THEN NoAlarm ELSE Min(times)

Switched(sub, enabled, keep) ==
    [enabled |-> enabled,
     lastActivated |-> IF enabled THEN now ELSE MIN,
     lastDeactivated |-> IF enabled THEN MIN ELSE now,
     keep |-> keep]

(* TelephonyController.setSimState does nothing if already in the state;   *)
(* SubscriptionController.setUiccApplicationsEnabled writes the times      *)
(* again, and knows nothing of keeping a SIM disabled.                     *)
SetState(sub, enabled, keep) ==
    IF Legacy
    THEN IF sub.enabled = enabled THEN sub ELSE Switched(sub, enabled, keep)
    ELSE Switched(sub, enabled, sub.keep)

(* The state syncSubscriptionEnabledState decides on, with the table and   *)
(* the subscription it reads.                                              *)
Expected(table, u, t, override) ==
    getSubscriptionExpectedEnabledState(subs[u], Start(table, u, t), End(table, u, t), override)

KeepDisabledAcrossBoots(u, override) == subs[u].keep /\ ~override

(* Mutant: a call postpones nothing. *)
NeverPostponed(expected) == FALSE

MustPostpone(expected) == ~expected /\ inCall

Postpone(u, t, override) ==
    postponed' = postponed \union {SyncOne(u, t, override), UpdateNext(t)}

Changed(u) == IF subs'[u].enabled # subs[u].enabled THEN {u} ELSE {}

-----------------------------------------------------------------------------
(* The state after the latest occurrence of a table: an enabling schedule  *)
(* has to be strictly later than a disabling one.  A table without any     *)
(* leaves the state as it is.  A schedule takes nothing from the user's    *)
(* having switched the SIM off.                                            *)
Off(w) == IF w = "kept" THEN "kept" ELSE "off"

Latest(table, u, t, w, default) ==
    LET start == Start(table, u, t)
        end == End(table, u, t)
        enabled == IF start \union end = {} THEN default
                   ELSE \E s \in start : \A e \in end : e < s
    IN  IF enabled THEN "on" ELSE Off(w)

(* The table is restored or left from before; the phone has just booted.   *)
Init ==
    /\ now = Week
    /\ on = TRUE
    /\ schedules \in {t \in SUBSET Rows : Cardinality(t) <= MaxRows}
    /\ subs = [u \in Subs |-> [enabled |-> TRUE, lastActivated |-> MIN,
                               lastDeactivated |-> MIN, keep |-> FALSE]]
    /\ alarm = NoAlarm
    /\ queue = <<SyncAll(now), UpdateNext(now + 1)>>
    /\ at = 1
    /\ chosen = Nothing
    /\ carrier = {}
    /\ inCall = FALSE
    /\ postponed = {}
    /\ want = [u \in Subs |-> Latest(schedules, u, now, "on", TRUE)]

-----------------------------------------------------------------------------
(* The worker.                                                             *)
Finish == /\ queue' = Tail(queue)
          /\ at' = 1

(* To the next subscription of a syncAll task, or to the next task.        *)
Advance == IF Head(queue).kind = "syncAll" /\ at + 1 \in Subs
           THEN at' = at + 1 /\ UNCHANGED queue
           ELSE Finish

Idle == chosen = Nothing
Runs(kinds) == on /\ Idle /\ queue # <<>> /\ Head(queue).kind \in kinds

(* syncSubscriptionEnabledState up to the request for the new state.       *)
Decide ==
    /\ Runs({"syncAll", "sync", "override"})
    /\ LET task == Head(queue)
           u == IF task.kind = "syncAll" THEN at ELSE task.sub
           override == task.kind = "override"
           expected == Expected(schedules, u, task.time, override)
       IN  \/ /\ subs[u].enabled = expected
              /\ Advance
              /\ UNCHANGED <<chosen, postponed>>
           \/ /\ subs[u].enabled # expected
              /\ MustPostpone(expected)
              /\ Postpone(u, task.time, override)
              /\ Advance
              /\ UNCHANGED chosen
           \/ /\ subs[u].enabled # expected
              /\ ~MustPostpone(expected)
              /\ chosen' = [kind |-> "set", sub |-> u, enabled |-> expected,
                            keep |-> KeepDisabledAcrossBoots(u, override)]
              /\ UNCHANGED <<queue, at, postponed>>
    /\ UNCHANGED <<now, on, schedules, subs, alarm, carrier, inCall, want>>

Apply ==
    /\ on /\ chosen.kind = "set"
    /\ subs' = [subs EXCEPT ![chosen.sub] = SetState(@, chosen.enabled, chosen.keep)]
    /\ carrier' = carrier \union Changed(chosen.sub)
    /\ chosen' = Nothing
    /\ Advance
    /\ UNCHANGED <<now, on, schedules, alarm, inCall, postponed, want>>

ComputeNext ==
    /\ Runs({"next"})
    /\ chosen' = [kind |-> "alarm",
                  time |-> NextProcessingTime(schedules, subs, Head(queue).time)]
    /\ UNCHANGED <<now, on, schedules, subs, alarm, queue, at, carrier, inCall,
                   postponed, want>>

SetAlarm ==
    /\ on /\ chosen.kind = "alarm"
    /\ alarm' = chosen.time
    /\ chosen' = Nothing
    /\ Finish
    /\ UNCHANGED <<now, on, schedules, subs, carrier, inCall, postponed, want>>

-----------------------------------------------------------------------------
(* The receivers.                                                          *)
Due == on /\ alarm # NoAlarm /\ alarm <= now

AlarmRings ==
    /\ Due
    /\ alarm' = NoAlarm
    /\ queue' = queue \o <<SyncAll(now), UpdateNext(now + 1)>>
    /\ UNCHANGED <<now, on, schedules, subs, at, chosen, carrier, inCall, postponed, want>>

(* A SIM powered down on a legacy RIL has no subscription the broadcast    *)
(* could name: only the alarm is updated.                                  *)
CarrierConfigChanged(u) ==
    /\ on /\ u \in carrier
    /\ carrier' = carrier \ {u}
    /\ queue' = queue \o (IF Legacy /\ ~subs[u].enabled THEN <<>>
                          ELSE <<SyncOne(u, now, FALSE)>>) \o <<UpdateNext(now + 1)>>
    /\ UNCHANGED <<now, on, schedules, subs, alarm, at, chosen, inCall, postponed, want>>

(* PhoneCallEndObserverService: on its next poll after the call, each task *)
(* goes to the foreground service with its original date-time; the sync of *)
(* a subscription before the update that was postponed with it.            *)
CallEndPoll(task) ==
    /\ on /\ ~inCall /\ task \in postponed
    /\ task.kind = "next" => \A other \in postponed : other.kind = "next"
    /\ postponed' = postponed \ {task}
    /\ queue' = Append(queue, task)
    /\ UNCHANGED <<now, on, schedules, subs, alarm, at, chosen, carrier, inCall, want>>

-----------------------------------------------------------------------------
(* The user, the calls, the clock and the power button.                    *)
(* Quiet: nothing that is due within the minute is left.                   *)
Quiet == /\ on /\ queue = <<>> /\ chosen = Nothing /\ carrier = {} /\ ~Due
         /\ inCall \/ postponed = {}

Event == on /\ Len(queue) <= MaxTasks /\ (Interleaved \/ Idle) /\ (AlarmLag \/ ~Due)

(* Mutant: the user's choice leaves no trace in the row. *)
SwitchWithoutTimes(u) ==
    /\ Event
    /\ subs' = [subs EXCEPT ![u].enabled = ~@]
    /\ carrier' = carrier \union {u}
    /\ want' = [want EXCEPT ![u] = IF subs[u].enabled THEN "kept" ELSE "on"]
    /\ UNCHANGED <<now, on, schedules, alarm, queue, at, chosen, inCall, postponed>>

(* SimListViewModel.handleOnSimEnabledStateChanged.                        *)
UserSwitches(u) ==
    /\ Event
    /\ subs' = [subs EXCEPT ![u] = SetState(@, ~@.enabled, @.enabled)]
    /\ carrier' = carrier \union {u}
    /\ want' = [want EXCEPT ![u] = IF subs[u].enabled THEN "kept" ELSE "on"]
    /\ UNCHANGED <<now, on, schedules, alarm, queue, at, chosen, inCall, postponed>>

(* doScheduleDatabaseRequest, on the thread of the schedules' screen: the  *)
(* table, the sync that overrides the user's preference, the alarm.        *)
Edit(table, u) ==
    LET expected == Expected(table, u, now, TRUE)
        change == subs[u].enabled # expected
    IN  /\ Event /\ UserEdits
        /\ schedules' = table
        /\ subs' = IF change /\ ~MustPostpone(expected)
                   THEN [subs EXCEPT ![u] = SetState(@, expected, FALSE)]
                   ELSE subs
        /\ IF change /\ MustPostpone(expected)
           THEN Postpone(u, now, TRUE)
           ELSE UNCHANGED postponed
        /\ carrier' = carrier \union Changed(u)
        /\ alarm' = NextProcessingTime(table, subs', now + 1)
        /\ want' = [want EXCEPT ![u] = Latest(table, u, now, @, subs[u].enabled)]
        /\ UNCHANGED <<now, on, queue, at, chosen, inCall>>

UserAdds(row) ==
    /\ row \notin schedules
    /\ Cardinality(schedules) < MaxRows
    /\ Edit(schedules \union {row}, row.sub)

UserDeletes(row) ==
    /\ row \in schedules
    /\ Edit(schedules \ {row}, row.sub)

CallStartsOrEnds ==
    /\ Event /\ PhoneCalls # "never"
    /\ inCall' = ~inCall
    /\ UNCHANGED <<now, on, schedules, subs, alarm, queue, at, chosen, carrier,
                   postponed, want>>

Happens(u, subEnabled, t) == t \in NearestBefore(schedules, u, subEnabled, t)

Tick ==
    /\ Quiet \/ (~on /\ PowerCycles = "for long")
    /\ inCall => PhoneCalls = "for long"
    /\ now < LastMinute
    /\ now' = now + 1
    /\ want' = [u \in Subs |-> IF Happens(u, FALSE, now') THEN Off(want[u])
                               ELSE IF Happens(u, TRUE, now') THEN "on"
                               ELSE want[u]]
    /\ UNCHANGED <<on, schedules, subs, alarm, queue, at, chosen, carrier, inCall, postponed>>

(* The database survives; the alarm and every task are gone.               *)
PowerOff ==
    /\ on /\ ~inCall /\ PowerCycles # "never"
    /\ PowerCycles = "briefly" => Quiet
    /\ on' = FALSE
    /\ alarm' = NoAlarm
    /\ queue' = <<>>
    /\ at' = 1
    /\ chosen' = Nothing
    /\ carrier' = {}
    /\ postponed' = {}
    /\ UNCHANGED <<now, schedules, subs, inCall, want>>

(* Mutant: nothing is synced after a boot, only the alarm is set. *)
BootWithoutSync ==
    /\ ~on
    /\ on' = TRUE
    /\ subs' = IF Legacy THEN [u \in Subs |-> [subs[u] EXCEPT !.enabled = TRUE]] ELSE subs
    /\ queue' = <<UpdateNext(now + 1)>>
    /\ UNCHANGED <<now, schedules, alarm, at, chosen, carrier, inCall, postponed, want>>

(* LOCKED_BOOT_COMPLETED.  On a legacy RIL every SIM is powered again;     *)
(* without schedules nothing but the user's choice keeps one disabled.     *)
Boot ==
    /\ ~on
    /\ on' = TRUE
    /\ subs' = IF Legacy THEN [u \in Subs |-> [subs[u] EXCEPT !.enabled = TRUE]] ELSE subs
    /\ queue' = <<SyncAll(now), UpdateNext(now + 1)>>
    /\ want' = [u \in Subs |->
                   IF /\ Legacy /\ want[u] = "off"
                      /\ Start(schedules, u, now) \union End(schedules, u, now) = {}
                   THEN "on" ELSE want[u]]
    /\ UNCHANGED <<now, schedules, alarm, at, chosen, carrier, inCall, postponed>>

-----------------------------------------------------------------------------
Next ==
    \/ Decide \/ Apply \/ ComputeNext \/ SetAlarm
    \/ AlarmRings
    \/ \E u \in Subs : CarrierConfigChanged(u) \/ UserSwitches(u)
    \/ \E task \in postponed : CallEndPoll(task)
    \/ \E row \in Rows : UserAdds(row) \/ UserDeletes(row)
    \/ CallStartsOrEnds
    \/ Tick
    \/ PowerOff
    \/ Boot

Spec == Init /\ [][Next]_vars

-----------------------------------------------------------------------------
Settled == Quiet /\ ~inCall

(* "Sync the enabled state of all SIM subscriptions found on the device    *)
(* with their existing weekly repeat schedules": when nothing is left to   *)
(* do, each subscription is in the state of the latest event: a schedule,  *)
(* or the user's switch, or an edit of the schedules, whatever was missed  *)
(* while the phone was off.                                                *)
SchedulesAreFollowed == Settled => \A u \in Subs : subs[u].enabled = (want[u] = "on")

(* The alarm is never later than the next schedule that would invert a     *)
(* subscription: no occurrence is slept through.                           *)
AlarmIsEarliest ==
    Settled => \A u \in Subs :
                  \A t \in NearestAfter(schedules, u, ~subs[u].enabled, now + 1) :
                      alarm # NoAlarm /\ alarm <= t

(* "we want to *refrain* from disabling SIM cards at all during a phone    *)
(* call": only the user's own switch disables one.                         *)
NoDisableDuringCall ==
    [][\A u \in Subs : inCall /\ subs[u].enabled /\ ~subs'[u].enabled => UserSwitches(u)]_vars
=============================================================================
