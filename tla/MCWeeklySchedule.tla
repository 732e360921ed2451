-------------------------- MODULE MCWeeklySchedule --------------------------
(***************************************************************************)
(* The subscription_schedules table as the user edits it, and the clock:   *)
(* in every state the nearest occurrences the scheduler computes are       *)
(* compared with the ones found by enumerating the minutes of two weeks.   *)
(***************************************************************************)
EXTENDS WeeklySchedule

CONSTANTS
    MaxSchedules,    \* bound: rows in the table
    Times            \* bound: times of day used by the rows

VARIABLES stored, clock

tableVars == <<stored, clock>>

(* Every set of days for the active rows; switched off, a row of every day *)
(* is the one that would disturb the answer most.                          *)
Row == {s \in ScheduleOf({1}) : /\ s.subEnabled
                                /\ s.time \in Times
                                /\ s.enabled \/ s.days = DayOfWeek}

TableInit == /\ stored = {}
             /\ clock = Week

Insert == /\ Cardinality(stored) < MaxSchedules
          /\ \E s \in Row : stored' = stored \union {s}
          /\ UNCHANGED clock

Delete == /\ \E s \in stored : stored' = stored \ {s}
          /\ UNCHANGED clock

(* The clock goes round the second week; the computation is periodic.      *)
ClockTicks == /\ clock' = IF clock = 2 * Week - 1 THEN Week ELSE clock + 1
              /\ UNCHANGED stored

TableNext == Insert \/ Delete \/ ClockTicks

TableSpec == TableInit /\ [][TableNext]_tableVars

(* A schedule occurs in this minute.                                       *)
Occurs(s, t) == getDayOfWeekFrom(t) \in s.days /\ TimeOfDay(t) = s.time

(* The minutes of a range at which an active row of the table occurs.      *)
Occurrences(range) == {t \in range : \E s \in stored : s.enabled /\ Occurs(s, t)}

(* findNearestBeforeDateTime followed by getDateTimeBefore gives the       *)
(* latest occurrence on or before the time, findNearestAfterDateTime with  *)
(* getDateTimeAfter the earliest on or after it, and none only if no row   *)
(* repeats: the DAO's ORDER BY and DaysOfWeek's loops agree over the week  *)
(* boundary and over a row that occurs later on the same day, and no alarm *)
(* skips a schedule.                                                       *)
NearestIsFound ==
    LET past == Occurrences((clock - Week + 1)..clock)
        future == Occurrences(clock..(clock + Week - 1))
    IN  /\ NearestBefore(stored, 1, TRUE, clock) =
               IF past = {} THEN {} ELSE {Max(past)}
        /\ NearestAfter(stored, 1, TRUE, clock) =
               IF future = {} THEN {} ELSE {Min(future)}
=============================================================================
