--------------------------- MODULE WeeklySchedule ---------------------------
(***************************************************************************)
(* The calendar arithmetic of the 7SIM scheduler: days of the week, the    *)
(* DAO query for the nearest weekly repeat schedule, the date-time of its  *)
(* nearest occurrence, and the state a SIM subscription is expected to be  *)
(* in.  Pure operators: SimScheduler uses them, MCWeeklySchedule compares  *)
(* them with a definition by enumeration of the occurrences.               *)
(*                                                                         *)
(* A date-time is a number of minutes; minute 0 is 00:00 on a Sunday.  A   *)
(* Java Optional is a set of at most one element, so that map(...)         *)
(* .orElse(false) is \E and map(...).orElse(true) is \A.                   *)
(***************************************************************************)
EXTENDS Integers, FiniteSets, FiniteSetsExt

CONSTANTS
    DaysPerWeek,     \* 7 in the code
    MinutesPerDay    \* 24 * 60 in the code; what matters is that it is > 1

ASSUME WeekAssumption ==
    /\ DaysPerWeek \in Nat \ {0}
    /\ MinutesPerDay \in Nat \ {0}

Week == DaysPerWeek * MinutesPerDay
DayOfWeek == 1..DaysPerWeek          \* 1 is Sunday, as in DaysOfWeek.java
LocalTime == 0..(MinutesPerDay - 1)

(* A row of subscription_schedules; "days" is days_of_week_bits as a set.  *)
ScheduleOf(S) == [sub : S, subEnabled : BOOLEAN, enabled : BOOLEAN,
                  days : SUBSET DayOfWeek, time : LocalTime]

(* LocalDateTime.MIN: before every date-time a schedule can occur at.      *)
MIN == -1 - Week

DayNumber(t) == t \div MinutesPerDay
TimeOfDay(t) == t % MinutesPerDay
getDayOfWeekFrom(t) == (DayNumber(t) % DaysPerWeek) + 1

(* The day of the week n days after (n > 0) or before (n < 0) day d.       *)
DayPlus(d, n) == ((d - 1 + n) % DaysPerWeek) + 1

(***************************************************************************)
(* DaysOfWeek.java                                                         *)
(***************************************************************************)
getDistanceToPreviousDayOfWeek(days, d) ==
    Min({n \in 1..DaysPerWeek : DayPlus(d, -n) \in days})

getDistanceToNextDayOfWeek(days, d) ==
    Min({n \in 0..(DaysPerWeek - 1) : DayPlus(d, n) \in days})

(***************************************************************************)
(* The ORDER BY expression of findNearestByDayOfWeekAndTime: a signed      *)
(* number of days, then the gap in minutes.                                *)
(***************************************************************************)
(* Mutant: ">" where the query has ">=". *)
DayGapAfterStrict(s, d, time) ==
    IF d \in s.days /\ s.time > time
    THEN 0
    ELSE Min({n \in 1..DaysPerWeek : DayPlus(d, n) \in s.days})

DayGapAfter(s, d, time) ==
    IF d \in s.days /\ s.time >= time
    THEN 0
    ELSE Min({n \in 1..DaysPerWeek : DayPlus(d, n) \in s.days})

DayGapBefore(s, d, time) ==
    IF d \in s.days /\ s.time <= time
    THEN 0
    ELSE -Min({n \in 1..DaysPerWeek : DayPlus(d, -n) \in s.days})

MinuteGap(s, t, reverseSearch) ==
    LET gap == IF reverseSearch
               THEN DayGapBefore(s, getDayOfWeekFrom(t), TimeOfDay(t))
               ELSE DayGapAfter(s, getDayOfWeekFrom(t), TimeOfDay(t))
        signed == gap * MinutesPerDay + s.time - TimeOfDay(t)
    IN  IF signed < 0 THEN -signed ELSE signed

(* The rows the query may return: LIMIT 1 picks any of the nearest ones.   *)
findNearest(schedules, sub, subEnabled, t, reverseSearch) ==
    LET rows == {s \in schedules : /\ s.sub = sub
                                   /\ s.subEnabled = subEnabled
                                   /\ s.enabled
                                   /\ s.days # {}}
    IN  {s \in rows : \A r \in rows : MinuteGap(s, t, reverseSearch)
                                        <= MinuteGap(r, t, reverseSearch)}

(***************************************************************************)
(* SubscriptionScheduler.java: date-time of the nearest occurrence.        *)
(***************************************************************************)
AtTimeOf(s, t, plusDays) == (DayNumber(t) + plusDays) * MinutesPerDay + s.time

getDateTimeBefore(s, t) ==
    LET d == getDayOfWeekFrom(t)
    IN  AtTimeOf(s, t, IF d \in s.days /\ s.time <= TimeOfDay(t)
                       THEN 0
                       ELSE -getDistanceToPreviousDayOfWeek(s.days, d))

getDateTimeAfter(s, t) ==
    LET d == getDayOfWeekFrom(t)
    IN  AtTimeOf(s, t, IF d \in s.days /\ s.time >= TimeOfDay(t)
                       THEN 0
                       ELSE getDistanceToNextDayOfWeek(s.days, DayPlus(d, 1)) + 1)

(* Optional date-times: empty, or the one nearest occurrence.              *)
NearestBefore(schedules, sub, subEnabled, t) ==
    {getDateTimeBefore(s, t) : s \in findNearest(schedules, sub, subEnabled, t, TRUE)}

NearestAfter(schedules, sub, subEnabled, t) ==
    {getDateTimeAfter(s, t) : s \in findNearest(schedules, sub, subEnabled, t, FALSE)}

(***************************************************************************)
(* The state expected of a subscription, from the nearest schedules in the *)
(* past ("start" enables, "end" disables) and from what the user did.      *)
(***************************************************************************)
getSubscriptionExpectedEnabledState(sub, start, end, overrideUserPreference) ==
    IF sub.enabled
    THEN IF end = {}
         THEN sub.keep => \E s \in start : sub.lastDeactivated < s
         ELSE \E e \in end :
                 \/ ~overrideUserPreference /\ sub.lastActivated >= e
                 \/ \E s \in start : /\ s > e
                                     /\ sub.lastDeactivated < s
                                     /\ ~sub.keep
    ELSE \E s \in start : /\ overrideUserPreference \/ sub.lastDeactivated < s
                          /\ \A e \in end : e < s

=============================================================================
