-------------------------- MODULE SimSchedulerProofs --------------------------
(***************************************************************************)
(* What holds of the calendar arithmetic of 7SIM for weeks and days of any *)
(* length and any table of schedules, and of the scheduler for any number  *)
(* of subscriptions, any rows and a clock that stops at any minute:        *)
(*   - the nearest schedules the DAO and DaysOfWeek find are the nearest   *)
(*     occurrences (NearestAlwaysFound);                                   *)
(*   - a call costs one SIM at most (CallsLoseOneAtMost);                  *)
(*   - the alarm misses no schedule (NoOccurrenceIsSleptThrough);          *)
(*   - when nothing is left to do, the latest event has been followed      *)
(*     (SchedulesAlwaysFollowed).                                          *)
(* The last two assume what the code needs of the order in which things    *)
(* happen; the README says what goes wrong otherwise.                      *)
(***************************************************************************)
EXTENDS SimScheduler, MCWeeklySchedule, SequenceTheorems, FiniteSetTheorems,
        WellFoundedInduction, TLAPS

-----------------------------------------------------------------------------
(* Division, and the calendar.                                             *)
LEMMA ProductMonotone ==
    ASSUME NEW m \in Nat, NEW a \in Int, NEW b \in Int, a <= b
    PROVE  m * a <= m * b
<1>1. m * (b - a) >= 0  OBVIOUS
<1> QED  BY <1>1

(* Division with remainder, and that there is only one. *)
LEMMA Divides ==
    ASSUME NEW m \in Nat \ {0}, NEW t \in Int
    PROVE  /\ t \div m \in Int /\ t % m \in 0..(m - 1)
           /\ t = m * (t \div m) + (t % m)
<1>1. m \in Nat /\ m > 0  OBVIOUS
<1>2. t \div m \in Int  BY <1>1
<1>3. t % m \in 0..(m - 1)  BY <1>1
<1>4. t = m * (t \div m) + (t % m)  BY <1>1
<1> QED  BY <1>2, <1>3, <1>4

LEMMA DividesOnce ==
    ASSUME NEW m \in Nat \ {0}, NEW q \in Int, NEW r \in 0..(m - 1)
    PROVE  (m * q + r) \div m = q /\ (m * q + r) % m = r
<1> DEFINE t == m * q + r
<1>1. t \in Int  OBVIOUS
<1>2. PICK d \in Int : d = t \div m  BY <1>1, Divides
<1>3. PICK e \in 0..(m - 1) : e = t % m  BY <1>1, Divides
<1>4. m * q + r = m * d + e  BY <1>1, <1>2, <1>3, Divides
<1>5. d = q
  <2>1. ASSUME d < q  PROVE FALSE
    <3>1. m * (d + 1) <= m * q  BY <2>1, ProductMonotone
    <3>2. m * (d + 1) = m * d + m  OBVIOUS
    <3> QED  BY <3>1, <3>2, <1>4
  <2>2. ASSUME q < d  PROVE FALSE
    <3>1. m * (q + 1) <= m * d  BY <2>2, ProductMonotone
    <3>2. m * (q + 1) = m * q + m  OBVIOUS
    <3> QED  BY <3>1, <3>2, <1>4
  <2> QED  BY <2>1, <2>2
<1> QED  BY <1>2, <1>3, <1>4, <1>5

LEMMA RemainderOfSum ==
    ASSUME NEW m \in Nat \ {0}, NEW a \in Int, NEW n \in Int
    PROVE  ((a % m) + n) % m = (a + n) % m
<1>1. PICK q \in Int, r \in 0..(m - 1) : a = m * q + r /\ r = a % m
  BY Divides
<1>2. PICK x \in Int : x = r + n  OBVIOUS
<1>3. PICK d \in Int, e \in 0..(m - 1) : x = m * d + e /\ e = x % m
  BY Divides
<1>4. q + d \in Int /\ a + n = m * (q + d) + e
  <2>1. m * (q + d) = m * q + m * d /\ m * q \in Int /\ m * d \in Int
    OBVIOUS
  <2>2. a = m * q + r  BY <1>1
  <2>3. x = m * d + e  BY <1>3
  <2> QED  BY <2>1, <2>2, <2>3, <1>2
<1>5. (m * (q + d) + e) % m = e
  BY <1>4, DividesOnce
<1> QED  BY <1>1, <1>2, <1>3, <1>4, <1>5

(* A nonempty set of natural numbers has a least element; it is Min of it. *)
LEMMA LeastExists ==
    ASSUME NEW S \in SUBSET Nat, S # {}
    PROVE  Min(S) \in S /\ \A y \in S : Min(S) <= y
<1> DEFINE R == {ss \in Nat \X Nat : ss[1] < ss[2]}
<1>1. IsWellFoundedOn(R, Nat)
  BY NatLessThanWellFounded DEF OpToRel
<1>2. \A a, b \in Nat : a < b => <<a, b>> \in R
  OBVIOUS
<1> HIDE DEF R
<1>3. PICK x \in S : \A y \in S : ~(<<y, x>> \in R)
  BY <1>1, WFMin
<1>4. \A y \in S : x <= y
  <2> TAKE y \in S
  <2>1. y \in Nat /\ x \in Nat /\ ~(y < x)
    BY <1>2, <1>3
  <2> QED
    BY <2>1
<1> QED
  BY <1>3, <1>4 DEF Min

-----------------------------------------------------------------------------
(* Days of the week.                                                       *)

(* The weekday of a day number; a repeating row on it. *)
Weekday(k) == (k % DaysPerWeek) + 1

Repeats(s) == s.days # {} /\ s.days \subseteq DayOfWeek /\ s.time \in LocalTime

LEMMA WeekdayAdds ==
    ASSUME NEW k \in Int
    PROVE  /\ Weekday(k) \in DayOfWeek
           /\ \A n \in Int : DayPlus(Weekday(k), n) = Weekday(k + n)
<1>1. DaysPerWeek \in Nat \ {0}  BY WeekAssumption
<1>2. k % DaysPerWeek \in 0..(DaysPerWeek - 1)  BY <1>1, Divides
<1>3. ASSUME NEW n \in Int
      PROVE  DayPlus(Weekday(k), n) = Weekday(k + n)
  <2>1. ((k % DaysPerWeek) + n) % DaysPerWeek = (k + n) % DaysPerWeek
    BY <1>1, RemainderOfSum
  <2>2. Weekday(k) - 1 + n = (k % DaysPerWeek) + n  BY <1>2 DEF Weekday
  <2> QED  BY <2>1, <2>2 DEF DayPlus, Weekday
<1>4. Weekday(k) \in DayOfWeek  BY <1>1, <1>2 DEF Weekday, DayOfWeek
<1> QED  BY <1>3, <1>4

(* Each weekday comes within a week, in both directions. *)
LEMMA EveryDayComes ==
    ASSUME NEW k \in Int, NEW e \in DayOfWeek
    PROVE  /\ \E n \in 1..DaysPerWeek : Weekday(k + n) = e
           /\ \E n \in 1..DaysPerWeek : Weekday(k - n) = e
<1>1. DaysPerWeek \in Nat \ {0}  BY WeekAssumption
<1>2. ASSUME NEW j \in Int
      PROVE  \E n \in 0..(DaysPerWeek - 1) : Weekday(j + n) = e
  <2>1. e - 1 \in 0..(DaysPerWeek - 1) /\ e - 1 - j \in Int  BY <1>1 DEF DayOfWeek
  <2>2. PICK n \in 0..(DaysPerWeek - 1) : n = (e - 1 - j) % DaysPerWeek
    BY <1>1, <2>1, Divides
  <2>3. (n + j) % DaysPerWeek = (e - 1 - j + j) % DaysPerWeek
    BY <1>1, <2>1, <2>2, RemainderOfSum
  <2>4. e - 1 - j + j = DaysPerWeek * 0 + (e - 1)  BY <1>1, <2>1
  <2>5. (DaysPerWeek * 0 + (e - 1)) % DaysPerWeek = e - 1
    BY <1>1, <2>1, DividesOnce
  <2>6. (n + j) % DaysPerWeek = e - 1  BY <2>3, <2>4, <2>5
  <2>7. n + j = j + n  OBVIOUS
  <2>8. Weekday(j + n) = e  BY <2>6, <2>7, <2>1 DEF Weekday, DayOfWeek
  <2> QED  BY <2>8
<1>3. \E n \in 1..DaysPerWeek : Weekday(k + n) = e
  <2>1. PICK j \in Int : j = k + 1  OBVIOUS
  <2>2. PICK n \in 0..(DaysPerWeek - 1) : Weekday(j + n) = e  BY <1>2
  <2>3. j + n = k + (n + 1) /\ n + 1 \in 1..DaysPerWeek  BY <1>1, <2>1
  <2> QED  BY <2>2, <2>3
<1>4. \E n \in 1..DaysPerWeek : Weekday(k - n) = e
  <2>1. PICK j \in Int : j = k - DaysPerWeek  BY <1>1
  <2>2. PICK n \in 0..(DaysPerWeek - 1) : Weekday(j + n) = e  BY <1>2
  <2>3. /\ j + n = k - (DaysPerWeek - n)
        /\ DaysPerWeek - n \in 1..DaysPerWeek
    BY <1>1, <2>1
  <2> QED  BY <2>2, <2>3
<1> QED  BY <1>3, <1>4

LEMMA TimeParts ==
    ASSUME NEW t \in Int
    PROVE  /\ DayNumber(t) \in Int /\ TimeOfDay(t) \in LocalTime
           /\ t = DayNumber(t) * MinutesPerDay + TimeOfDay(t)
           /\ getDayOfWeekFrom(t) = Weekday(DayNumber(t))
<1>1. MinutesPerDay \in Nat \ {0}  BY WeekAssumption
<1>2. /\ t \div MinutesPerDay \in Int /\ t % MinutesPerDay \in 0..(MinutesPerDay - 1)
      /\ t = MinutesPerDay * (t \div MinutesPerDay) + (t % MinutesPerDay)
  BY <1>1, Divides
<1>3. PICK q \in Int : q = t \div MinutesPerDay  BY <1>2
<1>4. MinutesPerDay * q = q * MinutesPerDay  BY <1>1
<1> QED  BY <1>2, <1>3, <1>4 DEF DayNumber, TimeOfDay, LocalTime, getDayOfWeekFrom, Weekday

LEMMA TimeFromParts ==
    ASSUME NEW k \in Int, NEW r \in LocalTime
    PROVE  /\ k * MinutesPerDay + r \in Int
           /\ DayNumber(k * MinutesPerDay + r) = k
           /\ TimeOfDay(k * MinutesPerDay + r) = r
<1>1. MinutesPerDay \in Nat \ {0} /\ r \in 0..(MinutesPerDay - 1)
  BY WeekAssumption DEF LocalTime
<1>2. MinutesPerDay * k = k * MinutesPerDay /\ k * MinutesPerDay \in Int  BY <1>1
<1>3. /\ (MinutesPerDay * k + r) \div MinutesPerDay = k
      /\ (MinutesPerDay * k + r) % MinutesPerDay = r
  BY <1>1, DividesOnce
<1> QED  BY <1>1, <1>2, <1>3 DEF DayNumber, TimeOfDay

(* The distance to the next and to the previous day of a set: DaysOfWeek's *)
(* loops and the query agree.                                              *)
DaysAhead(days, k) == Min({n \in 1..DaysPerWeek : DayPlus(Weekday(k), n) \in days})
DaysBehind(days, k) == Min({n \in 1..DaysPerWeek : DayPlus(Weekday(k), -n) \in days})

LEMMA DaysAheadIsLeast ==
    ASSUME NEW days \in SUBSET DayOfWeek, days # {}, NEW k \in Int
    PROVE  /\ DaysAhead(days, k) \in 1..DaysPerWeek
           /\ Weekday(k + DaysAhead(days, k)) \in days
           /\ \A n \in Nat \ {0} : Weekday(k + n) \in days => DaysAhead(days, k) <= n
           /\ getDistanceToNextDayOfWeek(days, DayPlus(Weekday(k), 1)) + 1
                = DaysAhead(days, k)
<1> DEFINE N == {n \in 1..DaysPerWeek : DayPlus(Weekday(k), n) \in days}
           L == {n \in 0..(DaysPerWeek - 1) :
                    DayPlus(DayPlus(Weekday(k), 1), n) \in days}
<1>1. DaysPerWeek \in Nat \ {0}  BY WeekAssumption
<1>2. \A n \in Int : DayPlus(Weekday(k), n) = Weekday(k + n)  BY WeekdayAdds
<1>3. \A n \in Int : DayPlus(DayPlus(Weekday(k), 1), n) = Weekday(k + (n + 1))
  <2>1. \A n \in Int : DayPlus(Weekday(k + 1), n) = Weekday((k + 1) + n)  BY WeekdayAdds
  <2>2. \A n \in Int : (k + 1) + n = k + (n + 1)  OBVIOUS
  <2> QED  BY <1>2, <2>1, <2>2
<1>4. PICK e \in DayOfWeek : e \in days  OBVIOUS
<1>5. PICK w \in 1..DaysPerWeek : Weekday(k + w) = e  BY EveryDayComes
<1>6. N \in SUBSET Nat /\ N # {}
  <2>1. w \in N  BY <1>1, <1>2, <1>4, <1>5
  <2> QED  BY <2>1, <1>1
<1>7. Min(N) \in N /\ \A n \in N : Min(N) <= n  BY <1>6, LeastExists
<1>8. L \in SUBSET Nat /\ L # {}
  <2>1. w - 1 \in 0..(DaysPerWeek - 1) /\ (w - 1) + 1 = w  BY <1>1
  <2>2. w - 1 \in L  BY <2>1, <1>1, <1>3, <1>4, <1>5
  <2> QED  BY <2>2, <1>1
<1>9. Min(L) \in L /\ \A n \in L : Min(L) <= n  BY <1>8, LeastExists
<1>10. \A n \in Nat \ {0} : Weekday(k + n) \in days => Min(N) <= n
  <2> SUFFICES ASSUME NEW n \in Nat \ {0}, Weekday(k + n) \in days  PROVE Min(N) <= n
    OBVIOUS
  <2>1. CASE n <= DaysPerWeek
    <3>1. n \in N  BY <2>1, <1>1, <1>2
    <3> QED  BY <3>1, <1>7
  <2>2. CASE n > DaysPerWeek
    <3>1. Min(N) \in 1..DaysPerWeek  BY <1>7
    <3> QED  BY <3>1, <2>2, <1>1
  <2> QED  BY <2>1, <2>2, <1>1
<1>11. Min(L) + 1 = Min(N)
  <2>1. PICK a \in 1..DaysPerWeek : a = Min(N) /\ Weekday(k + a) \in days
    <3>1. PICK a \in N : a = Min(N)  BY <1>7
    <3>2. a \in Int /\ a \in 1..DaysPerWeek /\ DayPlus(Weekday(k), a) \in days
      BY <1>1
    <3>3. Weekday(k + a) \in days  BY <3>2, <1>2
    <3> QED  BY <3>1, <3>2, <3>3
  <2>2. PICK b \in 0..(DaysPerWeek - 1) : b = Min(L) /\ Weekday(k + (b + 1)) \in days
    <3>1. PICK b \in L : b = Min(L)  BY <1>9
    <3>2. /\ b \in Int /\ b \in 0..(DaysPerWeek - 1)
          /\ DayPlus(DayPlus(Weekday(k), 1), b) \in days
      BY <1>1
    <3>3. Weekday(k + (b + 1)) \in days  BY <3>2, <1>3
    <3> QED  BY <3>1, <3>2, <3>3
  <2>3. b + 1 \in 1..DaysPerWeek /\ b + 1 \in Nat \ {0}  BY <1>1
  <2>4. a <= b + 1  BY <1>10, <2>1, <2>2, <2>3
  <2>5. a - 1 \in 0..(DaysPerWeek - 1) /\ (a - 1) + 1 = a  BY <1>1
  <2>6. a - 1 \in L  BY <1>3, <2>1, <2>5
  <2>7. b <= a - 1  BY <1>9, <2>2, <2>6
  <2> QED  BY <2>1, <2>2, <2>4, <2>7
<1> HIDE DEF L
<1>12. Weekday(k + Min(N)) \in days /\ Min(N) \in 1..DaysPerWeek  BY <1>7, <1>2
<1>13. getDistanceToNextDayOfWeek(days, DayPlus(Weekday(k), 1)) = Min(L)
  BY DEF getDistanceToNextDayOfWeek, L
<1> QED  BY <1>10, <1>11, <1>12, <1>13 DEF DaysAhead

LEMMA DaysBehindIsLeast ==
    ASSUME NEW days \in SUBSET DayOfWeek, days # {}, NEW k \in Int
    PROVE  /\ DaysBehind(days, k) \in 1..DaysPerWeek
           /\ Weekday(k - DaysBehind(days, k)) \in days
           /\ \A n \in Nat \ {0} : Weekday(k - n) \in days => DaysBehind(days, k) <= n
           /\ getDistanceToPreviousDayOfWeek(days, Weekday(k)) = DaysBehind(days, k)
<1> DEFINE N == {n \in 1..DaysPerWeek : DayPlus(Weekday(k), -n) \in days}
<1>1. DaysPerWeek \in Nat \ {0}  BY WeekAssumption
<1>2. \A n \in Int : DayPlus(Weekday(k), -n) = Weekday(k - n)
  <2>1. \A n \in Int : -n \in Int /\ k + (-n) = k - n  OBVIOUS
  <2> QED  BY <2>1, WeekdayAdds
<1>3. PICK e \in DayOfWeek : e \in days  OBVIOUS
<1>4. PICK w \in 1..DaysPerWeek : Weekday(k - w) = e  BY EveryDayComes
<1>5. N \in SUBSET Nat /\ N # {}
  <2>1. w \in N  BY <1>1, <1>2, <1>3, <1>4
  <2> QED  BY <2>1, <1>1
<1>6. Min(N) \in N /\ \A n \in N : Min(N) <= n  BY <1>5, LeastExists
<1>7. \A n \in Nat \ {0} : Weekday(k - n) \in days => Min(N) <= n
  <2> SUFFICES ASSUME NEW n \in Nat \ {0}, Weekday(k - n) \in days  PROVE Min(N) <= n
    OBVIOUS
  <2>1. CASE n <= DaysPerWeek
    <3>1. n \in N  BY <2>1, <1>1, <1>2
    <3> QED  BY <3>1, <1>6
  <2>2. CASE n > DaysPerWeek
    <3>1. Min(N) \in 1..DaysPerWeek  BY <1>6
    <3> QED  BY <3>1, <2>2, <1>1
  <2> QED  BY <2>1, <2>2, <1>1
<1>8. Weekday(k - Min(N)) \in days /\ Min(N) \in 1..DaysPerWeek  BY <1>6, <1>2
<1>9. getDistanceToPreviousDayOfWeek(days, Weekday(k)) = Min(N)
  BY DEF getDistanceToPreviousDayOfWeek
<1> QED  BY <1>7, <1>8, <1>9 DEF DaysBehind
-----------------------------------------------------------------------------
(* The occurrences of one row.                                             *)

LEMMA Multiples ==
    ASSUME NEW a \in Int, NEW b \in Int
    PROVE  /\ a * MinutesPerDay \in Int
           /\ (a + b) * MinutesPerDay = a * MinutesPerDay + b * MinutesPerDay
           /\ (a - b) * MinutesPerDay = a * MinutesPerDay - b * MinutesPerDay
           /\ a <= b => a * MinutesPerDay <= b * MinutesPerDay
           /\ a < b => a * MinutesPerDay + MinutesPerDay <= b * MinutesPerDay
<1>1. MinutesPerDay \in Nat  BY WeekAssumption
<1>2. \A c \in Int : MinutesPerDay * c = c * MinutesPerDay  BY <1>1
<1>3. a <= b => a * MinutesPerDay <= b * MinutesPerDay
  BY <1>1, <1>2, ProductMonotone
<1>4. a < b => a * MinutesPerDay + MinutesPerDay <= b * MinutesPerDay
  <2> SUFFICES ASSUME a < b  PROVE a * MinutesPerDay + MinutesPerDay <= b * MinutesPerDay
    OBVIOUS
  <2>1. PICK c \in Int : c = a + 1 /\ c <= b  OBVIOUS
  <2>2. c * MinutesPerDay <= b * MinutesPerDay  BY <1>1, <1>2, <2>1, ProductMonotone
  <2>3. c * MinutesPerDay = a * MinutesPerDay + MinutesPerDay  BY <1>1, <2>1
  <2> QED  BY <2>2, <2>3
<1> QED  BY <1>1, <1>3, <1>4

(* getDateTimeAfter is the first occurrence from t on, and the query's     *)
(* ORDER BY is its distance.                                               *)
LEMMA RowAfter ==
    ASSUME NEW s, Repeats(s), NEW t \in Int
    PROVE  /\ getDateTimeAfter(s, t) \in t..(t + Week - 1)
           /\ Occurs(s, getDateTimeAfter(s, t))
           /\ \A x \in t..(getDateTimeAfter(s, t) - 1) : ~Occurs(s, x)
           /\ MinuteGap(s, t, FALSE) = getDateTimeAfter(s, t) - t
<1> DEFINE M == MinutesPerDay
<1>1. PICK k \in Int, r \in LocalTime :
         /\ k = DayNumber(t) /\ r = TimeOfDay(t) /\ t = k * M + r
         /\ getDayOfWeekFrom(t) = Weekday(k)
  BY TimeParts
<1>2. PICK g \in 1..DaysPerWeek :
         /\ g = DaysAhead(s.days, k) /\ Weekday(k + g) \in s.days
         /\ \A n \in Nat \ {0} : Weekday(k + n) \in s.days => g <= n
         /\ getDistanceToNextDayOfWeek(s.days, DayPlus(Weekday(k), 1)) + 1 = g
  BY DaysAheadIsLeast DEF Repeats
<1>3. PICK m \in LocalTime : m = s.time  BY DEF Repeats
<1>4. M \in Nat /\ M > 0 /\ m \in 0..(M - 1) /\ r \in 0..(M - 1) /\ DaysPerWeek \in Nat \ {0}
  BY WeekAssumption DEF LocalTime
<1> DEFINE today == Weekday(k) \in s.days /\ m >= r
           gap == IF today THEN 0 ELSE g
<1>5. PICK e \in 0..DaysPerWeek : e = gap  BY <1>4
<1>6. getDateTimeAfter(s, t) = (k + e) * M + m
  BY <1>1, <1>2, <1>3, <1>5 DEF getDateTimeAfter, AtTimeOf
<1>7. DayGapAfter(s, Weekday(k), r) = e
  BY <1>2, <1>3, <1>5 DEF DayGapAfter, DaysAhead
<1>8. (k + e) * M = k * M + e * M /\ k * M \in Int /\ e * M \in Int
  <2>1. e \in Int  BY <1>4
  <2> QED  BY <2>1, Multiples
<1>9. PICK a \in Int : a = (k + e) * M + m  BY <1>4, <1>8
<1>10. a - t = e * M + m - r
  <2>1. t = k * M + r  BY <1>1
  <2>2. a = k * M + e * M + m  BY <1>8, <1>9
  <2> QED  BY <2>1, <2>2, <1>4, <1>8
<1>11. 0 <= e * M + m - r /\ e * M + m - r < Week
  <2>1. CASE today
    <3>1. e = 0 /\ m >= r  BY <1>5, <2>1
    <3>2. e * M = 0  BY <3>1, <1>4
    <3>3. 1 * M <= DaysPerWeek * M  BY <1>4, Multiples
    <3> QED  BY <3>1, <3>2, <3>3, <1>4 DEF Week
  <2>2. CASE ~today
    <3>1. e = g  BY <1>5, <2>2
    <3>2. 1 * M <= e * M /\ 1 * M = M  BY <3>1, <1>4, Multiples
    <3>3. CASE e < DaysPerWeek
      <4>1. e * M + M <= DaysPerWeek * M  BY <3>3, <1>4, Multiples
      <4> QED  BY <3>2, <4>1, <1>4, <1>8 DEF Week
    <3>4. CASE e = DaysPerWeek
      <4>1. (k + DaysPerWeek) % DaysPerWeek = k % DaysPerWeek
        <5>1. PICK q \in Int, z \in 0..(DaysPerWeek - 1) :
                 k = DaysPerWeek * q + z /\ z = k % DaysPerWeek
          BY <1>4, Divides
        <5>2. PICK p \in Int : p = q + 1  OBVIOUS
        <5>3. k + DaysPerWeek = DaysPerWeek * p + z  BY <5>1, <5>2, <1>4
        <5>4. (DaysPerWeek * p + z) % DaysPerWeek = z  BY <1>4, DividesOnce
        <5> QED  BY <5>1, <5>3, <5>4
      <4>2. Weekday(k) \in s.days  BY <1>2, <3>1, <3>4, <4>1 DEF Weekday
      <4>3. m < r  BY <2>2, <4>2, <1>4
      <4> QED  BY <3>2, <3>4, <4>3, <1>4, <1>8 DEF Week
    <3> QED  BY <3>3, <3>4, <1>4
  <2> QED  BY <2>1, <2>2
<1>12. Week \in Nat  BY WeekAssumption DEF Week
<1>13. a \in t..(t + Week - 1)  BY <1>9, <1>10, <1>11, <1>12
<1>14. Occurs(s, a)
  <2>1. PICK j \in Int : j = k + e  BY <1>4
  <2>2. a = j * M + m  BY <2>1, <1>9
  <2>3. DayNumber(a) = j /\ TimeOfDay(a) = m  BY <2>2, TimeFromParts
  <2>4. getDayOfWeekFrom(a) = Weekday(j)  BY <2>3, <1>9, TimeParts
  <2>5. Weekday(j) \in s.days
    <3>1. CASE today
      <4>1. j = k  BY <3>1, <1>5, <2>1
      <4> QED  BY <4>1, <3>1
    <3>2. CASE ~today  BY <3>2, <1>5, <2>1, <1>2
    <3> QED  BY <3>1, <3>2
  <2> QED  BY <2>3, <2>4, <2>5, <1>3 DEF Occurs
<1>15. ASSUME NEW x \in Int, t <= x, x < a, Occurs(s, x)
       PROVE  FALSE
  <2>1. PICK j \in Int :
           j = DayNumber(x) /\ x = j * M + m /\ Weekday(j) \in s.days
    BY <1>3, <1>15, TimeParts DEF Occurs
  <2>2. j * M \in Int  BY Multiples
  <2>3. ~(j < k)
    <3>1. j < k => j * M + M <= k * M  BY Multiples
    <3> QED  BY <3>1, <2>1, <2>2, <1>1, <1>4, <1>8, <1>15
  <2>4. CASE j = k
    <3>1. m >= r  BY <2>1, <2>4, <1>1, <1>4, <1>8, <1>15
    <3>2. today  BY <3>1, <2>1, <2>4
    <3>3. e = 0  BY <3>2, <1>5
    <3>4. a = x  BY <3>3, <2>1, <2>4, <1>9
    <3> QED  BY <3>4, <1>15
  <2>5. CASE j > k
    <3>1. PICK n \in Nat \ {0} : n = j - k  BY <2>5
    <3>2. k + n = j  BY <3>1
    <3>3. g <= n  BY <3>2, <2>1, <1>2
    <3>4. e <= n  BY <3>3, <1>4, <1>5
    <3>5. k + e <= j  BY <3>2, <3>4, <1>4
    <3>6. PICK c \in Int : c = k + e  BY <1>4
    <3>7. c * M <= j * M  BY <3>5, <3>6, Multiples
    <3> QED  BY <3>6, <3>7, <2>1, <2>2, <1>4, <1>8, <1>9, <1>15
  <2> QED  BY <2>3, <2>4, <2>5
<1>16. MinuteGap(s, t, FALSE) = e * M + m - r
  <2>1. DayGapAfter(s, getDayOfWeekFrom(t), TimeOfDay(t)) = e  BY <1>1, <1>7
  <2> QED  BY <2>1, <1>1, <1>3, <1>4, <1>8, <1>11 DEF MinuteGap
<1>17. getDateTimeAfter(s, t) = a  BY <1>6, <1>9
<1>18. \A x \in t..(a - 1) : ~Occurs(s, x)  BY <1>9, <1>15
<1> QED  BY <1>10, <1>13, <1>14, <1>16, <1>17, <1>18

(* getDateTimeBefore is the last occurrence up to t. *)
LEMMA RowBefore ==
    ASSUME NEW s, Repeats(s), NEW t \in Int
    PROVE  /\ getDateTimeBefore(s, t) \in (t - Week + 1)..t
           /\ Occurs(s, getDateTimeBefore(s, t))
           /\ \A x \in (getDateTimeBefore(s, t) + 1)..t : ~Occurs(s, x)
           /\ MinuteGap(s, t, TRUE) = t - getDateTimeBefore(s, t)
<1> DEFINE M == MinutesPerDay
<1>1. PICK k \in Int, r \in LocalTime :
         /\ k = DayNumber(t) /\ r = TimeOfDay(t) /\ t = k * M + r
         /\ getDayOfWeekFrom(t) = Weekday(k)
  BY TimeParts
<1>2. PICK g \in 1..DaysPerWeek :
         /\ g = DaysBehind(s.days, k) /\ Weekday(k - g) \in s.days
         /\ \A n \in Nat \ {0} : Weekday(k - n) \in s.days => g <= n
         /\ getDistanceToPreviousDayOfWeek(s.days, Weekday(k)) = g
  BY DaysBehindIsLeast DEF Repeats
<1>3. PICK m \in LocalTime : m = s.time  BY DEF Repeats
<1>4. M \in Nat /\ M > 0 /\ m \in 0..(M - 1) /\ r \in 0..(M - 1) /\ DaysPerWeek \in Nat \ {0}
  BY WeekAssumption DEF LocalTime
<1> DEFINE today == Weekday(k) \in s.days /\ m <= r
           gap == IF today THEN 0 ELSE g
<1>5. PICK e \in 0..DaysPerWeek : e = gap  BY <1>4
<1>6. getDateTimeBefore(s, t) = (k - e) * M + m
  <2>1. getDateTimeBefore(s, t) = (k + (IF today THEN 0 ELSE -g)) * M + m
    BY <1>1, <1>2, <1>3 DEF getDateTimeBefore, AtTimeOf
  <2>2. k + (IF today THEN 0 ELSE -g) = k - e  BY <1>4, <1>5
  <2> QED  BY <2>1, <2>2
<1>7. DayGapBefore(s, Weekday(k), r) = -e
  <2>1. DayGapBefore(s, Weekday(k), r) = IF today THEN 0 ELSE -g
    BY <1>2, <1>3 DEF DayGapBefore, DaysBehind
  <2> QED  BY <2>1, <1>4, <1>5
<1>8. (k - e) * M = k * M - e * M /\ k * M \in Int /\ e * M \in Int
  <2>1. e \in Int  BY <1>4
  <2> QED  BY <2>1, Multiples
<1>9. PICK b \in Int : b = (k - e) * M + m  BY <1>4, <1>8
<1>10. t - b = e * M + r - m
  <2>1. t = k * M + r  BY <1>1
  <2>2. b = k * M - e * M + m  BY <1>8, <1>9
  <2> QED  BY <2>1, <2>2, <1>4, <1>8
<1>11. 0 <= e * M + r - m /\ e * M + r - m < Week
  <2>1. CASE today
    <3>1. e = 0 /\ m <= r  BY <1>5, <2>1
    <3>2. e * M = 0  BY <3>1, <1>4
    <3>3. 1 * M <= DaysPerWeek * M  BY <1>4, Multiples
    <3> QED  BY <3>1, <3>2, <3>3, <1>4 DEF Week
  <2>2. CASE ~today
    <3>1. e = g  BY <1>5, <2>2
    <3>2. 1 * M <= e * M /\ 1 * M = M  BY <3>1, <1>4, Multiples
    <3>3. CASE e < DaysPerWeek
      <4>1. e * M + M <= DaysPerWeek * M  BY <3>3, <1>4, Multiples
      <4> QED  BY <3>2, <4>1, <1>4, <1>8 DEF Week
    <3>4. CASE e = DaysPerWeek
      <4>1. (k - DaysPerWeek) % DaysPerWeek = k % DaysPerWeek
        <5>1. PICK q \in Int, z \in 0..(DaysPerWeek - 1) :
                 k = DaysPerWeek * q + z /\ z = k % DaysPerWeek
          BY <1>4, Divides
        <5>2. PICK p \in Int : p = q - 1  OBVIOUS
        <5>3. k - DaysPerWeek = DaysPerWeek * p + z  BY <5>1, <5>2, <1>4
        <5>4. (DaysPerWeek * p + z) % DaysPerWeek = z  BY <1>4, DividesOnce
        <5> QED  BY <5>1, <5>3, <5>4
      <4>2. Weekday(k) \in s.days  BY <1>2, <3>1, <3>4, <4>1 DEF Weekday
      <4>3. m > r  BY <2>2, <4>2, <1>4
      <4> QED  BY <3>2, <3>4, <4>3, <1>4, <1>8 DEF Week
    <3> QED  BY <3>3, <3>4, <1>4
  <2> QED  BY <2>1, <2>2
<1>12. Week \in Nat  BY WeekAssumption DEF Week
<1>13. b \in (t - Week + 1)..t  BY <1>9, <1>10, <1>11, <1>12
<1>14. Occurs(s, b)
  <2>1. PICK j \in Int : j = k - e  BY <1>4
  <2>2. b = j * M + m  BY <2>1, <1>9
  <2>3. DayNumber(b) = j /\ TimeOfDay(b) = m  BY <2>2, TimeFromParts
  <2>4. getDayOfWeekFrom(b) = Weekday(j)  BY <2>3, <1>9, TimeParts
  <2>5. Weekday(j) \in s.days
    <3>1. CASE today
      <4>1. j = k  BY <3>1, <1>5, <2>1
      <4> QED  BY <4>1, <3>1
    <3>2. CASE ~today  BY <3>2, <1>5, <2>1, <1>2
    <3> QED  BY <3>1, <3>2
  <2> QED  BY <2>3, <2>4, <2>5, <1>3 DEF Occurs
<1>15. ASSUME NEW x \in Int, x <= t, b < x, Occurs(s, x)
       PROVE  FALSE
  <2>1. PICK j \in Int :
           j = DayNumber(x) /\ x = j * M + m /\ Weekday(j) \in s.days
    BY <1>3, <1>15, TimeParts DEF Occurs
  <2>2. j * M \in Int  BY Multiples
  <2>3. ~(k < j)
    <3>1. k < j => k * M + M <= j * M  BY Multiples
    <3> QED  BY <3>1, <2>1, <2>2, <1>1, <1>4, <1>8, <1>15
  <2>4. CASE j = k
    <3>1. m <= r  BY <2>1, <2>4, <1>1, <1>4, <1>8, <1>15
    <3>2. today  BY <3>1, <2>1, <2>4
    <3>3. e = 0  BY <3>2, <1>5
    <3>4. b = x  BY <3>3, <2>1, <2>4, <1>9
    <3> QED  BY <3>4, <1>15
  <2>5. CASE j < k
    <3>1. PICK n \in Nat \ {0} : n = k - j  BY <2>5
    <3>2. k - n = j  BY <3>1
    <3>3. g <= n  BY <3>2, <2>1, <1>2
    <3>4. e <= n  BY <3>3, <1>4, <1>5
    <3>5. j <= k - e  BY <3>2, <3>4, <1>4
    <3>6. PICK c \in Int : c = k - e  BY <1>4
    <3>7. j * M <= c * M  BY <3>5, <3>6, Multiples
    <3> QED  BY <3>6, <3>7, <2>1, <2>2, <1>4, <1>8, <1>9, <1>15
  <2> QED  BY <2>3, <2>4, <2>5
<1>16. MinuteGap(s, t, TRUE) = e * M + r - m
  <2>1. DayGapBefore(s, getDayOfWeekFrom(t), TimeOfDay(t)) = -e  BY <1>1, <1>7
  <2>2. (-e) * M = -(e * M)  BY <1>4
  <2> QED  BY <2>1, <2>2, <1>1, <1>3, <1>4, <1>8, <1>11 DEF MinuteGap
<1>17. getDateTimeBefore(s, t) = b  BY <1>6, <1>9
<1>18. \A x \in (b + 1)..t : ~Occurs(s, x)  BY <1>9, <1>15
<1> QED  BY <1>10, <1>13, <1>14, <1>16, <1>17, <1>18

-----------------------------------------------------------------------------
(* The nearest occurrences of a table.                                     *)

(* The rows the query chooses from, and the minutes at which one occurs. *)
ActiveRows(table, u, subEnabled) ==
    {s \in table : s.sub = u /\ s.subEnabled = subEnabled /\ s.enabled /\ s.days # {}}

Happening(table, u, subEnabled, t) ==
    \E s \in ActiveRows(table, u, subEnabled) : Occurs(s, t)

Repeating(table) == \A s \in table : s.days \subseteq DayOfWeek /\ s.time \in LocalTime

(* The query's nearest rows: there are some unless no row repeats. *)
LEMMA NearestRows ==
    ASSUME NEW table, NEW u, NEW subEnabled, NEW t, NEW reverse,
           \A s \in ActiveRows(table, u, subEnabled) : MinuteGap(s, t, reverse) \in Nat
    PROVE  LET rows == ActiveRows(table, u, subEnabled)
               found == findNearest(table, u, subEnabled, t, reverse)
           IN  /\ found = {s \in rows : \A r \in rows : MinuteGap(s, t, reverse)
                                                          <= MinuteGap(r, t, reverse)}
               /\ found = {} => rows = {}
<1> DEFINE rows == ActiveRows(table, u, subEnabled)
           found == findNearest(table, u, subEnabled, t, reverse)
           gap(s) == MinuteGap(s, t, reverse)
           gaps == {gap(s) : s \in rows}
<1>1. found = {s \in rows : \A r \in rows : gap(s) <= gap(r)}
  BY DEF findNearest, ActiveRows
<1>2. \A s \in rows : gap(s) \in Nat
  OBVIOUS
<1>3. ASSUME rows # {}  PROVE found # {}
  <2> HIDE DEF rows, found, gap
  <2>1. gaps \in SUBSET Nat /\ gaps # {}  BY <1>2, <1>3
  <2>2. Min(gaps) \in gaps /\ \A y \in gaps : Min(gaps) <= y
    <3> HIDE DEF gaps
    <3> QED  BY <2>1, LeastExists
  <2>3. PICK s \in rows : gap(s) = Min(gaps)  BY <2>2
  <2>4. s \in found  BY <1>1, <2>2, <2>3
  <2> QED  BY <2>4
<1> QED  BY <1>1, <1>3

(* The nearest occurrence on or after t, if any row repeats.               *)
LEMMA NearestAfterIsFirst ==
    ASSUME NEW table, Repeating(table), NEW u, NEW subEnabled, NEW t \in Int
    PROVE  /\ \A a : a \in NearestAfter(table, u, subEnabled, t)
                <=> /\ a \in t..(t + Week - 1)
                    /\ Happening(table, u, subEnabled, a)
                    /\ \A x \in t..(a - 1) : ~Happening(table, u, subEnabled, x)
           /\ NearestAfter(table, u, subEnabled, t) = {} =>
                 \A x \in Int : ~Happening(table, u, subEnabled, x)
<1> DEFINE rows == ActiveRows(table, u, subEnabled)
           found == findNearest(table, u, subEnabled, t, FALSE)
           gap(s) == MinuteGap(s, t, FALSE)
           A(s) == getDateTimeAfter(s, t)
<1>1. ASSUME NEW s \in rows
      PROVE  /\ A(s) \in t..(t + Week - 1) /\ Occurs(s, A(s))
             /\ \A x \in t..(A(s) - 1) : ~Occurs(s, x)
             /\ gap(s) = A(s) - t
  <2>1. Repeats(s)  BY <1>1 DEF ActiveRows, Repeating, Repeats
  <2> QED  BY <2>1, RowAfter
<1>2. Week \in Nat  BY WeekAssumption DEF Week
<1>3. /\ found = {s \in rows : \A r \in rows : gap(s) <= gap(r)}
      /\ found = {} => rows = {}
  <2>1. ASSUME NEW s \in rows  PROVE gap(s) \in Nat
    <3>1. PICK x \in Int : x = A(s) /\ gap(s) = x - t /\ t <= x
      <4> HIDE DEF rows, gap, A
      <4> QED  BY <1>1, <1>2, <2>1
    <3> HIDE DEF gap
    <3> QED  BY <3>1
  <2> QED  BY <2>1, NearestRows
<1>4. NearestAfter(table, u, subEnabled, t) = {A(s) : s \in found}
  BY DEF NearestAfter
<1>5. \A x : Happening(table, u, subEnabled, x) <=> \E s \in rows : Occurs(s, x)
  BY DEF Happening
<1> HIDE DEF rows, found, gap, A
<1>6. \A s \in found : s \in rows /\ \A r \in rows : A(s) <= A(r)
  <2> SUFFICES ASSUME NEW s \in found, NEW r \in rows  PROVE s \in rows /\ A(s) <= A(r)
    BY <1>3
  <2>1. s \in rows /\ gap(s) <= gap(r)  BY <1>3
  <2>2. A(s) \in Int /\ A(r) \in Int  BY <2>1, <1>1, <1>2
  <2> QED  BY <2>1, <2>2, <1>1
<1>7. ASSUME NEW s \in found, NEW x \in t..(A(s) - 1), NEW r \in rows, Occurs(r, x)
      PROVE  FALSE
  <2>1. A(s) <= A(r) /\ s \in rows  BY <1>6
  <2>2. A(s) \in Int /\ A(r) \in Int  BY <2>1, <1>1, <1>2
  <2>3. x \in t..(A(r) - 1)  BY <2>1, <2>2
  <2> QED  BY <2>3, <1>1, <1>7
<1>8. ASSUME NEW s \in found
      PROVE  /\ A(s) \in t..(t + Week - 1) /\ Happening(table, u, subEnabled, A(s))
             /\ \A x \in t..(A(s) - 1) : ~Happening(table, u, subEnabled, x)
  BY <1>1, <1>5, <1>6, <1>7
<1>9. ASSUME NEW a \in t..(t + Week - 1), Happening(table, u, subEnabled, a),
             \A x \in t..(a - 1) : ~Happening(table, u, subEnabled, x)
      PROVE  \E s \in found : a = A(s)
  <2>1. PICK r \in rows : Occurs(r, a)  BY <1>5, <1>9
  <2>2. PICK s \in found : TRUE  BY <1>3, <2>1
  <2>3. A(s) \in t..(t + Week - 1) /\ Happening(table, u, subEnabled, A(s))  BY <1>8
  <2>4. ~(A(s) < a)  BY <2>3, <1>2, <1>9
  <2>5. ~(a < A(s))
    <3>1. a < A(s) => a \in t..(A(s) - 1)  BY <2>3, <1>2
    <3> QED  BY <3>1, <1>8, <1>9
  <2>6. a = A(s)  BY <2>3, <2>4, <2>5, <1>2
  <2> QED  BY <2>6
<1>10. ASSUME {A(s) : s \in found} = {}, NEW x \in Int, Happening(table, u, subEnabled, x)
       PROVE  FALSE
  BY <1>3, <1>5, <1>10
<1> QED  BY <1>4, <1>8, <1>9, <1>10

(* The nearest occurrence on or before t, if any row repeats.              *)
LEMMA NearestBeforeIsLast ==
    ASSUME NEW table, Repeating(table), NEW u, NEW subEnabled, NEW t \in Int
    PROVE  /\ \A b : b \in NearestBefore(table, u, subEnabled, t)
                <=> /\ b \in (t - Week + 1)..t
                    /\ Happening(table, u, subEnabled, b)
                    /\ \A x \in (b + 1)..t : ~Happening(table, u, subEnabled, x)
           /\ NearestBefore(table, u, subEnabled, t) = {} =>
                 \A x \in Int : ~Happening(table, u, subEnabled, x)
<1> DEFINE rows == ActiveRows(table, u, subEnabled)
           found == findNearest(table, u, subEnabled, t, TRUE)
           gap(s) == MinuteGap(s, t, TRUE)
           B(s) == getDateTimeBefore(s, t)
<1>1. ASSUME NEW s \in rows
      PROVE  /\ B(s) \in (t - Week + 1)..t /\ Occurs(s, B(s))
             /\ \A x \in (B(s) + 1)..t : ~Occurs(s, x)
             /\ gap(s) = t - B(s)
  <2>1. Repeats(s)  BY <1>1 DEF ActiveRows, Repeating, Repeats
  <2> QED  BY <2>1, RowBefore
<1>2. Week \in Nat  BY WeekAssumption DEF Week
<1>3. /\ found = {s \in rows : \A r \in rows : gap(s) <= gap(r)}
      /\ found = {} => rows = {}
  <2>1. ASSUME NEW s \in rows  PROVE gap(s) \in Nat
    <3>1. PICK x \in Int : x = B(s) /\ gap(s) = t - x /\ x <= t
      <4> HIDE DEF rows, gap, B
      <4> QED  BY <1>1, <1>2, <2>1
    <3> HIDE DEF gap
    <3> QED  BY <3>1
  <2> QED  BY <2>1, NearestRows
<1>4. NearestBefore(table, u, subEnabled, t) = {B(s) : s \in found}
  BY DEF NearestBefore
<1>5. \A x : Happening(table, u, subEnabled, x) <=> \E s \in rows : Occurs(s, x)
  BY DEF Happening
<1> HIDE DEF rows, found, gap, B
<1>6. \A s \in found : s \in rows /\ \A r \in rows : B(r) <= B(s)
  <2> SUFFICES ASSUME NEW s \in found, NEW r \in rows  PROVE s \in rows /\ B(r) <= B(s)
    BY <1>3
  <2>1. s \in rows /\ gap(s) <= gap(r)  BY <1>3
  <2>2. B(s) \in Int /\ B(r) \in Int  BY <2>1, <1>1, <1>2
  <2> QED  BY <2>1, <2>2, <1>1
<1>7. ASSUME NEW s \in found, NEW x \in (B(s) + 1)..t, NEW r \in rows, Occurs(r, x)
      PROVE  FALSE
  <2>1. B(r) <= B(s) /\ s \in rows  BY <1>6
  <2>2. B(s) \in Int /\ B(r) \in Int  BY <2>1, <1>1, <1>2
  <2>3. x \in (B(r) + 1)..t  BY <2>1, <2>2
  <2> QED  BY <2>3, <1>1, <1>7
<1>8. ASSUME NEW s \in found
      PROVE  /\ B(s) \in (t - Week + 1)..t /\ Happening(table, u, subEnabled, B(s))
             /\ \A x \in (B(s) + 1)..t : ~Happening(table, u, subEnabled, x)
  BY <1>1, <1>5, <1>6, <1>7
<1>9. ASSUME NEW b \in (t - Week + 1)..t, Happening(table, u, subEnabled, b),
             \A x \in (b + 1)..t : ~Happening(table, u, subEnabled, x)
      PROVE  \E s \in found : b = B(s)
  <2>1. PICK r \in rows : Occurs(r, b)  BY <1>5, <1>9
  <2>2. PICK s \in found : TRUE  BY <1>3, <2>1
  <2>3. B(s) \in (t - Week + 1)..t /\ Happening(table, u, subEnabled, B(s))  BY <1>8
  <2>4. ~(b < B(s))  BY <2>3, <1>2, <1>9
  <2>5. ~(B(s) < b)
    <3>1. B(s) < b => b \in (B(s) + 1)..t  BY <2>3, <1>2
    <3> QED  BY <3>1, <1>8, <1>9
  <2>6. b = B(s)  BY <2>3, <2>4, <2>5, <1>2
  <2> QED  BY <2>6
<1>10. ASSUME {B(s) : s \in found} = {}, NEW x \in Int, Happening(table, u, subEnabled, x)
       PROVE  FALSE
  BY <1>3, <1>5, <1>10
<1> QED  BY <1>4, <1>8, <1>9, <1>10
-----------------------------------------------------------------------------
(* The table and the clock of MCWeeklySchedule.                            *)
TableInv == stored \subseteq ScheduleOf({1}) /\ (\A s \in stored : s.subEnabled) /\ clock \in Int

LEMMA TableInvariance == TableSpec => []TableInv
<1>1. TableInit => TableInv
  BY WeekAssumption DEF TableInit, TableInv, Week
<1>2. TableInv /\ [TableNext]_tableVars => TableInv'
  <2> SUFFICES ASSUME TableInv, [TableNext]_tableVars  PROVE TableInv'
    OBVIOUS
  <2>1. CASE Insert
    BY <2>1 DEF Insert, TableInv, Row
  <2>2. CASE Delete
    BY <2>2 DEF Delete, TableInv
  <2>3. CASE ClockTicks
    <3>1. Week \in Int  BY WeekAssumption DEF Week
    <3> QED  BY <2>3, <3>1 DEF ClockTicks, TableInv
  <2>4. CASE UNCHANGED tableVars
    BY <2>4 DEF tableVars, TableInv
  <2> QED  BY <2>1, <2>2, <2>3, <2>4 DEF TableNext
<1> QED  BY <1>1, <1>2, PTL DEF TableSpec

LEMMA LeastIsMin ==
    ASSUME NEW S \in SUBSET Int, NEW a \in S, \A y \in S : a <= y
    PROVE  Min(S) = a
<1>1. Min(S) \in S /\ \A y \in S : Min(S) <= y  BY DEF Min
<1>2. Min(S) \in Int /\ Min(S) <= a /\ a <= Min(S)  BY <1>1
<1> QED  BY <1>2

LEMMA GreatestIsMax ==
    ASSUME NEW S \in SUBSET Int, NEW a \in S, \A y \in S : y <= a
    PROVE  Max(S) = a
<1>1. Max(S) \in S /\ \A y \in S : Max(S) >= y  BY DEF Max
<1>2. Max(S) \in Int /\ Max(S) <= a /\ a <= Max(S)  BY <1>1
<1> QED  BY <1>2

LEMMA TableInvFinds == TableInv => NearestIsFound
<1> SUFFICES ASSUME TableInv  PROVE NearestIsFound
  OBVIOUS
<1> DEFINE happens(x) == Happening(stored, 1, TRUE, x)
           before == NearestBefore(stored, 1, TRUE, clock)
           after == NearestAfter(stored, 1, TRUE, clock)
           past == Occurrences((clock - Week + 1)..clock)
           future == Occurrences(clock..(clock + Week - 1))
<1>1. Repeating(stored) /\ clock \in Int
  BY DEF TableInv, Repeating, ScheduleOf
<1>2. ASSUME NEW range
      PROVE  Occurrences(range) = {t \in range : happens(t)}
  BY DEF Occurrences, Happening, ActiveRows, Occurs, TableInv, ScheduleOf
<1>3. Week \in Int  BY WeekAssumption DEF Week
<1>4. past = {t \in (clock - Week + 1)..clock : happens(t)} /\ past \subseteq Int
  <2>1. past = {t \in (clock - Week + 1)..clock : happens(t)}  BY <1>2
  <2>2. (clock - Week + 1)..clock \subseteq Int  BY <1>1, <1>3
  <2> HIDE DEF happens, past
  <2> QED  BY <2>1, <2>2
<1>5. future = {t \in clock..(clock + Week - 1) : happens(t)} /\ future \subseteq Int
  <2>1. future = {t \in clock..(clock + Week - 1) : happens(t)}  BY <1>2
  <2>2. clock..(clock + Week - 1) \subseteq Int  BY <1>1, <1>3
  <2> HIDE DEF happens, future
  <2> QED  BY <2>1, <2>2
<1>6. /\ \A b : b \in before <=> /\ b \in (clock - Week + 1)..clock /\ happens(b)
                                 /\ \A x \in (b + 1)..clock : ~happens(x)
      /\ before = {} => \A x \in Int : ~happens(x)
  BY <1>1, NearestBeforeIsLast
<1>7. /\ \A a : a \in after <=> /\ a \in clock..(clock + Week - 1) /\ happens(a)
                                /\ \A x \in clock..(a - 1) : ~happens(x)
      /\ after = {} => \A x \in Int : ~happens(x)
  BY <1>1, NearestAfterIsFirst
<1> HIDE DEF happens, before, after, past, future
<1>8. before = IF past = {} THEN {} ELSE {Max(past)}
  <2>1. CASE before = {}
    <3>1. past = {}  BY <2>1, <1>4, <1>6
    <3> QED  BY <2>1, <3>1
  <2>2. CASE before # {}
    <3>1. PICK b \in before : TRUE  BY <2>2
    <3>2. b \in past /\ b \in Int  BY <1>4, <1>6
    <3>3. ASSUME NEW y \in past  PROVE y <= b
      <4>1. y \in Int /\ y <= clock /\ happens(y)  BY <1>1, <1>3, <1>4
      <4>2. b < y => y \in (b + 1)..clock  BY <4>1, <3>2, <1>1
      <4> QED  BY <4>1, <4>2, <3>2, <1>6
    <3>4. Max(past) = b  BY <3>2, <3>3, <1>4, GreatestIsMax
    <3>5. ASSUME NEW c \in before  PROVE c = b
      <4>1. c \in past /\ c \in Int /\ c <= clock /\ b <= clock  BY <1>1, <1>3, <1>4, <1>6
      <4>2. c <= b  BY <3>3, <4>1
      <4>3. c < b => b \in (c + 1)..clock  BY <4>1, <3>2, <1>1
      <4> QED  BY <4>1, <4>2, <4>3, <3>2, <1>4, <1>6
    <3>6. before = {b}  BY <3>1, <3>5
    <3> QED  BY <3>2, <3>4, <3>6
  <2> QED  BY <2>1, <2>2
<1>9. after = IF future = {} THEN {} ELSE {Min(future)}
  <2>1. CASE after = {}
    <3>1. future = {}  BY <2>1, <1>5, <1>7
    <3> QED  BY <2>1, <3>1
  <2>2. CASE after # {}
    <3>1. PICK a \in after : TRUE  BY <2>2
    <3>2. a \in future /\ a \in Int  BY <1>5, <1>7
    <3>3. ASSUME NEW y \in future  PROVE a <= y
      <4>1. y \in Int /\ clock <= y /\ happens(y)  BY <1>1, <1>3, <1>5
      <4>2. y < a => y \in clock..(a - 1)  BY <4>1, <3>2, <1>1
      <4> QED  BY <4>1, <4>2, <3>2, <1>7
    <3>4. Min(future) = a  BY <3>2, <3>3, <1>5, LeastIsMin
    <3>5. ASSUME NEW c \in after  PROVE c = a
      <4>1. c \in future /\ c \in Int /\ clock <= c /\ clock <= a  BY <1>1, <1>3, <1>5, <1>7
      <4>2. a <= c  BY <3>3, <4>1
      <4>3. a < c => a \in clock..(c - 1)  BY <4>1, <3>2, <1>1
      <4> QED  BY <4>1, <4>2, <4>3, <3>2, <1>5, <1>7
    <3>6. after = {a}  BY <3>1, <3>5
    <3> QED  BY <3>2, <3>4, <3>6
  <2> QED  BY <2>1, <2>2
<1> QED  BY <1>8, <1>9 DEF NearestIsFound, before, after, past, future

(* For a week of any number of days and a day of any number of minutes,    *)
(* for tables of any size: the DAO's query and the date arithmetic of      *)
(* getDateTimeBefore and getDateTimeAfter find the nearest occurrences.    *)
THEOREM NearestAlwaysFound == TableSpec => []NearestIsFound
BY TableInvariance, TableInvFinds, PTL

-----------------------------------------------------------------------------
(* What the scheduler needs of the calendar.                               *)

LEMMA BeforeFacts ==
    ASSUME NEW table, Repeating(table), NEW u, NEW e, NEW t \in Int
    PROVE  /\ \A b \in NearestBefore(table, u, e, t) :
                 /\ b \in Int /\ t - Week < b /\ b <= t
                 /\ \A c \in NearestBefore(table, u, e, t) : b = c
           /\ t \in NearestBefore(table, u, e, t) <=> Happening(table, u, e, t)
<1> DEFINE S == NearestBefore(table, u, e, t)
           happens(x) == Happening(table, u, e, x)
<1>1. \A b : b \in S <=> /\ b \in (t - Week + 1)..t /\ happens(b)
                         /\ \A x \in (b + 1)..t : ~happens(x)
  BY NearestBeforeIsLast
<1>2. Week \in Nat /\ Week > 0
  <2>1. DaysPerWeek \in Nat /\ DaysPerWeek > 0 /\ MinutesPerDay \in Nat /\ MinutesPerDay > 0
    BY WeekAssumption
  <2> QED  BY <2>1 DEF Week
<1> HIDE DEF S, happens
<1>3. ASSUME NEW b \in S  PROVE b \in Int /\ t - Week < b /\ b <= t /\ happens(b)
  BY <1>1, <1>2
<1>4. ASSUME NEW b \in S, NEW c \in S, b < c  PROVE FALSE
  <2>1. b \in Int /\ c \in Int /\ c <= t /\ happens(c)  BY <1>3
  <2>2. c \in (b + 1)..t  BY <2>1, <1>4
  <2> QED  BY <2>1, <2>2, <1>1
<1>5. \A b, c \in S : b = c
  <2> SUFFICES ASSUME NEW b \in S, NEW c \in S  PROVE b = c
    OBVIOUS
  <2>1. b \in Int /\ c \in Int /\ ~(b < c) /\ ~(c < b)  BY <1>3, <1>4
  <2> QED  BY <2>1
<1>6. t \in S <=> happens(t)
  <2>1. t \in (t - Week + 1)..t /\ (t + 1)..t = {}  BY <1>2
  <2> QED  BY <2>1, <1>1
<1> QED  BY <1>3, <1>5, <1>6 DEF S, happens

(* A minute later the last occurrence is this minute's, or the same. *)
LEMMA BeforeLater ==
    ASSUME NEW table, Repeating(table), NEW u, NEW e, NEW t \in Int
    PROVE  NearestBefore(table, u, e, t + 1) =
              IF Happening(table, u, e, t + 1) THEN {t + 1}
              ELSE NearestBefore(table, u, e, t)
<1> DEFINE S == NearestBefore(table, u, e, t)
           L == NearestBefore(table, u, e, t + 1)
           happens(x) == Happening(table, u, e, x)
<1>1. PICK v \in Int : v = t + 1  OBVIOUS
<1>2. /\ \A b : b \in S <=> /\ b \in (t - Week + 1)..t /\ happens(b)
                            /\ \A x \in (b + 1)..t : ~happens(x)
      /\ S = {} => \A x \in Int : ~happens(x)
  BY NearestBeforeIsLast
<1>3. /\ \A b : b \in L <=> /\ b \in (v - Week + 1)..v /\ happens(b)
                            /\ \A x \in (b + 1)..v : ~happens(x)
      /\ L = {} => \A x \in Int : ~happens(x)
  BY <1>1, NearestBeforeIsLast
<1>4. /\ \A b \in S : b \in Int /\ b <= t /\ \A c \in S : b = c
      /\ \A b \in L : b \in Int /\ b <= v /\ \A c \in L : b = c
      /\ v \in L <=> happens(v)
  BY <1>1, BeforeFacts
<1> HIDE DEF S, L, happens
<1>5. CASE happens(v)
  <2>1. L = {v}  BY <1>4, <1>5
  <2> QED  BY <2>1, <1>1, <1>5 DEF L, happens
<1>6. CASE ~happens(v)
  <2>1. CASE S = {}
    <3>1. L = {}  BY <2>1, <1>2, <1>3, <1>4
    <3> QED  BY <2>1, <3>1, <1>1, <1>6 DEF S, L, happens
  <2>2. CASE S # {}
    <3>1. PICK b \in S : b \in Int /\ b <= t /\ happens(b)  BY <2>2, <1>2, <1>4
    <3>2. L # {}  BY <3>1, <1>3
    <3>3. PICK c \in L : c \in Int /\ c <= v /\ happens(c)  BY <3>2, <1>3, <1>4
    <3>4. c # v  BY <3>3, <1>6
    <3>5. ~(b < c)
      <4>1. b < c => c \in (b + 1)..t  BY <3>1, <3>3, <3>4, <1>1
      <4> QED  BY <4>1, <3>3, <1>2
    <3>6. ~(c < b)
      <4>1. c < b => b \in (c + 1)..v  BY <3>1, <3>3, <1>1
      <4> QED  BY <4>1, <3>1, <1>3
    <3>7. b = c  BY <3>1, <3>3, <3>5, <3>6
    <3>8. S = {b} /\ L = {c}
      <4>1. \A x \in S : x = b  BY <3>1, <1>4
      <4>2. \A x \in L : x = c  BY <3>3, <1>4
      <4> QED  BY <4>1, <4>2
    <3> QED  BY <3>7, <3>8, <1>1, <1>6 DEF S, L, happens
  <2> QED  BY <2>1, <2>2
<1> QED  BY <1>5, <1>6

LEMMA AfterFacts ==
    ASSUME NEW table, Repeating(table), NEW u, NEW e, NEW t \in Int
    PROVE  /\ \A a \in NearestAfter(table, u, e, t) : a \in Int /\ t <= a
           /\ t \in NearestAfter(table, u, e, t) <=> Happening(table, u, e, t)
           /\ \A v \in Int : v <= t =>
                 \A a \in NearestAfter(table, u, e, t) :
                    \E b \in NearestAfter(table, u, e, v) : b <= a
<1> DEFINE S(x) == NearestAfter(table, u, e, x)
           happens(x) == Happening(table, u, e, x)
<1>1. ASSUME NEW v \in Int
      PROVE  /\ \A a : a \in S(v) <=> /\ a \in v..(v + Week - 1) /\ happens(a)
                                      /\ \A x \in v..(a - 1) : ~happens(x)
             /\ S(v) = {} => \A x \in Int : ~happens(x)
  BY NearestAfterIsFirst
<1>2. Week \in Nat /\ Week > 0
  <2>1. DaysPerWeek \in Nat /\ DaysPerWeek > 0 /\ MinutesPerDay \in Nat /\ MinutesPerDay > 0
    BY WeekAssumption
  <2> QED  BY <2>1 DEF Week
<1> HIDE DEF S, happens
<1>3. ASSUME NEW v \in Int, NEW a \in S(v)
      PROVE  a \in Int /\ v <= a /\ happens(a) /\ \A x \in v..(a - 1) : ~happens(x)
  BY <1>1, <1>2
<1>4. t \in S(t) <=> happens(t)
  <2>1. t \in t..(t + Week - 1) /\ t..(t - 1) = {}  BY <1>2
  <2> QED  BY <2>1, <1>1
<1>5. ASSUME NEW v \in Int, v <= t, NEW a \in S(t)
      PROVE  \E b \in S(v) : b <= a
  <2>1. a \in Int /\ t <= a /\ happens(a)  BY <1>3
  <2>2. PICK b \in S(v) : TRUE  BY <2>1, <1>1
  <2>3. b \in Int /\ v <= b /\ \A x \in v..(b - 1) : ~happens(x)  BY <1>3
  <2>4. a < b => a \in v..(b - 1)  BY <2>1, <2>3, <1>5
  <2>5. b <= a  BY <2>1, <2>3, <2>4
  <2> QED  BY <2>5
<1> QED  BY <1>3, <1>4, <1>5 DEF S, happens

(* The rows of other subscriptions do not matter. *)
LEMMA OnlyOwnRows ==
    ASSUME NEW table, NEW other, NEW u, NEW e,
           ActiveRows(table, u, e) = ActiveRows(other, u, e)
    PROVE  \A t : /\ NearestBefore(table, u, e, t) = NearestBefore(other, u, e, t)
                  /\ NearestAfter(table, u, e, t) = NearestAfter(other, u, e, t)
                  /\ Happening(table, u, e, t) = Happening(other, u, e, t)
BY DEF NearestBefore, NearestAfter, findNearest, Happening, ActiveRows

-----------------------------------------------------------------------------
(* The scheduler: tasks, types and shapes.                                 *)
(* No task names nobody or looks further ahead than the next minute.       *)
TaskIsWhole(task, minute) ==
    /\ task.kind \in {"sync", "override"} => task.sub \in Subs
    /\ task.time <= IF task.kind = "next" THEN minute + 1 ELSE minute

TasksAreWhole ==
    /\ \A i \in 1..Len(queue) : TaskIsWhole(queue[i], now)
    /\ \A task \in postponed :
          TaskIsWhole(task, now) /\ task.kind # "syncAll" /\ task.time <= now
    /\ queue = <<>> => at = 1

(* What has been read is acted upon before the head of the queue goes.     *)
ChosenIsOfHead ==
    /\ chosen.kind = "set" =>
          /\ queue # <<>> /\ Head(queue).kind \in {"syncAll", "sync", "override"}
          /\ chosen.sub = IF Head(queue).kind = "syncAll" THEN at ELSE Head(queue).sub
    /\ chosen.kind = "alarm" => queue # <<>> /\ Head(queue).kind = "next"

OffIsEmpty ==
    ~on => /\ queue = <<>> /\ chosen = Nothing /\ carrier = {} /\ postponed = {}
           /\ alarm = NoAlarm /\ ~inCall

ShapeInv == TypeOK /\ TasksAreWhole /\ ChosenIsOfHead /\ OffIsEmpty

-----------------------------------------------------------------------------
LEMMA Constants ==
    /\ Week \in Nat /\ Week > 0 /\ MIN \in Int /\ MIN < 0 /\ NoAlarm \notin Nat
    /\ LastMinute \in Nat /\ Week <= LastMinute
    /\ Subs \subseteq Nat /\ 1 \in Subs /\ 0 \notin Subs
    /\ \A table \in SUBSET Rows : Repeating(table)
<1>1. Week \in Nat /\ Week > 0
  <2>1. DaysPerWeek \in Nat /\ DaysPerWeek > 0 /\ MinutesPerDay \in Nat /\ MinutesPerDay > 0
    BY WeekAssumption
  <2> QED  BY <2>1 DEF Week
<1>2. MIN \in Int /\ MIN < 0 /\ NoAlarm \notin Nat  BY <1>1 DEF MIN, NoAlarm
<1>3. PICK n \in Nat : Subs = 1..n /\ n > 0
  <2>1. IsFiniteSet(Subs) /\ Subs = 1..Cardinality(Subs) /\ Subs # {}
    BY SchedulerAssumption
  <2>2. Cardinality(Subs) \in Nat  BY <2>1, FS_CardinalityType
  <2> QED  BY <2>1, <2>2
<1>4. ASSUME NEW table \in SUBSET Rows  PROVE Repeating(table)
  <2>1. Rows \subseteq ScheduleOf(Subs)  BY SchedulerAssumption
  <2>2. \A s \in table : s \in ScheduleOf(Subs)  BY <2>1
  <2> QED  BY <2>2 DEF Repeating, ScheduleOf
<1>5. Subs \subseteq Nat /\ 1 \in Subs /\ 0 \notin Subs  BY <1>3
<1>6. LastMinute \in Nat /\ Week <= LastMinute  BY <1>1, SchedulerAssumption
<1> QED  BY <1>1, <1>2, <1>4, <1>5, <1>6

(* The next alarm is not after the next schedule that inverts a            *)
(* subscription.                                                           *)
LEMMA NextProcessingFacts ==
    ASSUME NEW table, Repeating(table), NEW states, NEW t \in Nat
    PROVE  /\ NextProcessingTime(table, states, t) \in Nat \union {NoAlarm}
           /\ \A u \in Subs : \A a \in NearestAfter(table, u, ~states[u].enabled, t) :
                 /\ NextProcessingTime(table, states, t) # NoAlarm
                 /\ NextProcessingTime(table, states, t) <= a
<1> DEFINE after(u) == NearestAfter(table, u, ~states[u].enabled, t)
           times == UNION {after(u) : u \in Subs}
<1>1. \A u : \A a \in after(u) : a \in Nat
  <2> SUFFICES ASSUME NEW u, NEW a \in after(u)  PROVE a \in Nat
    OBVIOUS
  <2>1. a \in Int /\ t <= a  BY AfterFacts
  <2> QED  BY <2>1
<1>2. NextProcessingTime(table, states, t) = IF times = {} THEN NoAlarm ELSE Min(times)
  BY DEF NextProcessingTime
<1> HIDE DEF after
<1>3. times \in SUBSET Nat /\ \A u \in Subs : after(u) \subseteq times  BY <1>1
<1> HIDE DEF times
<1>4. CASE times = {}  BY <1>2, <1>3, <1>4 DEF after
<1>5. CASE times # {}
  <2>1. Min(times) \in times /\ \A y \in times : Min(times) <= y  BY <1>3, <1>5, LeastExists
  <2>2. Min(times) # NoAlarm  BY <2>1, <1>3, Constants
  <2> QED  BY <1>2, <1>3, <1>5, <2>1, <2>2 DEF after
<1> QED  BY <1>4, <1>5

(* The queue, seen as tasks at places. *)
LEMMA QueueTail ==
    ASSUME NEW q \in Seq(Task), q # <<>>
    PROVE  /\ Head(q) = q[1] /\ Head(q) \in Task /\ Len(q) \in Nat /\ Len(q) >= 1
           /\ Tail(q) \in Seq(Task) /\ Len(Tail(q)) = Len(q) - 1
           /\ \A i \in 1..(Len(q) - 1) : Tail(q)[i] = q[i + 1]
<1>1. Len(q) \in Nat /\ Len(q) >= 1  OBVIOUS
<1>2. Head(q) = q[1] /\ q[1] \in Task  BY <1>1
<1>3. Tail(q) \in Seq(Task) /\ Len(Tail(q)) = Len(q) - 1  BY <1>1
<1>4. \A i \in 1..(Len(q) - 1) : Tail(q)[i] = q[i + 1]  BY <1>1
<1> QED  BY <1>1, <1>2, <1>3, <1>4

LEMMA QueueGrows ==
    ASSUME NEW q \in Seq(Task), NEW r \in Seq(Task)
    PROVE  /\ q \o r \in Seq(Task) /\ Len(q) \in Nat /\ Len(r) \in Nat
           /\ Len(q \o r) = Len(q) + Len(r)
           /\ \A i \in 1..Len(q) : (q \o r)[i] = q[i]
           /\ \A i \in 1..Len(r) : (q \o r)[Len(q) + i] = r[i]
           /\ \A i \in 1..Len(q \o r) : \/ i \in 1..Len(q)
                                        \/ \E j \in 1..Len(r) : i = Len(q) + j
<1>1. q \o r \in Seq(Task) /\ Len(q) \in Nat /\ Len(r) \in Nat /\ Len(q \o r) = Len(q) + Len(r)
  BY LenProperties
<1>2. \A i \in 1..Len(q) : (q \o r)[i] = q[i]  BY <1>1
<1>3. \A i \in 1..Len(r) : (q \o r)[Len(q) + i] = r[i]  BY <1>1
<1>4. ASSUME NEW i \in 1..Len(q \o r), i \notin 1..Len(q)
      PROVE  \E j \in 1..Len(r) : i = Len(q) + j
  <2>1. i - Len(q) \in 1..Len(r) /\ i = Len(q) + (i - Len(q))  BY <1>1, <1>4
  <2> QED  BY <2>1
<1> QED  BY <1>1, <1>2, <1>3, <1>4
-----------------------------------------------------------------------------
(* Types and shapes.                                                       *)
SubRecord == [enabled : BOOLEAN, lastActivated : Week..LastMinute \union {MIN},
              lastDeactivated : Week..LastMinute \union {MIN}, keep : BOOLEAN]

LEMMA NowIsNat ==
    ASSUME TypeOK
    PROVE  now \in Nat /\ Week <= now /\ now + 1 \in Nat /\ Repeating(schedules)
BY Constants DEF TypeOK

LEMMA ExpectedIsBoolean ==
    ASSUME TypeOK, NEW u \in Subs
    PROVE  \A table, t, override : Expected(table, u, t, override) \in BOOLEAN
<1>1. subs[u].keep \in BOOLEAN /\ subs[u].enabled \in BOOLEAN  BY DEF TypeOK
<1> QED  BY <1>1 DEF Expected, getSubscriptionExpectedEnabledState

LEMMA StateIsSet ==
    ASSUME TypeOK, NEW u \in Subs, NEW enabled \in BOOLEAN, NEW keep \in BOOLEAN
    PROVE  /\ SetState(subs[u], enabled, keep) \in SubRecord
           /\ [subs EXCEPT ![u] = SetState(subs[u], enabled, keep)] \in [Subs -> SubRecord]
<1>1. subs \in [Subs -> SubRecord] /\ subs[u] \in SubRecord /\ now \in Week..LastMinute
  BY DEF TypeOK, SubRecord
<1>2. SetState(subs[u], enabled, keep) \in SubRecord
  BY <1>1 DEF SetState, Switched, SubRecord
<1> QED  BY <1>1, <1>2

LEMMA TasksAreTasks ==
    ASSUME NEW t \in Nat, NEW u \in Subs, NEW override \in BOOLEAN
    PROVE  /\ SyncAll(t) \in Task /\ SyncOne(u, t, override) \in Task
           /\ UpdateNext(t) \in Task
BY DEF SyncAll, SyncOne, UpdateNext, Task

(* The next subscription or the next task: the tasks left were there.      *)
LEMMA AdvanceShape ==
    ASSUME ShapeInv, queue # <<>>, Advance
    PROVE  /\ queue' \in Seq(Task) /\ at' \in Subs /\ (queue' = <<>> => at' = 1)
           /\ \A i \in 1..Len(queue') : \E j \in 1..Len(queue) : queue'[i] = queue[j]
<1>1. queue \in Seq(Task) /\ at \in Subs /\ 1 \in Subs
  BY Constants DEF ShapeInv, TypeOK
<1>2. CASE at' = at + 1 /\ UNCHANGED queue /\ at + 1 \in Subs
  BY <1>1, <1>2
<1>3. CASE Finish
  <2>1. queue' = Tail(queue) /\ at' = 1  BY <1>3 DEF Finish
  <2>2. /\ Tail(queue) \in Seq(Task) /\ Len(Tail(queue)) = Len(queue) - 1 /\ Len(queue) \in Nat
        /\ \A i \in 1..(Len(queue) - 1) : Tail(queue)[i] = queue[i + 1]
    BY <1>1, QueueTail
  <2>3. ASSUME NEW i \in 1..Len(queue')
        PROVE  \E j \in 1..Len(queue) : queue'[i] = queue[j]
    <3>1. i + 1 \in 1..Len(queue) /\ queue'[i] = queue[i + 1]  BY <2>1, <2>2
    <3> QED  BY <3>1
  <2> QED  BY <1>1, <2>1, <2>2, <2>3
<1> QED  BY <1>2, <1>3 DEF Advance

(* The task that Decide is at. *)
TaskSub == IF Head(queue).kind = "syncAll" THEN at ELSE Head(queue).sub

LEMMA HeadIsWhole ==
    ASSUME ShapeInv, queue # <<>>
    PROVE  /\ Head(queue) \in Task /\ Head(queue) = queue[1] /\ TaskIsWhole(Head(queue), now)
           /\ Head(queue).time \in Nat
           /\ Head(queue).kind \in {"syncAll", "sync", "override"} =>
                 TaskSub \in Subs /\ Head(queue).time <= now
<1>1. queue \in Seq(Task) /\ at \in Subs  BY DEF ShapeInv, TypeOK
<1>2. Head(queue) = queue[1] /\ Head(queue) \in Task /\ 1 \in 1..Len(queue)
  BY <1>1, QueueTail
<1>3. TaskIsWhole(Head(queue), now)  BY <1>2 DEF ShapeInv, TasksAreWhole
<1> QED  BY <1>1, <1>2, <1>3 DEF TaskIsWhole, Task, TaskSub

LEMMA DecideShape == ShapeInv /\ Decide => ShapeInv'
<1> SUFFICES ASSUME ShapeInv, Decide  PROVE ShapeInv'
  OBVIOUS
<1> DEFINE task == Head(queue)
           u == TaskSub
           override == task.kind = "override"
           expected == Expected(schedules, u, task.time, override)
<1>1. /\ on /\ chosen = Nothing /\ queue # <<>> /\ task.kind \in {"syncAll", "sync", "override"}
      /\ UNCHANGED <<now, on, schedules, subs, alarm, carrier, inCall, want>>
  BY DEF Decide, Runs, Idle
<1>2. /\ task \in Task /\ task.time \in Nat /\ u \in Subs /\ task.time <= now
  BY <1>1, HeadIsWhole
<1>3. expected \in BOOLEAN  BY <1>2, ExpectedIsBoolean DEF ShapeInv
<1>4. \/ Advance /\ UNCHANGED <<chosen, postponed>>
      \/ Postpone(u, task.time, override) /\ Advance /\ UNCHANGED chosen
      \/ /\ chosen' = [kind |-> "set", sub |-> u, enabled |-> expected,
                       keep |-> KeepDisabledAcrossBoots(u, override)]
         /\ UNCHANGED <<queue, at, postponed>>
  BY DEF Decide, TaskSub
<1>5. KeepDisabledAcrossBoots(u, override) \in BOOLEAN
  BY <1>2 DEF KeepDisabledAcrossBoots, ShapeInv, TypeOK
<1> HIDE DEF expected, u
<1>6. CASE Advance /\ UNCHANGED chosen /\ (UNCHANGED postponed \/ Postpone(u, task.time, override))
  <2>1. /\ queue' \in Seq(Task) /\ at' \in Subs /\ (queue' = <<>> => at' = 1)
        /\ \A i \in 1..Len(queue') : \E j \in 1..Len(queue) : queue'[i] = queue[j]
    BY <1>1, <1>6, AdvanceShape
  <2>2. \A i \in 1..Len(queue') : TaskIsWhole(queue'[i], now')
    BY <2>1, <1>1 DEF ShapeInv, TasksAreWhole
  <2>3. postponed' \subseteq Task /\ \A p \in postponed' :
           TaskIsWhole(p, now') /\ p.kind # "syncAll" /\ p.time <= now'
    <3>1. CASE UNCHANGED postponed
      BY <3>1, <1>1 DEF ShapeInv, TasksAreWhole, TypeOK
    <3>2. CASE Postpone(u, task.time, override)
      <4>1. postponed' = postponed \union {SyncOne(u, task.time, override), UpdateNext(task.time)}
        BY <3>2 DEF Postpone
      <4>2. now \in Nat  BY NowIsNat DEF ShapeInv
      <4>3. \A p \in {SyncOne(u, task.time, override), UpdateNext(task.time)} :
               p \in Task /\ TaskIsWhole(p, now) /\ p.kind # "syncAll" /\ p.time <= now
        <5> HIDE DEF task
        <5> QED  BY <1>2, <4>2 DEF SyncOne, UpdateNext, TaskIsWhole, Task
      <4> QED  BY <4>1, <4>3, <1>1 DEF ShapeInv, TasksAreWhole, TypeOK
    <3> QED  BY <1>6, <3>1, <3>2
  <2>4. chosen' = Nothing  BY <1>1, <1>6
  <2> QED  BY <2>1, <2>2, <2>3, <2>4, <1>1
       DEF ShapeInv, TypeOK, TasksAreWhole, ChosenIsOfHead, OffIsEmpty, Nothing
<1>7. CASE /\ chosen' = [kind |-> "set", sub |-> u, enabled |-> expected,
                         keep |-> KeepDisabledAcrossBoots(u, override)]
           /\ UNCHANGED <<queue, at, postponed>>
  <2>1. TypeOK'  BY <1>1, <1>2, <1>3, <1>5, <1>7 DEF ShapeInv, TypeOK
  <2>2. TasksAreWhole'  BY <1>1, <1>7 DEF ShapeInv, TasksAreWhole
  <2>3. ChosenIsOfHead'  BY <1>1, <1>7 DEF ChosenIsOfHead, TaskSub, u
  <2>4. OffIsEmpty'  BY <1>1, <1>7 DEF OffIsEmpty
  <2> QED  BY <2>1, <2>2, <2>3, <2>4 DEF ShapeInv
<1> QED  BY <1>4, <1>6, <1>7

LEMMA ApplyShape == ShapeInv /\ Apply => ShapeInv'
<1> SUFFICES ASSUME ShapeInv, Apply  PROVE ShapeInv'
  OBVIOUS
<1>1. /\ on /\ chosen.kind = "set" /\ chosen' = Nothing /\ Advance
      /\ subs' = [subs EXCEPT ![chosen.sub] = SetState(subs[chosen.sub], chosen.enabled, chosen.keep)]
      /\ carrier' = carrier \union Changed(chosen.sub)
      /\ UNCHANGED <<now, on, schedules, alarm, inCall, postponed, want>>
  <2>1. TypeOK  BY DEF ShapeInv
  <2>2. subs \in [Subs -> SubRecord]  BY <2>1 DEF TypeOK, SubRecord
  <2> QED  BY <2>2 DEF Apply
<1>2. queue # <<>> /\ chosen.sub \in Subs /\ chosen.enabled \in BOOLEAN /\ chosen.keep \in BOOLEAN
  BY <1>1 DEF ShapeInv, TypeOK, ChosenIsOfHead, Nothing
<1>3. /\ queue' \in Seq(Task) /\ at' \in Subs /\ (queue' = <<>> => at' = 1)
      /\ \A i \in 1..Len(queue') : \E j \in 1..Len(queue) : queue'[i] = queue[j]
  BY <1>1, <1>2, AdvanceShape
<1>4. \A i \in 1..Len(queue') : TaskIsWhole(queue'[i], now')
  BY <1>1, <1>3 DEF ShapeInv, TasksAreWhole
<1>5. subs' \in [Subs -> SubRecord]  BY <1>1, <1>2, StateIsSet DEF ShapeInv
<1>6. carrier' \subseteq Subs  BY <1>1, <1>2 DEF Changed, ShapeInv, TypeOK
<1>7. TypeOK'  BY <1>1, <1>3, <1>5, <1>6 DEF ShapeInv, TypeOK, SubRecord
<1>8. TasksAreWhole'  BY <1>1, <1>3, <1>4 DEF ShapeInv, TasksAreWhole
<1>9. ChosenIsOfHead' /\ OffIsEmpty'  BY <1>1 DEF ChosenIsOfHead, OffIsEmpty, Nothing
<1> QED  BY <1>7, <1>8, <1>9 DEF ShapeInv

LEMMA AlarmShape == ShapeInv /\ (ComputeNext \/ SetAlarm) => ShapeInv'
<1>1. ASSUME ShapeInv, ComputeNext  PROVE ShapeInv'
  <2>1. /\ on /\ chosen = Nothing /\ queue # <<>> /\ Head(queue).kind = "next"
        /\ chosen' = [kind |-> "alarm",
                      time |-> NextProcessingTime(schedules, subs, Head(queue).time)]
        /\ UNCHANGED <<now, on, schedules, subs, alarm, queue, at, carrier, inCall, postponed, want>>
    BY <1>1 DEF ComputeNext, Runs, Idle
  <2>2. NextProcessingTime(schedules, subs, Head(queue).time) \in Nat \union {NoAlarm}
    BY <1>1, <2>1, HeadIsWhole, NowIsNat, NextProcessingFacts DEF ShapeInv
  <2>3. TypeOK'  BY <1>1, <2>1, <2>2 DEF ShapeInv, TypeOK
  <2>4. TasksAreWhole'  BY <1>1, <2>1 DEF ShapeInv, TasksAreWhole
  <2>5. ChosenIsOfHead' /\ OffIsEmpty'  BY <2>1 DEF ChosenIsOfHead, OffIsEmpty
  <2> QED  BY <2>3, <2>4, <2>5 DEF ShapeInv
<1>2. ASSUME ShapeInv, SetAlarm  PROVE ShapeInv'
  <2>1. /\ on /\ chosen.kind = "alarm" /\ alarm' = chosen.time /\ chosen' = Nothing
        /\ queue' = Tail(queue) /\ at' = 1
        /\ UNCHANGED <<now, on, schedules, subs, carrier, inCall, postponed, want>>
    BY <1>2 DEF SetAlarm, Finish
  <2>2. queue # <<>> /\ Head(queue).kind = "next"  BY <1>2, <2>1 DEF ShapeInv, ChosenIsOfHead
  <2>3. Advance  BY <2>1, <2>2 DEF Advance, Finish
  <2>4. /\ queue' \in Seq(Task) /\ at' \in Subs /\ (queue' = <<>> => at' = 1)
        /\ \A i \in 1..Len(queue') : \E j \in 1..Len(queue) : queue'[i] = queue[j]
    BY <1>2, <2>2, <2>3, AdvanceShape
  <2>5. \A i \in 1..Len(queue') : TaskIsWhole(queue'[i], now')
    BY <1>2, <2>1, <2>4 DEF ShapeInv, TasksAreWhole
  <2>6. chosen.time \in Nat \union {NoAlarm}
    BY <1>2, <2>1 DEF ShapeInv, TypeOK, Nothing
  <2>7. TypeOK'  BY <1>2, <2>1, <2>4, <2>6 DEF ShapeInv, TypeOK
  <2>8. TasksAreWhole'  BY <1>2, <2>1, <2>4, <2>5 DEF ShapeInv, TasksAreWhole
  <2>9. ChosenIsOfHead' /\ OffIsEmpty'  BY <2>1 DEF ChosenIsOfHead, OffIsEmpty, Nothing
  <2> QED  BY <2>7, <2>8, <2>9 DEF ShapeInv
<1> QED  BY <1>1, <1>2

LEMMA TwoTasks == ASSUME NEW a, NEW b  PROVE <<a>> \o <<b>> = <<a, b>>
<1> DEFINE q == <<a>>  r == <<b>>  S == {a, b}
<1>1. q \in Seq(S) /\ r \in Seq(S) /\ Len(q) = 1 /\ Len(r) = 1 /\ q[1] = a /\ r[1] = b
  OBVIOUS
<1>2. <<a, b>> \in Seq(S) /\ Len(<<a, b>>) = 2 /\ <<a, b>>[1] = a /\ <<a, b>>[2] = b
  OBVIOUS
<1> HIDE DEF q, r, S
<1>3. /\ q \o r \in Seq(S) /\ Len(q \o r) = Len(q) + Len(r)
      /\ \A i \in 1..Len(q) + Len(r) : (q \o r)[i] = IF i <= Len(q) THEN q[i] ELSE r[i - Len(q)]
  BY <1>1, ConcatProperties
<1>4. Len(q \o r) = 2 /\ (q \o r)[1] = a /\ (q \o r)[2] = b
  BY <1>1, <1>3
<1> DEFINE both == <<a, b>>
<1>5. both \in Seq(S) /\ Len(both) = 2 /\ both[1] = a /\ both[2] = b
  BY <1>2
<1> HIDE DEF both
<1>6. \A i \in 1..Len(both) : both[i] = (q \o r)[i]
  BY <1>4, <1>5
<1>7. both = q \o r
  BY <1>3, <1>4, <1>5, <1>6, SeqEqual
<1> QED  BY <1>7 DEF q, r, both

(* The queue gains these tasks, behind the others. *)
Gained(tasks) ==
    /\ queue' \in Seq(Task) /\ Len(queue') \in Nat /\ Len(queue) \in Nat
    /\ Len(queue) < Len(queue')
    /\ \A i \in 1..Len(queue) : i \in 1..Len(queue') /\ queue'[i] = queue[i]
    /\ \A i \in 1..Len(queue') : i \in 1..Len(queue) \/ queue'[i] \in tasks
    /\ \A task \in tasks : \E i \in 1..Len(queue') : Len(queue) < i /\ queue'[i] = task

LEMMA GainedBy ==
    ASSUME queue \in Seq(Task), NEW r \in Seq(Task), r # <<>>, queue' = queue \o r,
           NEW tasks, \A i \in 1..Len(r) : r[i] \in tasks,
           \A task \in tasks : \E i \in 1..Len(r) : task = r[i]
    PROVE  Gained(tasks)
<1>1. /\ queue' \in Seq(Task) /\ Len(queue) \in Nat /\ Len(r) \in Nat
      /\ Len(queue') = Len(queue) + Len(r)
      /\ \A i \in 1..Len(queue) : queue'[i] = queue[i]
      /\ \A i \in 1..Len(r) : queue'[Len(queue) + i] = r[i]
      /\ \A i \in 1..Len(queue') : \/ i \in 1..Len(queue)
                                   \/ \E j \in 1..Len(r) : i = Len(queue) + j
  BY QueueGrows
<1>2. Len(r) > 0  BY <1>1
<1>3. \A i \in 1..Len(queue) : i \in 1..Len(queue')  BY <1>1
<1>4. \A i \in 1..Len(queue') : i \in 1..Len(queue) \/ queue'[i] \in tasks  BY <1>1
<1>5. ASSUME NEW task \in tasks
      PROVE  \E i \in 1..Len(queue') : Len(queue) < i /\ queue'[i] = task
  <2>1. PICK j \in 1..Len(r) : task = r[j]  OBVIOUS
  <2>2. Len(queue) + j \in 1..Len(queue') /\ Len(queue) < Len(queue) + j  BY <1>1
  <2> QED  BY <1>1, <2>1, <2>2
<1>6. Len(queue) < Len(queue')  BY <1>1, <1>2
<1> QED  BY <1>1, <1>3, <1>4, <1>5, <1>6 DEF Gained

LEMMA GainsOne ==
    ASSUME queue \in Seq(Task), NEW a \in Task, queue' = queue \o <<a>>
    PROVE  Gained({a})
<1> DEFINE r == <<a>>
<1>1. r \in Seq(Task) /\ r # <<>> /\ Len(r) = 1 /\ r[1] = a  OBVIOUS
<1>2. queue' = queue \o r  OBVIOUS
<1> HIDE DEF r
<1>3. /\ \A i \in 1..Len(r) : r[i] \in {a}
      /\ \A task \in {a} : \E i \in 1..Len(r) : task = r[i]
  BY <1>1
<1> QED  BY <1>1, <1>2, <1>3, GainedBy

LEMMA GainsTwo ==
    ASSUME queue \in Seq(Task), NEW a \in Task, NEW b \in Task, queue' = queue \o <<a, b>>
    PROVE  Gained({a, b})
<1> DEFINE r == <<a, b>>
<1>1. r \in Seq(Task) /\ r # <<>> /\ Len(r) = 2 /\ r[1] = a /\ r[2] = b  OBVIOUS
<1>2. queue' = queue \o r  OBVIOUS
<1> HIDE DEF r
<1>3. /\ \A i \in 1..Len(r) : r[i] \in {a, b}
      /\ \A task \in {a, b} : \E i \in 1..Len(r) : task = r[i]
  BY <1>1
<1> QED  BY <1>1, <1>2, <1>3, GainedBy

LEMMA AlarmGains ==
    ASSUME ShapeInv, AlarmRings
    PROVE  Gained({SyncAll(now), UpdateNext(now + 1)})
<1>1. now \in Nat /\ now + 1 \in Nat /\ queue \in Seq(Task)
  BY NowIsNat DEF ShapeInv, TypeOK
<1>2. SyncAll(now) \in Task /\ UpdateNext(now + 1) \in Task
  BY <1>1, Constants, TasksAreTasks
<1>3. queue' = queue \o <<SyncAll(now), UpdateNext(now + 1)>>  BY DEF AlarmRings
<1> QED  BY <1>1, <1>2, <1>3, GainsTwo

CarrierTasks(u) == IF Legacy /\ ~subs[u].enabled THEN {UpdateNext(now + 1)}
                   ELSE {SyncOne(u, now, FALSE), UpdateNext(now + 1)}

LEMMA CarrierGains ==
    ASSUME ShapeInv, NEW u \in Subs, CarrierConfigChanged(u)
    PROVE  Gained(CarrierTasks(u))
<1> DEFINE a == SyncOne(u, now, FALSE)  b == UpdateNext(now + 1)
<1>1. now \in Nat /\ now + 1 \in Nat /\ queue \in Seq(Task)
  BY NowIsNat DEF ShapeInv, TypeOK
<1>2. a \in Task /\ b \in Task  BY <1>1, TasksAreTasks
<1>3. queue' = queue \o (IF Legacy /\ ~subs[u].enabled THEN <<>> ELSE <<a>>) \o <<b>>
  BY DEF CarrierConfigChanged
<1>4. CarrierTasks(u) = IF Legacy /\ ~subs[u].enabled THEN {b} ELSE {a, b}
  BY DEF CarrierTasks
<1> HIDE DEF a, b
<1>5. CASE Legacy /\ ~subs[u].enabled
  <2>1. queue' = queue \o <<>> \o <<b>>  BY <1>3, <1>5
  <2>2. queue \o <<>> = queue  BY <1>1
  <2>3. queue' = queue \o <<b>>  BY <2>1, <2>2
  <2> QED  BY <1>1, <1>2, <1>4, <1>5, <2>3, GainsOne
<1>6. CASE ~(Legacy /\ ~subs[u].enabled)
  <2>1. queue' = queue \o <<a>> \o <<b>>  BY <1>3, <1>6
  <2>2. <<a>> \in Seq(Task) /\ <<b>> \in Seq(Task)  BY <1>2
  <2>3. (queue \o <<a>>) \o <<b>> = queue \o (<<a>> \o <<b>>)
    BY <1>1, <2>2, ConcatAssociative
  <2>4. <<a>> \o <<b>> = <<a, b>>  BY TwoTasks
  <2>5. queue' = queue \o <<a, b>>  BY <2>1, <2>3, <2>4
  <2> QED  BY <1>1, <1>2, <1>4, <1>6, <2>5, GainsTwo
<1> QED  BY <1>5, <1>6

LEMMA CallEndGains ==
    ASSUME ShapeInv, NEW task \in postponed, CallEndPoll(task)
    PROVE  Gained({task})
<1>1. queue' = Append(queue, task)  BY DEF CallEndPoll
<1>2. task \in Task /\ queue \in Seq(Task)  BY DEF ShapeInv, TypeOK
<1>3. queue' = queue \o <<task>>  BY <1>1, <1>2
<1> QED  BY <1>2, <1>3, GainsOne

LEMMA BootGains ==
    ASSUME ShapeInv, Boot
    PROVE  queue = <<>> /\ Gained({SyncAll(now), UpdateNext(now + 1)})
<1>1. now \in Nat /\ now + 1 \in Nat  BY NowIsNat DEF ShapeInv
<1>2. SyncAll(now) \in Task /\ UpdateNext(now + 1) \in Task
  BY <1>1, Constants, TasksAreTasks
<1>3. queue = <<>>  BY DEF Boot, ShapeInv, OffIsEmpty
<1> DEFINE r == <<SyncAll(now), UpdateNext(now + 1)>>
<1>4. r \in Seq(Task) /\ queue' = r  BY <1>2 DEF Boot
<1> HIDE DEF r
<1>5. queue \in Seq(Task) /\ queue \o r = r  BY <1>3, <1>4
<1>6. queue' = queue \o <<SyncAll(now), UpdateNext(now + 1)>>  BY <1>4, <1>5 DEF r
<1> QED  BY <1>2, <1>3, <1>5, <1>6, GainsTwo

LEMMA GainsShape ==
    ASSUME ShapeInv, NEW tasks, Gained(tasks), UNCHANGED now,
           \A task \in tasks : TaskIsWhole(task, now)
    PROVE  /\ queue' \in Seq(Task) /\ queue' # <<>>
           /\ \A i \in 1..Len(queue') : TaskIsWhole(queue'[i], now')
           /\ queue # <<>> => Head(queue') = Head(queue)
<1>1. queue \in Seq(Task) /\ \A i \in 1..Len(queue) : TaskIsWhole(queue[i], now)
  BY DEF ShapeInv, TypeOK, TasksAreWhole
<1>2. \A i \in 1..Len(queue') : TaskIsWhole(queue'[i], now')
  BY <1>1 DEF Gained
<1>3. queue' \in Seq(Task) /\ Len(queue') > 0  BY <1>1 DEF Gained
<1>4. queue' # <<>>  BY <1>3
<1>5. ASSUME queue # <<>>  PROVE Head(queue') = Head(queue)
  <2>1. Head(queue') = queue'[1] /\ Head(queue) = queue[1] /\ 1 \in 1..Len(queue)
    BY <1>1, <1>3, <1>4, <1>5, QueueTail
  <2> QED  BY <2>1 DEF Gained
<1> QED  BY <1>2, <1>3, <1>4, <1>5

LEMMA ReceiversShape ==
    ASSUME ShapeInv,
           \/ AlarmRings
           \/ \E u \in Subs : CarrierConfigChanged(u)
           \/ \E task \in postponed : CallEndPoll(task)
    PROVE  ShapeInv'
<1>1. now \in Nat /\ now + 1 \in Nat  BY NowIsNat DEF ShapeInv
<1>2. /\ on /\ UNCHANGED <<now, on, schedules, subs, at, chosen, inCall, want>>
      /\ alarm' \in {alarm, NoAlarm} /\ carrier' \subseteq carrier /\ postponed' \subseteq postponed
  <2>1. CASE AlarmRings  BY <2>1 DEF AlarmRings, Due
  <2>2. CASE \E u \in Subs : CarrierConfigChanged(u)  BY <2>2 DEF CarrierConfigChanged
  <2>3. CASE \E task \in postponed : CallEndPoll(task)  BY <2>3 DEF CallEndPoll
  <2> QED  BY <2>1, <2>2, <2>3
<1>3. \E tasks : Gained(tasks) /\ \A task \in tasks : TaskIsWhole(task, now)
  <2>1. CASE AlarmRings
    <3>1. Gained({SyncAll(now), UpdateNext(now + 1)})  BY <2>1, AlarmGains
    <3>2. TaskIsWhole(SyncAll(now), now) /\ TaskIsWhole(UpdateNext(now + 1), now)
      BY <1>1 DEF TaskIsWhole, SyncAll, UpdateNext
    <3> QED  BY <3>1, <3>2
  <2>2. ASSUME NEW u \in Subs, CarrierConfigChanged(u)
        PROVE  \E tasks : Gained(tasks) /\ \A task \in tasks : TaskIsWhole(task, now)
    <3>1. Gained(CarrierTasks(u))  BY <2>2, CarrierGains
    <3>2. TaskIsWhole(SyncOne(u, now, FALSE), now) /\ TaskIsWhole(UpdateNext(now + 1), now)
      BY <1>1 DEF TaskIsWhole, SyncOne, UpdateNext
    <3>3. \A task \in CarrierTasks(u) : TaskIsWhole(task, now)  BY <3>2 DEF CarrierTasks
    <3> QED  BY <3>1, <3>3
  <2>3. ASSUME NEW task \in postponed, CallEndPoll(task)
        PROVE  \E tasks : Gained(tasks) /\ \A t \in tasks : TaskIsWhole(t, now)
    <3>1. Gained({task})  BY <2>3, CallEndGains
    <3>2. TaskIsWhole(task, now)  BY DEF ShapeInv, TasksAreWhole
    <3> QED  BY <3>1, <3>2
  <2> QED  BY <2>1, <2>2, <2>3
<1>4. /\ queue' \in Seq(Task) /\ queue' # <<>>
      /\ \A i \in 1..Len(queue') : TaskIsWhole(queue'[i], now')
      /\ queue # <<>> => Head(queue') = Head(queue)
  BY <1>2, <1>3, GainsShape
<1>5. TypeOK'  BY <1>2, <1>4 DEF ShapeInv, TypeOK
<1>6. TasksAreWhole'  BY <1>2, <1>4 DEF ShapeInv, TasksAreWhole
<1>7. ChosenIsOfHead'  BY <1>2, <1>4 DEF ShapeInv, ChosenIsOfHead
<1>8. OffIsEmpty'  BY <1>2 DEF OffIsEmpty
<1> QED  BY <1>5, <1>6, <1>7, <1>8 DEF ShapeInv

LEMMA SwitchShape ==
    ASSUME ShapeInv, NEW u \in Subs, UserSwitches(u)
    PROVE  /\ ShapeInv'
           /\ subs' = [subs EXCEPT ![u] = SetState(subs[u], ~subs[u].enabled, subs[u].enabled)]
<1>1. subs \in [Subs -> SubRecord] /\ subs[u].enabled \in BOOLEAN
  BY DEF ShapeInv, TypeOK, SubRecord
<1>2. /\ on /\ carrier' = carrier \union {u}
      /\ subs' = [subs EXCEPT ![u] = SetState(subs[u], ~subs[u].enabled, subs[u].enabled)]
      /\ want' = [want EXCEPT ![u] = IF subs[u].enabled THEN "kept" ELSE "on"]
      /\ UNCHANGED <<now, on, schedules, alarm, queue, at, chosen, inCall, postponed>>
  BY <1>1 DEF UserSwitches, Event
<1>3. subs' \in [Subs -> SubRecord]
  <2>1. \A b \in BOOLEAN : (~b) \in BOOLEAN  OBVIOUS
  <2>2. TypeOK  BY DEF ShapeInv
  <2>3. PICK b \in BOOLEAN : b = ~subs[u].enabled  BY <1>1, <2>1
  <2>4. [subs EXCEPT ![u] = SetState(subs[u], b, subs[u].enabled)] \in [Subs -> SubRecord]
    BY <1>1, <2>2, StateIsSet
  <2> QED  BY <1>2, <2>3, <2>4
<1>4. TypeOK'  BY <1>2, <1>3 DEF ShapeInv, TypeOK, SubRecord
<1>5. TasksAreWhole'  BY <1>2 DEF ShapeInv, TasksAreWhole
<1>6. ChosenIsOfHead' /\ OffIsEmpty'  BY <1>2 DEF ShapeInv, ChosenIsOfHead, OffIsEmpty
<1> QED  BY <1>2, <1>4, <1>5, <1>6 DEF ShapeInv

LEMMA EditShape ==
    ASSUME ShapeInv, NEW table \in SUBSET Rows, NEW u \in Subs, Edit(table, u)
    PROVE  /\ ShapeInv' /\ Event /\ UserEdits
           /\ schedules' = table /\ alarm' = NextProcessingTime(table, subs', now + 1)
           /\ UNCHANGED <<now, on, queue, at, chosen, inCall>>
           /\ carrier' = carrier \union Changed(u)
           /\ want' = [want EXCEPT ![u] = Latest(table, u, now, want[u], subs[u].enabled)]
           /\ LET expected == Expected(table, u, now, TRUE)
                  change == subs[u].enabled # expected
              IN  /\ IF change /\ ~MustPostpone(expected)
                     THEN subs' = [subs EXCEPT ![u] = SetState(subs[u], expected, FALSE)]
                     ELSE subs' = subs
                  /\ IF change /\ MustPostpone(expected) THEN Postpone(u, now, TRUE)
                     ELSE UNCHANGED postponed
<1> DEFINE expected == Expected(table, u, now, TRUE)
           change == subs[u].enabled # expected
<1>1. /\ subs \in [Subs -> SubRecord] /\ now \in Nat /\ now + 1 \in Nat /\ Repeating(table)
      /\ want \in [Subs -> {"on", "off", "kept"}]
  BY NowIsNat, Constants DEF ShapeInv, TypeOK, SubRecord
<1>2. expected \in BOOLEAN  BY ExpectedIsBoolean DEF ShapeInv
<1>3. /\ Event /\ UserEdits
      /\ schedules' = table /\ alarm' = NextProcessingTime(table, subs', now + 1)
      /\ UNCHANGED <<now, on, queue, at, chosen, inCall>>
      /\ carrier' = carrier \union Changed(u)
      /\ want' = [want EXCEPT ![u] = Latest(table, u, now, want[u], subs[u].enabled)]
  BY <1>1 DEF Edit
<1>4. /\ IF change /\ ~MustPostpone(expected)
         THEN subs' = [subs EXCEPT ![u] = SetState(subs[u], expected, FALSE)]
         ELSE subs' = subs
      /\ IF change /\ MustPostpone(expected) THEN Postpone(u, now, TRUE)
         ELSE UNCHANGED postponed
  BY <1>1 DEF Edit
<1> HIDE DEF expected
<1>5. subs' \in [Subs -> SubRecord]
  <2>1. TypeOK  BY DEF ShapeInv
  <2>2. PICK keep \in BOOLEAN : keep = FALSE  OBVIOUS
  <2>3. [subs EXCEPT ![u] = SetState(subs[u], expected, keep)] \in [Subs -> SubRecord]
    BY <1>2, <2>1, StateIsSet
  <2> QED  BY <1>1, <1>4, <2>2, <2>3
<1>6. alarm' \in Nat \union {NoAlarm}  BY <1>1, <1>3, NextProcessingFacts
<1>7. Latest(table, u, now, want[u], subs[u].enabled) \in {"on", "off", "kept"}
  BY DEF Latest, Off
<1>8. postponed' \subseteq Task /\ \A p \in postponed' :
         TaskIsWhole(p, now') /\ p.kind # "syncAll" /\ p.time <= now'
  <2>1. CASE UNCHANGED postponed
    BY <2>1, <1>3 DEF ShapeInv, TasksAreWhole, TypeOK
  <2>2. CASE Postpone(u, now, TRUE)
    <3>1. postponed' = postponed \union {SyncOne(u, now, TRUE), UpdateNext(now)}
      BY <2>2 DEF Postpone
    <3>2. \A p \in {SyncOne(u, now, TRUE), UpdateNext(now)} :
             p \in Task /\ TaskIsWhole(p, now) /\ p.kind # "syncAll" /\ p.time <= now
      BY <1>1 DEF SyncOne, UpdateNext, TaskIsWhole, Task
    <3> QED  BY <3>1, <3>2, <1>3 DEF ShapeInv, TasksAreWhole, TypeOK
  <2> QED  BY <2>1, <2>2, <1>4
<1>9. carrier' \subseteq Subs  BY <1>3 DEF Changed, ShapeInv, TypeOK
<1>10. want' \in [Subs -> {"on", "off", "kept"}]  BY <1>1, <1>3, <1>7
<1>11. on  BY <1>3 DEF Event
<1>12. TypeOK'
  BY <1>3, <1>5, <1>6, <1>8, <1>9, <1>10 DEF ShapeInv, TypeOK, SubRecord
<1>13. TasksAreWhole'  BY <1>3, <1>8 DEF ShapeInv, TasksAreWhole
<1>14. ChosenIsOfHead' /\ OffIsEmpty'
  BY <1>3, <1>11 DEF ShapeInv, ChosenIsOfHead, OffIsEmpty
<1> QED  BY <1>3, <1>4, <1>12, <1>13, <1>14 DEF ShapeInv, expected

LEMMA UserEditsAreEdits ==
    ASSUME ShapeInv, NEW row \in Rows, UserAdds(row) \/ UserDeletes(row)
    PROVE  \E table \in SUBSET Rows : /\ Edit(table, row.sub) /\ row.sub \in Subs
                                      /\ table \in {schedules \union {row}, schedules \ {row}}
<1>1. schedules \subseteq Rows  BY DEF ShapeInv, TypeOK
<1>2. row.sub \in Subs  BY SchedulerAssumption DEF ScheduleOf
<1> QED  BY <1>1, <1>2 DEF UserAdds, UserDeletes

LEMMA OthersShape ==
    ASSUME ShapeInv, CallStartsOrEnds \/ Tick \/ PowerOff \/ Boot
    PROVE  ShapeInv'
<1>1. CASE CallStartsOrEnds
  <2>1. /\ on /\ inCall' \in BOOLEAN
        /\ UNCHANGED <<now, on, schedules, subs, alarm, queue, at, chosen, carrier, postponed, want>>
    BY <1>1 DEF CallStartsOrEnds, Event
  <2>2. TypeOK'  BY <2>1 DEF ShapeInv, TypeOK
  <2>3. TasksAreWhole'  BY <2>1 DEF ShapeInv, TasksAreWhole
  <2>4. ChosenIsOfHead' /\ OffIsEmpty'  BY <2>1 DEF ShapeInv, ChosenIsOfHead, OffIsEmpty
  <2> QED  BY <2>2, <2>3, <2>4 DEF ShapeInv
<1>2. CASE Tick
  <2>1. /\ now' = now + 1 /\ now < LastMinute
        /\ UNCHANGED <<on, schedules, subs, alarm, queue, at, chosen, carrier, inCall, postponed>>
        /\ want' = [u \in Subs |-> IF Happens(u, FALSE, now') THEN Off(want[u])
                                   ELSE IF Happens(u, TRUE, now') THEN "on" ELSE want[u]]
    BY <1>2 DEF Tick
  <2>2. now \in Nat /\ now' \in Week..LastMinute
    BY <2>1, NowIsNat, Constants DEF ShapeInv
  <2>3. want' \in [Subs -> {"on", "off", "kept"}]  BY <2>1 DEF ShapeInv, TypeOK, Off
  <2>4. TypeOK'  BY <2>1, <2>2, <2>3 DEF ShapeInv, TypeOK
  <2>5. \A task \in Task : TaskIsWhole(task, now) => TaskIsWhole(task, now')
    BY <2>1, <2>2 DEF TaskIsWhole, Task
  <2>6. TasksAreWhole'
    <3>1. \A i \in 1..Len(queue) : queue[i] \in Task  BY DEF ShapeInv, TypeOK
    <3>2. \A task \in postponed : task \in Task /\ task.time \in Nat
      BY DEF ShapeInv, TypeOK, Task
    <3> QED  BY <2>1, <2>2, <2>5, <3>1, <3>2 DEF ShapeInv, TasksAreWhole
  <2>7. ChosenIsOfHead' /\ OffIsEmpty'  BY <2>1 DEF ShapeInv, ChosenIsOfHead, OffIsEmpty
  <2> QED  BY <2>4, <2>6, <2>7 DEF ShapeInv
<1>3. CASE PowerOff
  <2>1. /\ ~inCall /\ on' = FALSE /\ alarm' = NoAlarm /\ queue' = <<>> /\ at' = 1
        /\ chosen' = Nothing /\ carrier' = {} /\ postponed' = {}
        /\ UNCHANGED <<now, schedules, subs, inCall, want>>
    BY <1>3 DEF PowerOff
  <2>2. TypeOK'
    <3>1. queue' \in Seq(Task) /\ at' \in Subs /\ alarm' \in Nat \union {NoAlarm}
      BY <2>1, Constants
    <3>2. postponed' \subseteq Task /\ carrier' \subseteq Subs  BY <2>1
    <3> QED  BY <2>1, <3>1, <3>2 DEF ShapeInv, TypeOK
  <2>3. TasksAreWhole'
    <3>1. 1..Len(<<>>) = {}  OBVIOUS
    <3> QED  BY <2>1, <3>1 DEF TasksAreWhole
  <2>4. ChosenIsOfHead' /\ OffIsEmpty'  BY <2>1 DEF ChosenIsOfHead, OffIsEmpty, Nothing
  <2> QED  BY <2>2, <2>3, <2>4 DEF ShapeInv
<1>4. CASE Boot
  <2>1. /\ ~on /\ on' = TRUE /\ queue' = <<SyncAll(now), UpdateNext(now + 1)>>
        /\ subs' = IF Legacy THEN [u \in Subs |-> [subs[u] EXCEPT !.enabled = TRUE]] ELSE subs
        /\ UNCHANGED <<now, schedules, alarm, at, chosen, carrier, inCall, postponed>>
    BY <1>4 DEF Boot
  <2>2. want' \in [Subs -> {"on", "off", "kept"}]  BY <1>4 DEF Boot, ShapeInv, TypeOK
  <2>3. subs' \in [Subs -> SubRecord]  BY <2>1 DEF ShapeInv, TypeOK, SubRecord
  <2>4. now \in Nat /\ now + 1 \in Nat  BY NowIsNat DEF ShapeInv
  <2>5. TaskIsWhole(SyncAll(now), now) /\ TaskIsWhole(UpdateNext(now + 1), now)
    BY <2>4 DEF TaskIsWhole, SyncAll, UpdateNext
  <2>6. Gained({SyncAll(now), UpdateNext(now + 1)})  BY <1>4, BootGains
  <2>7. /\ queue' \in Seq(Task) /\ queue' # <<>>
        /\ \A i \in 1..Len(queue') : TaskIsWhole(queue'[i], now')
    BY <2>1, <2>5, <2>6, GainsShape
  <2>8. TypeOK'  BY <2>1, <2>2, <2>3, <2>7 DEF ShapeInv, TypeOK, SubRecord
  <2>9. TasksAreWhole'  BY <2>1, <2>7 DEF ShapeInv, TasksAreWhole
  <2>10. chosen' = Nothing  BY <2>1 DEF ShapeInv, OffIsEmpty
  <2>11. ChosenIsOfHead' /\ OffIsEmpty'  BY <2>1, <2>10 DEF ChosenIsOfHead, OffIsEmpty, Nothing
  <2> QED  BY <2>8, <2>9, <2>11 DEF ShapeInv
<1> QED  BY <1>1, <1>2, <1>3, <1>4

LEMMA InitShape == Init => ShapeInv
<1> SUFFICES ASSUME Init  PROVE ShapeInv
  OBVIOUS
<1>1. /\ now = Week /\ on = TRUE /\ schedules \subseteq Rows /\ alarm = NoAlarm
      /\ queue = <<SyncAll(now), UpdateNext(now + 1)>>
      /\ at = 1 /\ chosen = Nothing /\ carrier = {} /\ inCall = FALSE /\ postponed = {}
  BY DEF Init
<1>2. now \in Nat /\ now + 1 \in Nat /\ now \in Week..LastMinute /\ 1 \in Subs
  BY <1>1, Constants
<1>3. SyncAll(now) \in Task /\ UpdateNext(now + 1) \in Task
  BY <1>2, TasksAreTasks
<1>4. /\ queue \in Seq(Task) /\ Len(queue) = 2 /\ queue[1] = SyncAll(now)
      /\ queue[2] = UpdateNext(now + 1)
  BY <1>1, <1>3
<1>5. TaskIsWhole(SyncAll(now), now) /\ TaskIsWhole(UpdateNext(now + 1), now)
  BY <1>2 DEF TaskIsWhole, SyncAll, UpdateNext
<1>6. subs \in [Subs -> SubRecord]  BY DEF Init, SubRecord
<1>7. want \in [Subs -> {"on", "off", "kept"}]  BY DEF Init, Latest, Off
<1>8. TypeOK  BY <1>1, <1>2, <1>4, <1>6, <1>7 DEF TypeOK, SubRecord
<1>9. TasksAreWhole
  <2>1. \A i \in 1..2 : TaskIsWhole(queue[i], now)  BY <1>4, <1>5
  <2> QED  BY <1>1, <1>4, <2>1 DEF TasksAreWhole
<1>10. ChosenIsOfHead /\ OffIsEmpty  BY <1>1 DEF ChosenIsOfHead, OffIsEmpty, Nothing
<1> QED  BY <1>8, <1>9, <1>10 DEF ShapeInv

LEMMA NextShape == ShapeInv /\ [Next]_vars => ShapeInv'
<1> SUFFICES ASSUME ShapeInv, [Next]_vars  PROVE ShapeInv'
  OBVIOUS
<1>1. CASE Decide \/ Apply \/ ComputeNext \/ SetAlarm
  BY <1>1, DecideShape, ApplyShape, AlarmShape
<1>2. CASE AlarmRings \/ (\E u \in Subs : CarrierConfigChanged(u))
           \/ \E task \in postponed : CallEndPoll(task)
  BY <1>2, ReceiversShape
<1>3. CASE \E u \in Subs : UserSwitches(u)
  BY <1>3, SwitchShape
<1>4. CASE \E row \in Rows : UserAdds(row) \/ UserDeletes(row)
  BY <1>4, UserEditsAreEdits, EditShape
<1>5. CASE CallStartsOrEnds \/ Tick \/ PowerOff \/ Boot
  BY <1>5, OthersShape
<1>6. CASE UNCHANGED vars
  <2>1. TypeOK'  BY <1>6 DEF vars, ShapeInv, TypeOK
  <2>2. TasksAreWhole'  BY <1>6 DEF vars, ShapeInv, TasksAreWhole
  <2>3. ChosenIsOfHead' /\ OffIsEmpty'  BY <1>6 DEF vars, ShapeInv, ChosenIsOfHead, OffIsEmpty
  <2> QED  BY <2>1, <2>2, <2>3 DEF ShapeInv
<1> QED  BY <1>1, <1>2, <1>3, <1>4, <1>5, <1>6 DEF Next

(* The row of a subscription, the queue of ForegroundService's worker, what *)
(* PhoneCallEndObserverService has postponed and the alarm stay in their    *)
(* types, for any number of subscriptions and every setting.                *)
THEOREM SchedulerTypeCorrect == Spec => []TypeOK
<1>1. ShapeInv => TypeOK  BY DEF ShapeInv
<1> QED  BY <1>1, InitShape, NextShape, PTL DEF Spec

-----------------------------------------------------------------------------
(* What a call can cost.                                                   *)
(* A history beside the scheduler: the subscriptions that were disabled    *)
(* since the call began, other than by the user's own switch.              *)
VARIABLE cut

CutNow == {u \in Subs : subs[u].enabled /\ ~subs'[u].enabled /\ ~UserSwitches(u)}

CallsNext == Next /\ cut' = IF inCall /\ inCall' THEN cut \union CutNow ELSE {}
CallsSpec == Init /\ cut = {} /\ [][CallsNext]_<<vars, cut>>

AtMostOneIsCut == (\A u, v \in cut : u = v) /\ (cut # {} => Interleaved)

(* What has been decided before the call began is the one thing that may   *)
(* still disable a SIM, once.                                              *)
CutInv ==
    /\ cut \subseteq Subs /\ AtMostOneIsCut
    /\ cut # {} => inCall
    /\ inCall /\ chosen.kind = "set" /\ ~chosen.enabled => cut = {} /\ Interleaved

(* Only these change the state of a subscription.                          *)
LEMMA SubsAreChangedBy ==
    ASSUME ShapeInv, [Next]_vars, subs' # subs
    PROVE  \/ Apply
           \/ \E u \in Subs : UserSwitches(u)
           \/ \E table \in SUBSET Rows, u \in Subs : Edit(table, u)
           \/ Boot
<1>1. CASE Decide \/ ComputeNext \/ SetAlarm \/ AlarmRings \/ CallStartsOrEnds \/ Tick \/ PowerOff
  BY <1>1 DEF Decide, ComputeNext, SetAlarm, AlarmRings, CallStartsOrEnds, Tick, PowerOff
<1>2. CASE (\E u \in Subs : CarrierConfigChanged(u)) \/ \E task \in postponed : CallEndPoll(task)
  BY <1>2 DEF CarrierConfigChanged, CallEndPoll
<1>3. CASE \E row \in Rows : UserAdds(row) \/ UserDeletes(row)
  BY <1>3, UserEditsAreEdits
<1>4. CASE UNCHANGED vars  BY <1>4 DEF vars
<1> QED  BY <1>1, <1>2, <1>3, <1>4 DEF Next

LEMMA StateSet ==
    ASSUME NEW sub \in SubRecord, NEW enabled \in BOOLEAN, NEW keep
    PROVE  SetState(sub, enabled, keep).enabled = enabled
BY DEF SetState, Switched, SubRecord

LEMMA CutByApply ==
    ASSUME ShapeInv, [Next]_vars, inCall, NEW u \in CutNow
    PROVE  Apply /\ chosen.kind = "set" /\ ~chosen.enabled /\ u = chosen.sub
<1>0. u \in Subs /\ subs[u].enabled /\ ~subs'[u].enabled /\ ~UserSwitches(u)  BY DEF CutNow
<1>1. TypeOK /\ subs \in [Subs -> SubRecord]  BY DEF ShapeInv, TypeOK, SubRecord
<1>2. subs' # subs  BY <1>0
<1>3. ASSUME NEW v \in Subs, NEW enabled \in BOOLEAN, NEW keep,
             subs' = [subs EXCEPT ![v] = SetState(subs[v], enabled, keep)]
      PROVE  u = v /\ ~enabled
  <2>1. u = v /\ subs'[u] = SetState(subs[u], enabled, keep)  BY <1>0, <1>1, <1>3
  <2>2. subs'[u].enabled = enabled  BY <1>0, <1>1, <2>1, StateSet
  <2> QED  BY <1>0, <2>1, <2>2
<1>4. CASE Apply
  <2>1. chosen.kind = "set" /\ chosen.sub \in Subs /\ chosen.enabled \in BOOLEAN
    BY <1>1, <1>4 DEF Apply, TypeOK, Nothing
  <2>2. subs' = [subs EXCEPT ![chosen.sub] = SetState(subs[chosen.sub], chosen.enabled, chosen.keep)]
    BY <1>1, <1>4 DEF Apply
  <2> QED  BY <1>3, <1>4, <2>1, <2>2
<1>5. CASE \E v \in Subs : UserSwitches(v)
  <2>1. PICK v \in Subs : UserSwitches(v)  BY <1>5
  <2>2. subs' = [subs EXCEPT ![v] = SetState(subs[v], ~subs[v].enabled, subs[v].enabled)]
    BY <2>1, SwitchShape
  <2>3. u = v  BY <1>0, <1>1, <2>2
  <2> QED  BY <1>0, <2>1, <2>3
<1>6. ASSUME NEW table \in SUBSET Rows, NEW v \in Subs, Edit(table, v)
      PROVE  FALSE
  <2> DEFINE expected == Expected(table, v, now, TRUE)
  <2>1. IF subs[v].enabled # expected /\ ~MustPostpone(expected)
        THEN subs' = [subs EXCEPT ![v] = SetState(subs[v], expected, FALSE)]
        ELSE subs' = subs
    BY <1>6, EditShape
  <2>2. expected \in BOOLEAN  BY <1>1, ExpectedIsBoolean
  <2> HIDE DEF expected
  <2>3. subs' = [subs EXCEPT ![v] = SetState(subs[v], expected, FALSE)] /\ expected
    BY <1>2, <2>1, <2>2 DEF MustPostpone
  <2> QED  BY <1>3, <2>2, <2>3
<1>7. CASE Boot  BY <1>0, <1>7 DEF Boot, ShapeInv, OffIsEmpty
<1> QED  BY <1>2, <1>4, <1>5, <1>6, <1>7, SubsAreChangedBy

(* Only Decide chooses a state, and none that disables during a call; a    *)
(* call begins in the middle of a task only if they interleave.            *)
LEMMA ChosenBeforeCall ==
    ASSUME ShapeInv, CutInv, [Next]_vars,
           inCall', chosen'.kind = "set", ~chosen'.enabled
    PROVE  ~Apply /\ Interleaved /\ (inCall => cut = {})
<1>1. CASE Decide
  <2> DEFINE expected == Expected(schedules, TaskSub, Head(queue).time, Head(queue).kind = "override")
  <2>1. UNCHANGED inCall  BY <1>1 DEF Decide
  <2>2. \/ UNCHANGED chosen
        \/ chosen'.enabled = expected /\ ~MustPostpone(expected)
    BY <1>1 DEF Decide, TaskSub
  <2>3. chosen = Nothing  BY <1>1 DEF Decide, Runs, Idle
  <2> HIDE DEF expected
  <2> QED  BY <2>1, <2>2, <2>3 DEF MustPostpone, Nothing
<1>2. CASE Apply \/ SetAlarm \/ PowerOff
  <2>1. chosen' = Nothing  BY <1>2 DEF Apply, SetAlarm, PowerOff
  <2> QED  BY <2>1 DEF Nothing
<1>3. CASE ComputeNext
  <2>1. chosen'.kind = "alarm"  BY <1>3 DEF ComputeNext
  <2> QED  BY <2>1
<1>4. CASE CallStartsOrEnds
  <2>1. (Interleaved \/ chosen = Nothing) /\ chosen' = chosen /\ inCall' = ~inCall
    BY <1>4 DEF CallStartsOrEnds, Event, Idle
  <2>2. ~Apply
    <3>1. Apply => chosen' = Nothing  BY DEF Apply
    <3> QED  BY <3>1 DEF Nothing
  <2>3. Interleaved
    <3>1. chosen.kind = "set"  BY <2>1
    <3> QED  BY <2>1, <3>1 DEF Nothing
  <2>4. ~inCall
    <3>1. inCall \in BOOLEAN  BY DEF ShapeInv, TypeOK
    <3> QED  BY <2>1, <3>1
  <2> QED  BY <2>2, <2>3, <2>4
<1>5. ASSUME UNCHANGED <<chosen, inCall>>
      PROVE  ~Apply /\ Interleaved /\ (inCall => cut = {})
  <2>1. Apply => chosen' = Nothing  BY DEF Apply
  <2> QED  BY <1>5, <2>1 DEF CutInv, Nothing
<1>6. CASE AlarmRings  BY <1>5, <1>6 DEF AlarmRings
<1>7. CASE \E u \in Subs : CarrierConfigChanged(u) \/ UserSwitches(u)
  BY <1>5, <1>7 DEF CarrierConfigChanged, UserSwitches
<1>8. CASE \E task \in postponed : CallEndPoll(task)  BY <1>5, <1>8 DEF CallEndPoll
<1>9. CASE \E row \in Rows : UserAdds(row) \/ UserDeletes(row)
  BY <1>5, <1>9, UserEditsAreEdits, EditShape
<1>10. CASE Tick \/ Boot  BY <1>5, <1>10 DEF Tick, Boot
<1>11. CASE UNCHANGED vars  BY <1>5, <1>11 DEF vars
<1> QED  BY <1>1, <1>2, <1>3, <1>4, <1>6, <1>7, <1>8, <1>9, <1>10, <1>11 DEF Next

(* TelephonyController and syncSubscriptionEnabledState refrain from       *)
(* disabling SIMs during a phone call, whatever the schedules, edits,      *)
(* reboots and late alarms: a call costs at most one SIM, that of a task   *)
(* that had decided before the call began and made its request after, and  *)
(* none if calls do not begin in the middle of a task.                     *)
THEOREM CallsLoseOneAtMost == CallsSpec => []AtMostOneIsCut
<1> DEFINE Safe == ShapeInv /\ CutInv
<1>1. Init /\ cut = {} => Safe
  <2> SUFFICES ASSUME Init, cut = {}  PROVE Safe
    OBVIOUS
  <2>1. chosen.kind # "set"  BY DEF Init, Nothing
  <2> QED  BY <2>1, InitShape DEF CutInv, AtMostOneIsCut
<1>2. Safe /\ [CallsNext]_<<vars, cut>> => Safe'
  <2>1. ASSUME Safe, CallsNext  PROVE Safe'
    <3>1. ShapeInv'  BY <2>1, NextShape DEF CallsNext
    <3>2. CASE inCall /\ inCall'
      <4>1. cut' = cut \union CutNow  BY <2>1, <3>2 DEF CallsNext
      <4>2. \A u \in CutNow : Apply /\ chosen.kind = "set" /\ ~chosen.enabled /\ u = chosen.sub
        BY <2>1, <3>2, CutByApply DEF CallsNext
      <4>3. CutNow # {} => cut = {} /\ Interleaved  BY <2>1, <3>2, <4>2 DEF CutInv
      <4>4. cut' \subseteq Subs  BY <2>1, <4>1 DEF CutNow, CutInv
      <4>5. AtMostOneIsCut'  BY <2>1, <4>1, <4>2, <4>3 DEF CutInv, AtMostOneIsCut
      <4>6. ASSUME chosen'.kind = "set", ~chosen'.enabled
            PROVE  cut' = {} /\ Interleaved
        <5>1. ~Apply /\ Interleaved /\ cut = {}
          BY <2>1, <3>2, <4>6, ChosenBeforeCall DEF CallsNext
        <5> QED  BY <4>1, <4>2, <5>1
      <4> QED  BY <3>1, <3>2, <4>4, <4>5, <4>6 DEF CutInv
    <3>3. CASE ~(inCall /\ inCall')
      <4>1. cut' = {}  BY <2>1, <3>3 DEF CallsNext
      <4>2. ASSUME inCall', chosen'.kind = "set", ~chosen'.enabled  PROVE Interleaved
        BY <2>1, <4>2, ChosenBeforeCall DEF CallsNext
      <4> QED  BY <3>1, <4>1, <4>2 DEF CutInv, AtMostOneIsCut
    <3> QED  BY <3>2, <3>3
  <2>2. ASSUME Safe, UNCHANGED <<vars, cut>>  PROVE Safe'
    <3>1. ShapeInv'  BY <2>2, NextShape
    <3>2. UNCHANGED <<chosen, inCall, cut>>  BY <2>2 DEF vars
    <3> QED  BY <2>2, <3>1, <3>2 DEF CutInv, AtMostOneIsCut
  <2> QED  BY <2>1, <2>2
<1>3. Safe => AtMostOneIsCut  BY DEF CutInv
<1> QED  BY <1>1, <1>2, <1>3, PTL DEF CallsSpec

-----------------------------------------------------------------------------
(* No occurrence is slept through.                                         *)
(* An alarm at this time misses no schedule that inverts a subscription.   *)
CoversAll(time, table, states, minute) ==
    \A u \in Subs : \A t \in NearestAfter(table, u, ~states[u].enabled, minute) :
        time # NoAlarm /\ time <= t

Covers(time) == CoversAll(time, schedules, subs, now + 1)

UpdateIsQueued(first) == \E i \in 1..Len(queue) : first <= i /\ queue[i].kind = "next"

(* The alarm is early enough, or will be set again.                        *)
AlarmIsKept ==
    /\ on => Covers(alarm) \/ carrier # {} \/ UpdateIsQueued(1)
    /\ chosen.kind = "alarm" => Covers(chosen.time) \/ carrier # {} \/ UpdateIsQueued(2)

-----------------------------------------------------------------------------
LEMMA EarlierIsFirst ==
    ASSUME NEW table, Repeating(table), NEW t \in Nat, NEW minute \in Nat, t <= minute,
           NEW u, NEW e, NEW c \in NearestAfter(table, u, e, minute)
    PROVE  c \in Int /\ \E b \in NearestAfter(table, u, e, t) : b \in Int /\ b <= c
<1>1. \A a \in NearestAfter(table, u, e, minute) : a \in Int  BY AfterFacts
<1>2. \A a \in NearestAfter(table, u, e, t) : a \in Int  BY AfterFacts
<1>3. \A v \in Int : v <= minute =>
         \A a \in NearestAfter(table, u, e, minute) :
            \E b \in NearestAfter(table, u, e, v) : b <= a
  BY AfterFacts
<1>4. t \in Int  OBVIOUS
<1>5. \E b \in NearestAfter(table, u, e, t) : b <= c  BY <1>3, <1>4
<1> QED  BY <1>1, <1>2, <1>5

LEMMA UpdateCovers ==
    ASSUME NEW table, Repeating(table), NEW states, NEW t \in Nat, NEW minute \in Nat,
           t <= minute
    PROVE  CoversAll(NextProcessingTime(table, states, t), table, states, minute)
<1> DEFINE next == NextProcessingTime(table, states, t)
<1>1. /\ next \in Nat \union {NoAlarm}
      /\ \A u \in Subs : \A a \in NearestAfter(table, u, ~states[u].enabled, t) :
            next # NoAlarm /\ next <= a
  BY NextProcessingFacts
<1> HIDE DEF next
<1>2. ASSUME NEW u \in Subs, NEW c \in NearestAfter(table, u, ~states[u].enabled, minute)
      PROVE  next # NoAlarm /\ next <= c
  <2> DEFINE e == ~states[u].enabled
  <2>1. \A a \in NearestAfter(table, u, e, t) : next # NoAlarm /\ next <= a  BY <1>1
  <2>2. c \in NearestAfter(table, u, e, minute)  OBVIOUS
  <2> HIDE DEF e
  <2>3. c \in Int /\ \E b \in NearestAfter(table, u, e, t) : b \in Int /\ b <= c
    BY <2>2, EarlierIsFirst
  <2>4. PICK b \in NearestAfter(table, u, e, t) : b \in Int /\ b <= c  BY <2>3
  <2>5. next # NoAlarm /\ next <= b  BY <2>1
  <2>6. next \in Int  BY <1>1, <2>5
  <2> QED  BY <2>3, <2>4, <2>5, <2>6
<1> QED  BY <1>2 DEF CoversAll, next

LEMMA CoversLater ==
    ASSUME NEW time \in Nat \union {NoAlarm}, NEW table, Repeating(table), NEW states,
           NEW t \in Nat, NEW minute \in Nat, t <= minute, CoversAll(time, table, states, t)
    PROVE  CoversAll(time, table, states, minute)
<1>2. ASSUME NEW u \in Subs, NEW c \in NearestAfter(table, u, ~states[u].enabled, minute)
      PROVE  time # NoAlarm /\ time <= c
  <2> DEFINE e == ~states[u].enabled
  <2>1. \A a \in NearestAfter(table, u, e, t) : time # NoAlarm /\ time <= a  BY DEF CoversAll
  <2>2. c \in NearestAfter(table, u, e, minute)  OBVIOUS
  <2> HIDE DEF e
  <2>3. c \in Int /\ \E b \in NearestAfter(table, u, e, t) : b \in Int /\ b <= c
    BY <2>2, EarlierIsFirst
  <2>4. PICK b \in NearestAfter(table, u, e, t) : b \in Int /\ b <= c  BY <2>3
  <2>5. time # NoAlarm /\ time <= b  BY <2>1
  <2>6. time \in Int  BY <2>5
  <2> QED  BY <2>3, <2>4, <2>5, <2>6
<1> QED  BY <1>2 DEF CoversAll

(* Only the enabled states matter. *)
LEMMA CoversSame ==
    ASSUME NEW time, NEW table, NEW states, NEW others, NEW minute,
           CoversAll(time, table, states, minute),
           \A u \in Subs : others[u].enabled = states[u].enabled
    PROVE  CoversAll(time, table, others, minute)
BY DEF CoversAll

LEMMA UpdateStaysQueued ==
    ASSUME NEW tasks, Gained(tasks), NEW first \in Nat, UpdateIsQueued(first)
    PROVE  UpdateIsQueued(first)'
<1>1. PICK i \in 1..Len(queue) : first <= i /\ queue[i].kind = "next"  BY DEF UpdateIsQueued
<1>2. i \in 1..Len(queue') /\ queue'[i] = queue[i]  BY DEF Gained
<1> QED  BY <1>1, <1>2 DEF UpdateIsQueued

LEMMA UpdateJoins ==
    ASSUME queue \in Seq(Task), NEW tasks, Gained(tasks), NEW t, UpdateNext(t) \in tasks
    PROVE  UpdateIsQueued(1)' /\ (queue # <<>> => UpdateIsQueued(2)')
<1>1. PICK i \in 1..Len(queue') : Len(queue) < i /\ queue'[i] = UpdateNext(t)  BY DEF Gained
<1>2. queue'[i].kind = "next"  BY <1>1 DEF UpdateNext
<1>3. 1 <= i  OBVIOUS
<1>4. ASSUME queue # <<>>  PROVE 2 <= i
  <2>1. Len(queue) \in Nat /\ Len(queue) >= 1  BY <1>4, QueueTail
  <2> QED  BY <1>1, <2>1
<1> QED  BY <1>2, <1>3, <1>4 DEF UpdateIsQueued

(* The tasks behind the head move up. *)
LEMMA UpdateMovesUp ==
    ASSUME queue \in Seq(Task), queue # <<>>, queue' = Tail(queue), UpdateIsQueued(2)
    PROVE  UpdateIsQueued(1)'
<1>1. PICK i \in 1..Len(queue) : 2 <= i /\ queue[i].kind = "next"  BY DEF UpdateIsQueued
<1>2. /\ Len(queue) \in Nat /\ Len(Tail(queue)) = Len(queue) - 1
      /\ \A j \in 1..(Len(queue) - 1) : Tail(queue)[j] = queue[j + 1]
  BY QueueTail
<1>3. PICK j \in 1..(Len(queue) - 1) : i = j + 1
  <2>1. i - 1 \in 1..(Len(queue) - 1) /\ i = (i - 1) + 1  BY <1>1, <1>2
  <2> QED  BY <2>1
<1>4. j \in 1..Len(queue') /\ 1 <= j /\ queue'[j] = queue[j + 1]  BY <1>2
<1> QED  BY <1>1, <1>3, <1>4 DEF UpdateIsQueued

LEMMA UpdateOutlastsSync ==
    ASSUME ShapeInv, queue # <<>>, Head(queue).kind # "next", Advance, UpdateIsQueued(1)
    PROVE  UpdateIsQueued(1)'
<1>1. queue \in Seq(Task) /\ Head(queue) = queue[1]
  BY HeadIsWhole DEF ShapeInv, TypeOK
<1>2. PICK i \in 1..Len(queue) : 1 <= i /\ queue[i].kind = "next"  BY DEF UpdateIsQueued
<1>3. CASE UNCHANGED queue  BY <1>3 DEF UpdateIsQueued
<1>4. CASE queue' = Tail(queue)
  <2>1. i # 1  BY <1>1, <1>2
  <2>2. 2 <= i  BY <2>1, <1>2
  <2>3. UpdateIsQueued(2)  BY <1>2, <2>2 DEF UpdateIsQueued
  <2> QED  BY <1>1, <1>4, <2>3, UpdateMovesUp
<1> QED  BY <1>3, <1>4 DEF Advance, Finish

LEMMA AlarmIsKeptByWorker ==
    ASSUME ShapeInv, AlarmIsKept, Decide \/ Apply \/ ComputeNext \/ SetAlarm
    PROVE  AlarmIsKept'
<1>1. /\ queue \in Seq(Task) /\ subs \in [Subs -> SubRecord] /\ now \in Nat /\ now + 1 \in Nat
      /\ Repeating(schedules)
  BY NowIsNat DEF ShapeInv, TypeOK, SubRecord
<1>2. CASE Decide
  <2>1. /\ on /\ queue # <<>> /\ Head(queue).kind # "next"
        /\ UNCHANGED <<now, on, schedules, subs, alarm, carrier>>
    BY <1>2 DEF Decide, Runs
  <2>2. chosen'.kind # "alarm"  BY <1>2 DEF Decide, Runs, Idle, Nothing
  <2>3. Advance \/ UNCHANGED queue  BY <1>2 DEF Decide
  <2>4. UpdateIsQueued(1) => UpdateIsQueued(1)'
    BY <2>1, <2>3, UpdateOutlastsSync DEF UpdateIsQueued
  <2> QED  BY <2>1, <2>2, <2>4 DEF AlarmIsKept, Covers
<1>3. CASE Apply
  <2>1. /\ on /\ chosen.kind = "set" /\ chosen' = Nothing /\ Advance
        /\ subs' = [subs EXCEPT ![chosen.sub] = SetState(subs[chosen.sub], chosen.enabled, chosen.keep)]
        /\ carrier' = carrier \union Changed(chosen.sub)
        /\ UNCHANGED <<now, on, schedules, alarm>>
    BY <1>1, <1>3 DEF Apply
  <2>2. queue # <<>> /\ Head(queue).kind # "next"  BY <2>1 DEF ShapeInv, ChosenIsOfHead
  <2>3. UpdateIsQueued(1) => UpdateIsQueued(1)'  BY <2>1, <2>2, UpdateOutlastsSync
  <2>4. CASE carrier' # {}  BY <2>1, <2>4 DEF AlarmIsKept, Nothing
  <2>5. CASE carrier' = {}
    <3>1. carrier = {} /\ subs'[chosen.sub].enabled = subs[chosen.sub].enabled
      BY <2>1, <2>5 DEF Changed
    <3>2. \A u \in Subs : subs'[u].enabled = subs[u].enabled  BY <1>1, <2>1, <3>1
    <3>3. Covers(alarm) => Covers(alarm)'  BY <2>1, <3>2, CoversSame DEF Covers
    <3> QED  BY <2>1, <2>3, <3>1, <3>3 DEF AlarmIsKept, Nothing
  <2> QED  BY <2>4, <2>5
<1>4. CASE ComputeNext
  <2>1. /\ queue # <<>> /\ Head(queue).kind = "next"
        /\ chosen'.time = NextProcessingTime(schedules, subs, Head(queue).time)
        /\ UNCHANGED <<now, on, schedules, subs, alarm, queue, carrier>>
    BY <1>4 DEF ComputeNext, Runs
  <2>2. Head(queue).time \in Nat /\ Head(queue).time <= now + 1
    BY <2>1, HeadIsWhole DEF TaskIsWhole
  <2>3. CoversAll(chosen'.time, schedules, subs, now + 1)
    BY <1>1, <2>1, <2>2, UpdateCovers
  <2> QED  BY <2>1, <2>3 DEF AlarmIsKept, Covers, UpdateIsQueued
<1>5. CASE SetAlarm
  <2>1. /\ on /\ chosen.kind = "alarm" /\ alarm' = chosen.time /\ chosen' = Nothing
        /\ queue' = Tail(queue)
        /\ UNCHANGED <<now, on, schedules, subs, carrier>>
    BY <1>5 DEF SetAlarm, Finish
  <2>2. queue # <<>>  BY <2>1 DEF ShapeInv, ChosenIsOfHead
  <2>3. UpdateIsQueued(2) => UpdateIsQueued(1)'  BY <1>1, <2>1, <2>2, UpdateMovesUp
  <2> QED  BY <2>1, <2>3 DEF AlarmIsKept, Covers, Nothing
<1> QED  BY <1>2, <1>3, <1>4, <1>5

LEMMA AlarmIsKeptByReceivers ==
    ASSUME ShapeInv, AlarmIsKept,
           \/ AlarmRings
           \/ \E u \in Subs : CarrierConfigChanged(u)
           \/ \E task \in postponed : CallEndPoll(task)
    PROVE  AlarmIsKept'
<1>1. queue \in Seq(Task)  BY DEF ShapeInv, TypeOK
<1>2. chosen.kind = "alarm" => queue # <<>>  BY DEF ShapeInv, ChosenIsOfHead
<1>3. ASSUME AlarmRings \/ \E u \in Subs : CarrierConfigChanged(u)  PROVE AlarmIsKept'
  <2>1. \E tasks : Gained(tasks) /\ UpdateNext(now + 1) \in tasks
    <3>1. CASE AlarmRings  BY <3>1, AlarmGains
    <3>2. ASSUME NEW u \in Subs, CarrierConfigChanged(u)
          PROVE  Gained(CarrierTasks(u)) /\ UpdateNext(now + 1) \in CarrierTasks(u)
      BY <3>2, CarrierGains DEF CarrierTasks
    <3> QED  BY <1>3, <3>1, <3>2
  <2>2. UpdateIsQueued(1)' /\ (queue # <<>> => UpdateIsQueued(2)')
    BY <1>1, <2>1, UpdateJoins
  <2>3. UNCHANGED chosen  BY <1>3 DEF AlarmRings, CarrierConfigChanged
  <2> QED  BY <1>2, <2>2, <2>3 DEF AlarmIsKept
<1>4. ASSUME NEW task \in postponed, CallEndPoll(task)  PROVE AlarmIsKept'
  <2>1. Gained({task})  BY <1>4, CallEndGains
  <2>2. (UpdateIsQueued(1) => UpdateIsQueued(1)') /\ (UpdateIsQueued(2) => UpdateIsQueued(2)')
    BY <2>1, UpdateStaysQueued
  <2>3. UNCHANGED <<now, on, schedules, subs, alarm, chosen, carrier>>  BY <1>4 DEF CallEndPoll
  <2> QED  BY <2>2, <2>3 DEF AlarmIsKept, Covers
<1> QED  BY <1>3, <1>4

LEMMA AlarmIsKeptByEdit ==
    ASSUME ShapeInv, AlarmIsKept, ~Interleaved,
           NEW table \in SUBSET Rows, NEW u \in Subs, Edit(table, u)
    PROVE  AlarmIsKept'
<1>1. /\ schedules' = table /\ alarm' = NextProcessingTime(table, subs', now + 1)
      /\ UNCHANGED <<now, chosen>> /\ Event
  BY EditShape
<1>2. now + 1 \in Nat /\ Repeating(table)  BY NowIsNat, Constants DEF ShapeInv
<1>3. CoversAll(alarm', schedules', subs', now' + 1)  BY <1>1, <1>2, UpdateCovers
<1>4. chosen' = Nothing  BY <1>1 DEF Event, Idle
<1> QED  BY <1>3, <1>4 DEF AlarmIsKept, Covers, Nothing

LEMMA AlarmIsKeptByOthers ==
    ASSUME ShapeInv, AlarmIsKept,
           CallStartsOrEnds \/ Tick \/ PowerOff \/ Boot \/ \E u \in Subs : UserSwitches(u)
    PROVE  AlarmIsKept'
<1>1. CASE CallStartsOrEnds
  BY <1>1 DEF CallStartsOrEnds, AlarmIsKept, Covers, UpdateIsQueued
<1>2. CASE Tick
  <2>1. now' = now + 1 /\ UNCHANGED <<on, schedules, subs, alarm, queue, chosen, carrier>>
    BY <1>2 DEF Tick
  <2>2. chosen.kind # "alarm"
    <3>1. chosen = Nothing  BY <1>2 DEF Tick, Quiet, ShapeInv, OffIsEmpty
    <3> QED  BY <3>1 DEF Nothing
  <2>3. CASE on
    <3>1. queue = <<>> /\ carrier = {}  BY <1>2, <2>3 DEF Tick, Quiet, ShapeInv, OffIsEmpty
    <3>2. ~UpdateIsQueued(1)  BY <3>1 DEF UpdateIsQueued
    <3>3. CoversAll(alarm, schedules, subs, now + 1)
      BY <2>3, <3>1, <3>2 DEF AlarmIsKept, Covers
    <3>4. /\ now + 1 \in Nat /\ now' + 1 \in Nat /\ now + 1 <= now' + 1
          /\ Repeating(schedules) /\ alarm \in Nat \union {NoAlarm}
      BY <2>1, NowIsNat DEF ShapeInv, TypeOK
    <3>5. CoversAll(alarm, schedules, subs, now' + 1)  BY <3>3, <3>4, CoversLater
    <3> QED  BY <2>1, <2>2, <3>5 DEF AlarmIsKept, Covers
  <2>4. CASE ~on  BY <2>1, <2>2, <2>4 DEF AlarmIsKept
  <2> QED  BY <2>3, <2>4
<1>3. CASE PowerOff  BY <1>3 DEF PowerOff, AlarmIsKept, Nothing
<1>4. CASE Boot
  <2>1. queue = <<>> /\ Gained({SyncAll(now), UpdateNext(now + 1)})  BY <1>4, BootGains
  <2>2. UpdateIsQueued(1)'
    <3>1. queue \in Seq(Task)  BY DEF ShapeInv, TypeOK
    <3> QED  BY <2>1, <3>1, UpdateJoins
  <2>3. chosen' = Nothing  BY <1>4 DEF Boot, ShapeInv, OffIsEmpty
  <2> QED  BY <2>2, <2>3 DEF AlarmIsKept, Nothing
<1>5. CASE \E u \in Subs : UserSwitches(u)
  <2>1. carrier' # {}  BY <1>5 DEF UserSwitches
  <2> QED  BY <2>1 DEF AlarmIsKept
<1> QED  BY <1>1, <1>2, <1>3, <1>4, <1>5

LEMMA AlarmIsKeptStep ==
    ASSUME ~(Interleaved /\ UserEdits), ShapeInv, AlarmIsKept, [Next]_vars
    PROVE  AlarmIsKept'
<1>1. CASE Decide \/ Apply \/ ComputeNext \/ SetAlarm
  BY <1>1, AlarmIsKeptByWorker
<1>2. CASE AlarmRings \/ (\E u \in Subs : CarrierConfigChanged(u))
           \/ \E task \in postponed : CallEndPoll(task)
  BY <1>2, AlarmIsKeptByReceivers
<1>3. CASE \E row \in Rows : UserAdds(row) \/ UserDeletes(row)
  <2>1. \E table \in SUBSET Rows, u \in Subs : Edit(table, u)  BY <1>3, UserEditsAreEdits
  <2>2. UserEdits  BY <2>1, EditShape
  <2> QED  BY <2>1, <2>2, AlarmIsKeptByEdit
<1>4. CASE CallStartsOrEnds \/ Tick \/ PowerOff \/ Boot \/ \E u \in Subs : UserSwitches(u)
  BY <1>4, AlarmIsKeptByOthers
<1>5. CASE UNCHANGED vars
  BY <1>5 DEF vars, AlarmIsKept, Covers, UpdateIsQueued
<1> QED  BY <1>1, <1>2, <1>3, <1>4, <1>5 DEF Next

LEMMA AlarmIsKeptInit == Init => AlarmIsKept
<1> SUFFICES ASSUME Init  PROVE AlarmIsKept
  OBVIOUS
<1> DEFINE a == SyncAll(now)  b == UpdateNext(now + 1)
<1>1. queue = <<a, b>> /\ chosen = Nothing  BY DEF Init
<1>2. b.kind = "next"  BY DEF UpdateNext
<1> HIDE DEF a, b
<1>3. 2 \in 1..Len(queue) /\ queue[2] = b  BY <1>1
<1>4. UpdateIsQueued(1)  BY <1>2, <1>3 DEF UpdateIsQueued
<1> QED  BY <1>1, <1>4 DEF AlarmIsKept, Nothing

LEMMA KeptAlarmIsEarliest == ShapeInv /\ AlarmIsKept => AlarmIsEarliest
<1> SUFFICES ASSUME ShapeInv, AlarmIsKept, Settled  PROVE Covers(alarm)
  BY DEF AlarmIsEarliest, Covers, CoversAll
<1>1. on /\ queue = <<>> /\ carrier = {}  BY DEF Settled, Quiet
<1>2. ~UpdateIsQueued(1)  BY <1>1 DEF UpdateIsQueued
<1> QED  BY <1>1, <1>2 DEF AlarmIsKept

(* updateNextWeeklyRepeatScheduleProcessingIter leaves an alarm that is    *)
(* not after the next schedule inverting a subscription, on both RILs, for *)
(* calls and power-offs of any length and alarms that ring late, if no     *)
(* edit falls between the time a task computes and the alarm it sets.      *)
THEOREM NoOccurrenceIsSleptThrough ==
    ASSUME ~(Interleaved /\ UserEdits)  PROVE Spec => []AlarmIsEarliest
<1> DEFINE Kept == ShapeInv /\ AlarmIsKept
<1>1. Init => Kept  BY InitShape, AlarmIsKeptInit
<1>2. Kept /\ [Next]_vars => Kept'  BY NextShape, AlarmIsKeptStep
<1>3. Kept => AlarmIsEarliest  BY KeptAlarmIsEarliest
<1> QED  BY <1>1, <1>2, <1>3, PTL DEF Spec

-----------------------------------------------------------------------------
(* The state expected, when a row is written or a schedule occurs.         *)
Wants == {"on", "off", "kept"}

(* At most one occurrence, not in the future. *)
NearestPast(times, minute) ==
    \A b \in times : b \in Int /\ MIN < b /\ b <= minute /\ \A c \in times : b = c

(* What the row of a subscription says of the states it has been in.       *)
RecordIsTrue(sub, w, ended, minute) ==
    /\ sub.lastActivated <= minute /\ sub.lastDeactivated <= minute
    /\ ~sub.enabled => sub.lastActivated = MIN
    /\ sub.enabled => sub.lastDeactivated = MIN \/ (Legacy /\ w # "on")
    /\ ~Legacy => ~sub.keep
    /\ Legacy /\ ~sub.enabled => sub.keep \/ ended
    /\ Legacy /\ w = "off" => ended

(* The state computed from the row and the table is the one wanted.        *)
Follows(sub, w, start, end, minute) ==
    /\ RecordIsTrue(sub, w, end # {}, minute)
    /\ getSubscriptionExpectedEnabledState(sub, start, end, FALSE) <=> w = "on"

LEMMA StartAndEndArePast ==
    ASSUME NEW table, Repeating(table), NEW u, NEW minute \in Nat, Week <= minute
    PROVE  NearestPast(Start(table, u, minute), minute) /\ NearestPast(End(table, u, minute), minute)
<1>1. ASSUME NEW e  PROVE NearestPast(NearestBefore(table, u, e, minute), minute)
  <2>1. \A b \in NearestBefore(table, u, e, minute) :
           /\ b \in Int /\ minute - Week < b /\ b <= minute
           /\ \A c \in NearestBefore(table, u, e, minute) : b = c
    BY BeforeFacts
  <2>2. Week \in Nat /\ MIN \in Int /\ MIN < 0  BY Constants
  <2>3. \A b \in Int : minute - Week < b => MIN < b  BY <2>2
  <2> QED  BY <2>1, <2>3 DEF NearestPast
<1> QED  BY <1>1 DEF Start, End

(* Apply: the state wanted is set. *)
LEMMA FollowsWhenSet ==
    ASSUME TypeOK, NEW sub \in SubRecord, NEW w \in Wants, NEW start, NEW end,
           NearestPast(start, now), NearestPast(end, now), Follows(sub, w, start, end, now),
           NEW enabled \in BOOLEAN, enabled <=> w = "on", sub.enabled # enabled
    PROVE  /\ Follows(SetState(sub, enabled, sub.keep), w, start, end, now)
           /\ SetState(sub, enabled, sub.keep).enabled = enabled
<1>1. now \in Nat /\ MIN \in Int /\ MIN < 0  BY NowIsNat, Constants
<1> DEFINE keep == sub.keep  after == SetState(sub, enabled, keep)
<1>2. /\ after.enabled = enabled /\ after.keep = keep
      /\ after.lastActivated = (IF enabled THEN now ELSE MIN)
      /\ after.lastDeactivated = (IF enabled THEN MIN ELSE now)
  BY DEF SetState, Switched, SubRecord
<1>3. /\ keep \in BOOLEAN /\ sub.enabled \in BOOLEAN
      /\ sub.lastActivated \in Int /\ sub.lastDeactivated \in Int
  BY <1>1, Constants DEF SubRecord
<1> HIDE DEF after
<1>4. CASE enabled
  <2>1. w = "on" /\ ~sub.enabled  BY <1>3, <1>4
  <2>2. \E s \in start : sub.lastDeactivated < s /\ \A e \in end : e < s
    BY <2>1 DEF Follows, getSubscriptionExpectedEnabledState
  <2>3. getSubscriptionExpectedEnabledState(after, start, end, FALSE)
    BY <1>1, <1>2, <1>4, <2>2 DEF getSubscriptionExpectedEnabledState, NearestPast
  <2>4. RecordIsTrue(after, w, end # {}, now)
    BY <1>1, <1>2, <1>3, <1>4, <2>1 DEF RecordIsTrue, Follows
  <2> QED  BY <1>2, <2>1, <2>3, <2>4 DEF Follows, after
<1>5. CASE ~enabled
  <2>1. w # "on" /\ sub.enabled  BY <1>3, <1>5
  <2>2. keep \/ end # {}
    BY <2>1 DEF Follows, getSubscriptionExpectedEnabledState
  <2>3. ~getSubscriptionExpectedEnabledState(after, start, end, FALSE)
    BY <1>1, <1>2, <1>5 DEF getSubscriptionExpectedEnabledState, NearestPast
  <2>4. RecordIsTrue(after, w, end # {}, now)
    BY <1>1, <1>2, <1>3, <1>5, <2>1, <2>2 DEF RecordIsTrue, Follows
  <2> QED  BY <1>2, <2>1, <2>3, <2>4 DEF Follows, after
<1> QED  BY <1>4, <1>5

(* UserSwitches: the user's choice is the state wanted. *)
LEMMA FollowsWhenSwitched ==
    ASSUME TypeOK, NEW sub \in SubRecord, NEW w \in Wants, NEW start, NEW end,
           NearestPast(start, now), NearestPast(end, now), Follows(sub, w, start, end, now),
           NEW v, v = IF sub.enabled THEN "kept" ELSE "on",
           NEW enabled \in BOOLEAN, enabled <=> ~sub.enabled
    PROVE  /\ Follows(SetState(sub, enabled, sub.enabled), v, start, end, now)
           /\ SetState(sub, enabled, sub.enabled).enabled = enabled
<1>1. now \in Nat /\ MIN \in Int /\ MIN < 0  BY NowIsNat, Constants
<1> DEFINE keep == sub.enabled  after == SetState(sub, enabled, keep)
<1>2. /\ keep \in BOOLEAN /\ sub.keep \in BOOLEAN /\ enabled # sub.enabled  BY DEF SubRecord
<1>3. /\ after.enabled = enabled /\ after.keep = (IF Legacy THEN keep ELSE sub.keep)
      /\ after.lastActivated = (IF enabled THEN now ELSE MIN)
      /\ after.lastDeactivated = (IF enabled THEN MIN ELSE now)
  BY <1>2 DEF SetState, Switched, SubRecord
<1>4. ~Legacy => ~sub.keep  BY DEF Follows, RecordIsTrue
<1> HIDE DEF after
<1>5. CASE enabled
  <2>1. v = "on" /\ ~keep  BY <1>2, <1>5
  <2>2. ~after.keep  BY <1>3, <1>4, <2>1
  <2>3. getSubscriptionExpectedEnabledState(after, start, end, FALSE)
    BY <1>1, <1>3, <1>5, <2>2 DEF getSubscriptionExpectedEnabledState, NearestPast
  <2>4. RecordIsTrue(after, v, end # {}, now)
    BY <1>1, <1>3, <1>5, <2>1, <2>2 DEF RecordIsTrue
  <2> QED  BY <1>3, <2>1, <2>3, <2>4 DEF Follows, after
<1>6. CASE ~enabled
  <2>1. v = "kept" /\ keep  BY <1>2, <1>6
  <2>2. ~getSubscriptionExpectedEnabledState(after, start, end, FALSE)
    BY <1>1, <1>3, <1>6 DEF getSubscriptionExpectedEnabledState, NearestPast
  <2>3. RecordIsTrue(after, v, end # {}, now)
    BY <1>1, <1>3, <1>4, <1>6, <2>1 DEF RecordIsTrue
  <2> QED  BY <1>3, <2>1, <2>2, <2>3 DEF Follows, after
<1> QED  BY <1>5, <1>6

(* Tick: an occurrence a minute later. *)
LEMMA FollowsLater ==
    ASSUME NEW sub \in SubRecord, NEW w \in Wants, NEW start, NEW end, NEW minute \in Nat,
           NearestPast(start, minute), NearestPast(end, minute),
           Follows(sub, w, start, end, minute),
           Legacy => (sub.enabled <=> w = "on"),
           NEW begins \in BOOLEAN, NEW ends \in BOOLEAN, NEW v, NEW later,
           v = (IF ends THEN Off(w) ELSE IF begins THEN "on" ELSE w), later = minute + 1
    PROVE  Follows(sub, v, IF begins THEN {later} ELSE start, IF ends THEN {later} ELSE end, later)
<1>1. /\ sub.enabled \in BOOLEAN /\ sub.keep \in BOOLEAN
      /\ sub.lastActivated \in Int /\ sub.lastDeactivated \in Int
      /\ sub.lastActivated <= minute /\ sub.lastDeactivated <= minute
  BY Constants DEF SubRecord, Follows, RecordIsTrue
<1>2. later \in Int /\ minute < later /\ sub.lastActivated < later /\ sub.lastDeactivated < later
  BY <1>1
<1> DEFINE start2 == IF begins THEN {later} ELSE start
           end2 == IF ends THEN {later} ELSE end
<1>3. /\ \A s \in start2 : s \in Int /\ s <= later
      /\ \A e \in end2 : e \in Int /\ e <= later
  BY <1>2 DEF NearestPast
<1>4. CASE ends
  <2>1. end2 = {later} /\ v = Off(w) /\ v # "on"  BY <1>4 DEF Off
  <2> HIDE DEF start2, end2
  <2>2. ~ \E s \in start2 : later < s  BY <1>2, <1>3
  <2>3. ~(sub.lastActivated >= later)  BY <1>1, <1>2
  <2>4. ~getSubscriptionExpectedEnabledState(sub, start2, end2, FALSE)
    BY <1>2, <2>1, <2>2, <2>3 DEF getSubscriptionExpectedEnabledState
  <2>5. RecordIsTrue(sub, v, end2 # {}, later)
    BY <1>1, <1>2, <2>1 DEF Follows, RecordIsTrue
  <2> QED  BY <2>1, <2>4, <2>5 DEF Follows, start2, end2
<1>5. CASE ~ends /\ begins
  <2>1. end2 = end /\ start2 = {later} /\ v = "on"  BY <1>5
  <2>2. \A e \in end : e \in Int /\ e < later  BY <1>2 DEF NearestPast
  <2>3. sub.enabled /\ sub.keep => end = {} \/ \E e \in end : sub.lastActivated >= e
    BY <1>1 DEF Follows, RecordIsTrue, getSubscriptionExpectedEnabledState
  <2>4. getSubscriptionExpectedEnabledState(sub, {later}, end, FALSE)
    BY <1>1, <1>2, <2>2, <2>3 DEF getSubscriptionExpectedEnabledState
  <2>5. RecordIsTrue(sub, v, end # {}, later)
    BY <1>1, <1>2, <2>1 DEF Follows, RecordIsTrue
  <2> QED  BY <2>1, <2>4, <2>5 DEF Follows
<1>6. CASE ~ends /\ ~begins
  <2>1. end2 = end /\ start2 = start /\ v = w  BY <1>6
  <2>2. RecordIsTrue(sub, w, end # {}, later)
    BY <1>1, <1>2 DEF Follows, RecordIsTrue
  <2> QED  BY <2>1, <2>2 DEF Follows
<1> QED  BY <1>4, <1>5, <1>6

(* Boot: the modem has powered the SIM again.                              *)
LEMMA FollowsWhenPowered ==
    ASSUME NEW sub \in SubRecord, NEW w \in Wants, NEW start, NEW end, NEW minute \in Nat,
           NearestPast(start, minute), NearestPast(end, minute), Legacy,
           Follows(sub, w, start, end, minute), sub.enabled <=> w = "on"
    PROVE  Follows([sub EXCEPT !.enabled = TRUE], w, start, end, minute)
<1> DEFINE after == [sub EXCEPT !.enabled = TRUE]
<1>1. /\ after.enabled /\ after.keep = sub.keep /\ after.lastActivated = sub.lastActivated
      /\ after.lastDeactivated = sub.lastDeactivated
  BY DEF SubRecord
<1>2. /\ sub.enabled \in BOOLEAN /\ sub.keep \in BOOLEAN /\ MIN \in Int
      /\ sub.lastActivated \in Int /\ sub.lastDeactivated \in Int
  BY Constants DEF SubRecord
<1> HIDE DEF after
<1>3. CASE sub.enabled
  <2>1. RecordIsTrue(after, w, end # {}, minute)
    BY <1>1, <1>2, <1>3 DEF Follows, RecordIsTrue
  <2>2. getSubscriptionExpectedEnabledState(after, start, end, FALSE) <=> w = "on"
    BY <1>1, <1>3 DEF Follows, getSubscriptionExpectedEnabledState
  <2> QED  BY <2>1, <2>2 DEF Follows, after
<1>4. CASE ~sub.enabled
  <2>1. w # "on" /\ sub.lastActivated = MIN /\ (sub.keep \/ end # {})
    BY <1>4 DEF Follows, RecordIsTrue
  <2>2. ~ \E s \in start : sub.lastDeactivated < s /\ \A e \in end : e < s
    BY <1>4, <2>1 DEF Follows, getSubscriptionExpectedEnabledState
  <2>3. ~getSubscriptionExpectedEnabledState(after, start, end, FALSE)
    BY <1>1, <1>2, <2>1, <2>2 DEF getSubscriptionExpectedEnabledState, NearestPast
  <2>4. RecordIsTrue(after, w, end # {}, minute)
    BY <1>1, <1>2, <2>1 DEF Follows, RecordIsTrue
  <2> QED  BY <2>1, <2>3, <2>4 DEF Follows, after
<1> QED  BY <1>3, <1>4

(* Edit: the schedules override what the user did before. *)
StateAfter(start, end, default) ==
    IF start \union end = {} THEN default ELSE \E s \in start : \A e \in end : e < s

LEMMA EditOverrides ==
    ASSUME NEW sub \in SubRecord, NEW w \in Wants, NEW minute, ~Legacy,
           RecordIsTrue(sub, w, TRUE, minute),
           NEW start, NEW end, NearestPast(start, minute), NearestPast(end, minute),
           NEW override, override
    PROVE  getSubscriptionExpectedEnabledState(sub, start, end, override)
              <=> StateAfter(start, end, sub.enabled)
<1> DEFINE expected == getSubscriptionExpectedEnabledState(sub, start, end, override)
           latest == StateAfter(start, end, sub.enabled)
<1>1. sub.enabled \in BOOLEAN /\ ~sub.keep /\ (sub.enabled => sub.lastDeactivated = MIN)
  BY DEF SubRecord, RecordIsTrue
<1>2. \A e \in end : e \in Int /\ \A c \in end : e = c  BY DEF NearestPast
<1>3. \A s \in start : s \in Int /\ MIN < s  BY DEF NearestPast
<1>4. CASE sub.enabled
  <2>1. expected <=> end = {} \/ \E e \in end : \E s \in start : e < s
    BY <1>1, <1>2, <1>3, <1>4 DEF getSubscriptionExpectedEnabledState
  <2>2. latest <=> end = {} \/ \E e \in end : \E s \in start : e < s
    <3>1. CASE end = {}
      <4>1. start \union end = {} <=> start = {}  BY <3>1
      <4> QED  BY <1>4, <3>1, <4>1 DEF StateAfter
    <3>2. CASE end # {}
      <4>1. PICK e \in end : end = {e}  BY <1>2, <3>2
      <4>2. latest <=> \E s \in start : e < s  BY <4>1 DEF StateAfter
      <4> QED  BY <4>1, <4>2
    <3> QED  BY <3>1, <3>2
  <2> QED  BY <2>1, <2>2
<1>5. CASE ~sub.enabled
  <2>1. expected <=> \E s \in start : \A e \in end : e < s
    BY <1>1, <1>5 DEF getSubscriptionExpectedEnabledState
  <2>2. latest <=> \E s \in start : \A e \in end : e < s
    <3>1. start \union end = {} => start = {}  OBVIOUS
    <3> QED  BY <1>5, <3>1 DEF StateAfter
  <2> QED  BY <2>1, <2>2
<1> QED  BY <1>4, <1>5

LEMMA FollowsWhenEdited ==
    ASSUME TypeOK, ~Legacy, NEW sub \in SubRecord, NEW w \in Wants,
           RecordIsTrue(sub, w, TRUE, now),
           NEW start, NEW end, NearestPast(start, now), NearestPast(end, now),
           NEW v, NEW expected \in BOOLEAN, expected <=> v = "on",
           expected <=> StateAfter(start, end, sub.enabled)
    PROVE  /\ sub.enabled = expected => Follows(sub, v, start, end, now)
           /\ sub.enabled # expected =>
                 \A keep : /\ Follows(SetState(sub, expected, keep), v, start, end, now)
                           /\ SetState(sub, expected, keep).enabled = expected
<1>1. now \in Nat /\ MIN \in Int /\ MIN < 0  BY NowIsNat, Constants
<1>2. /\ sub.enabled \in BOOLEAN /\ ~sub.keep
      /\ sub.lastActivated \in Int /\ sub.lastDeactivated \in Int
      /\ sub.lastActivated <= now /\ sub.lastDeactivated <= now
      /\ ~sub.enabled => sub.lastActivated = MIN
      /\ sub.enabled => sub.lastDeactivated = MIN
  BY <1>1, Constants DEF SubRecord, RecordIsTrue
<1>3. ASSUME sub.enabled # expected, NEW keep
      PROVE  /\ Follows(SetState(sub, expected, keep), v, start, end, now)
             /\ SetState(sub, expected, keep).enabled = expected
  <2> DEFINE after == SetState(sub, expected, keep)
  <2>1. /\ after.enabled = expected /\ after.keep = sub.keep
        /\ after.lastActivated = (IF expected THEN now ELSE MIN)
        /\ after.lastDeactivated = (IF expected THEN MIN ELSE now)
    BY DEF SetState, Switched, SubRecord
  <2> HIDE DEF after
  <2>2. getSubscriptionExpectedEnabledState(after, start, end, FALSE) <=> expected
    <3>1. CASE expected
      BY <1>1, <1>2, <2>1, <3>1 DEF getSubscriptionExpectedEnabledState, NearestPast
    <3>2. CASE ~expected
      BY <1>1, <1>2, <2>1, <3>2 DEF getSubscriptionExpectedEnabledState, NearestPast
    <3> QED  BY <3>1, <3>2
  <2>3. RecordIsTrue(after, v, end # {}, now)
    <3>1. after.lastActivated <= now /\ after.lastDeactivated <= now
      <4>1. MIN <= now /\ now <= now  BY <1>1
      <4> QED  BY <2>1, <4>1
    <3>2. ~after.enabled => after.lastActivated = MIN  BY <2>1
    <3>3. after.enabled => after.lastDeactivated = MIN  BY <2>1
    <3> QED  BY <1>2, <2>1, <3>1, <3>2, <3>3 DEF RecordIsTrue
  <2> QED  BY <2>1, <2>2, <2>3 DEF Follows, after
<1>4. ASSUME sub.enabled = expected  PROVE Follows(sub, v, start, end, now)
  <2>1. getSubscriptionExpectedEnabledState(sub, start, end, FALSE) <=> expected
    <3>1. CASE expected
      <4>1. end = {} \/ \E e \in end : \E s \in start : e < s
        <5>1. end # {} => \E s \in start : \A e \in end : e < s
          BY <3>1 DEF StateAfter
        <5> QED  BY <5>1
      <4>2. \A s \in start : sub.lastDeactivated < s
        BY <1>2, <1>4, <3>1 DEF NearestPast
      <4> QED  BY <1>2, <1>4, <3>1, <4>1, <4>2 DEF getSubscriptionExpectedEnabledState
    <3>2. CASE ~expected
      <4>1. ~ \E s \in start : \A e \in end : e < s
        <5>1. start \union end = {} => start = {}  OBVIOUS
        <5> QED  BY <3>2, <5>1 DEF StateAfter
      <4> QED  BY <1>2, <1>4, <3>2, <4>1 DEF getSubscriptionExpectedEnabledState
    <3> QED  BY <3>1, <3>2
  <2>2. RecordIsTrue(sub, v, end # {}, now)  BY <1>2 DEF RecordIsTrue
  <2> QED  BY <2>1, <2>2 DEF Follows
<1> QED  BY <1>3, <1>4

(* Init: a restored table. *)
LEMMA FollowsAtFirst ==
    ASSUME NEW sub \in SubRecord, sub.enabled, ~sub.keep,
           sub.lastActivated = MIN, sub.lastDeactivated = MIN,
           NEW minute \in Nat, NEW start, NEW end,
           NearestPast(start, minute), NearestPast(end, minute), NEW v, NEW latest,
           latest <=> IF start \union end = {} THEN TRUE
                      ELSE \E s \in start : \A e \in end : e < s,
           v = IF latest THEN "on" ELSE "off"
    PROVE  Follows(sub, v, start, end, minute)
<1>1. MIN \in Int /\ MIN < 0  BY Constants
<1>2. \A e \in end : e \in Int /\ MIN < e /\ \A c \in end : e = c  BY DEF NearestPast
<1>3. \A s \in start : s \in Int /\ MIN < s  BY DEF NearestPast
<1>4. CASE end = {}
  <2>1. latest
    <3>1. start # {} \/ start \union end = {}  BY <1>4
    <3> QED  BY <1>4, <3>1
  <2>2. getSubscriptionExpectedEnabledState(sub, start, end, FALSE)
    BY <1>4 DEF getSubscriptionExpectedEnabledState
  <2>3. v = "on"  BY <2>1
  <2>4. RecordIsTrue(sub, v, end # {}, minute)  BY <1>1, <2>3 DEF RecordIsTrue
  <2> QED  BY <2>2, <2>3, <2>4 DEF Follows
<1>5. CASE end # {}
  <2>1. PICK e \in end : end = {e}  BY <1>2, <1>5
  <2>2. latest <=> \E s \in start : e < s  BY <2>1
  <2>3. getSubscriptionExpectedEnabledState(sub, start, end, FALSE) <=> latest
    BY <1>1, <1>2, <1>3, <2>1, <2>2 DEF getSubscriptionExpectedEnabledState
  <2>4. RecordIsTrue(sub, v, end # {}, minute)  BY <1>1, <1>5 DEF RecordIsTrue
  <2>5. v = "on" <=> latest  OBVIOUS
  <2> QED  BY <2>3, <2>4, <2>5 DEF Follows
<1> QED  BY <1>4, <1>5

-----------------------------------------------------------------------------
(* The invariant of following the schedules.                               *)
(* The settings under which the code follows the schedules.                *)
Followable ==
    /\ ~Interleaved /\ ~AlarmLag /\ PhoneCalls # "for long"
    /\ UserEdits => ~Legacy /\ PhoneCalls = "never"
    /\ Legacy => PowerCycles # "for long"

(* A task is done in the minute it was queued in. *)
TaskIsNow(task, minute) == task.kind # "next" => task.time = minute /\ task.kind # "override"

TasksAreNow ==
    /\ \A i \in 1..Len(queue) : TaskIsNow(queue[i], now)
    /\ \A task \in postponed : TaskIsNow(task, now)
    /\ inCall \/ postponed # {} => PhoneCalls # "never"

WantsAreFollowed ==
    \A u \in Subs :
        Follows(subs[u], want[u], Start(schedules, u, now), End(schedules, u, now), now)

(* What is about to be set is wanted. *)
ChosenIsWanted ==
    chosen.kind = "set" => /\ chosen.enabled <=> want[chosen.sub] = "on"
                           /\ subs[chosen.sub].enabled # chosen.enabled
                           /\ chosen.keep = subs[chosen.sub].keep

(* A subscription that is not in the state wanted will be synced.          *)
AlarmIsDue == Due /\ queue = <<>> /\ carrier = {} /\ chosen = Nothing /\ postponed = {}

Syncs(i, u) == \/ queue[i].kind = "syncAll" /\ (i = 1 => at <= u)
               \/ queue[i].kind = "sync" /\ queue[i].sub = u

SyncIsDue(u) ==
    \/ \E i \in 1..Len(queue) : Syncs(i, u)
    \/ \E task \in postponed : task.kind = "sync" /\ task.sub = u
    \/ AlarmIsDue

Synced(u) == subs[u].enabled <=> want[u] = "on"

SyncedOrDue == on \/ Legacy => \A u \in Subs : Synced(u) \/ SyncIsDue(u)

FollowInv == /\ ShapeInv /\ AlarmIsKept
             /\ TasksAreNow /\ WantsAreFollowed /\ ChosenIsWanted /\ SyncedOrDue

-----------------------------------------------------------------------------
LEMMA SubFacts ==
    ASSUME ShapeInv, NEW u \in Subs
    PROVE  /\ subs[u] \in SubRecord /\ want[u] \in Wants /\ subs[u].enabled \in BOOLEAN
           /\ NearestPast(Start(schedules, u, now), now)
           /\ NearestPast(End(schedules, u, now), now)
           /\ Start(schedules, u, now) \in SUBSET Int /\ End(schedules, u, now) \in SUBSET Int
<1>1. subs \in [Subs -> SubRecord] /\ want \in [Subs -> Wants]
  BY DEF ShapeInv, TypeOK, SubRecord, Wants
<1>2. subs[u] \in SubRecord /\ want[u] \in Wants  BY <1>1
<1>3. subs[u].enabled \in BOOLEAN  BY <1>2 DEF SubRecord
<1>4. now \in Nat /\ Week <= now /\ Repeating(schedules)  BY NowIsNat DEF ShapeInv
<1>5. /\ NearestPast(Start(schedules, u, now), now)
      /\ NearestPast(End(schedules, u, now), now)
  BY <1>4, StartAndEndArePast
<1> QED  BY <1>2, <1>3, <1>5 DEF NearestPast

LEMMA QuietIsSynced ==
    ASSUME ShapeInv, SyncedOrDue, Quiet, ~inCall
    PROVE  \A u \in Subs : Synced(u)
<1>1. on /\ queue = <<>> /\ postponed = {} /\ ~Due  BY DEF Quiet
<1>2. \A u \in Subs : ~SyncIsDue(u)
  <2>1. 1..Len(queue) = {}  BY <1>1
  <2> QED  BY <1>1, <2>1 DEF SyncIsDue, AlarmIsDue
<1> QED  BY <1>1, <1>2 DEF SyncedOrDue

LEMMA NoCallsForLong ==
    ASSUME Followable, Tick
    PROVE  ~inCall /\ (on => Quiet) /\ (~on => PowerCycles = "for long" /\ ~Legacy)
BY DEF Tick, Quiet, Followable

(* A sync that has not been done remains. *)
LEMMA SyncRemains ==
    ASSUME ShapeInv, queue # <<>>, Advance, UNCHANGED postponed \/ postponed \subseteq postponed',
           NEW u \in Subs, SyncIsDue(u),
           Head(queue).kind \in {"syncAll", "sync", "override"} => u # TaskSub
    PROVE  SyncIsDue(u)'
<1>1. /\ queue \in Seq(Task) /\ at \in Subs /\ Head(queue) = queue[1] /\ Subs \subseteq Nat
      /\ \A v \in Subs : \A w \in Subs : v <= w
             => \A x \in v..w : x \in Subs
  <2>1. queue \in Seq(Task) /\ at \in Subs  BY DEF ShapeInv, TypeOK
  <2>2. Subs = 1..Cardinality(Subs)  BY SchedulerAssumption
  <2>3. Cardinality(Subs) \in Nat  BY SchedulerAssumption, FS_CardinalityType
  <2>4. \A v \in Subs : \A w \in Subs : \A x \in v..w : x \in Subs  BY <2>2, <2>3
  <2> QED  BY <2>1, <2>4, HeadIsWhole, Constants
<1>2. ~AlarmIsDue  BY DEF AlarmIsDue
<1>3. CASE \E task \in postponed : task.kind = "sync" /\ task.sub = u
  <2>1. postponed \subseteq postponed'  OBVIOUS
  <2> QED  BY <1>3, <2>1 DEF SyncIsDue
<1>4. ASSUME NEW i \in 1..Len(queue), Syncs(i, u)
      PROVE  \E j \in 1..Len(queue') : Syncs(j, u)'
  <2>1. Len(queue) \in Nat /\ Len(queue) >= 1  BY <1>1, QueueTail
  <2>2. CASE i = 1
    <3>1. Head(queue).kind = "syncAll" /\ at <= u
      <4>1. ~(Head(queue).kind = "sync" /\ Head(queue).sub = u)  BY DEF TaskSub
      <4> QED  BY <1>1, <1>4, <2>2, <4>1 DEF Syncs
    <3>2. at # u  BY <3>1 DEF TaskSub
    <3>3. at + 1 <= u /\ at + 1 \in Subs
      <4>1. at + 1 \in at..u /\ at + 1 <= u  BY <1>1, <3>1, <3>2
      <4> QED  BY <1>1, <3>1, <4>1
    <3>4. at' = at + 1 /\ UNCHANGED queue  BY <3>1, <3>3 DEF Advance
    <3>5. Syncs(1, u)'  BY <1>1, <3>1, <3>3, <3>4 DEF Syncs
    <3> QED  BY <2>2, <3>4, <3>5
  <2>3. CASE i # 1 /\ UNCHANGED queue
    <3>1. Syncs(i, u)'  BY <1>4, <2>3 DEF Syncs
    <3> QED  BY <2>3, <3>1
  <2>4. CASE i # 1 /\ Finish
    <3>1. queue' = Tail(queue) /\ at' = 1  BY <2>4 DEF Finish
    <3>2. /\ Len(queue') = Len(queue) - 1
          /\ \A j \in 1..(Len(queue) - 1) : queue'[j] = queue[j + 1]
      BY <1>1, <3>1, QueueTail
    <3>3. PICK j \in 1..(Len(queue) - 1) : i = j + 1
      <4>1. i - 1 \in 1..(Len(queue) - 1) /\ i = (i - 1) + 1  BY <2>1, <2>4
      <4> QED  BY <4>1
    <3>4. queue'[j] = queue[i] /\ j \in 1..Len(queue')  BY <3>2, <3>3
    <3>5. at' <= u  BY <1>1, <3>1, Constants
    <3>6. Syncs(j, u)'  BY <1>4, <3>4, <3>5, <2>4 DEF Syncs
    <3> QED  BY <3>4, <3>6
  <2> QED  BY <2>2, <2>3, <2>4 DEF Advance
<1> QED  BY <1>2, <1>3, <1>4 DEF SyncIsDue

(* Nor does one that is behind the head, or not queued at all. *)
LEMMA SyncIsKept ==
    ASSUME NEW tasks, Gained(tasks), UNCHANGED at, NEW u, \E i \in 1..Len(queue) : Syncs(i, u)
    PROVE  \E i \in 1..Len(queue') : Syncs(i, u)'
<1>1. PICK i \in 1..Len(queue) : Syncs(i, u)  OBVIOUS
<1>2. i \in 1..Len(queue') /\ queue'[i] = queue[i]  BY DEF Gained
<1>3. Syncs(i, u)'  BY <1>1, <1>2 DEF Syncs
<1> QED  BY <1>2, <1>3

LEMMA SyncAllJoins ==
    ASSUME ShapeInv, NEW tasks, Gained(tasks), UNCHANGED at, NEW t, SyncAll(t) \in tasks,
           NEW u \in Subs
    PROVE  SyncIsDue(u)'
<1>1. PICK i \in 1..Len(queue') : Len(queue) < i /\ queue'[i] = SyncAll(t)  BY DEF Gained
<1>2. queue'[i].kind = "syncAll"  BY <1>1 DEF SyncAll
<1>3. i = 1 => at <= u
  <2>1. queue \in Seq(Task)  BY DEF ShapeInv, TypeOK
  <2>2. i = 1 => queue = <<>>
    <3>1. queue # <<>> => Len(queue) \in Nat /\ Len(queue) >= 1  BY <2>1, QueueTail
    <3> QED  BY <1>1, <3>1
  <2>3. queue = <<>> => at = 1  BY DEF ShapeInv, TasksAreWhole
  <2>4. 1 <= u  BY Constants
  <2> QED  BY <2>2, <2>3, <2>4
<1>4. Syncs(i, u)'  BY <1>2, <1>3 DEF Syncs
<1> QED  BY <1>4 DEF SyncIsDue

LEMMA TasksStayNow ==
    ASSUME TasksAreNow, UNCHANGED now, NEW tasks, Gained(tasks),
           \A task \in tasks : TaskIsNow(task, now)
    PROVE  \A i \in 1..Len(queue') : TaskIsNow(queue'[i], now')
<1>1. ASSUME NEW i \in 1..Len(queue')  PROVE TaskIsNow(queue'[i], now)
  <2>1. CASE i \in 1..Len(queue)
    <3>1. queue'[i] = queue[i]  BY <2>1 DEF Gained
    <3> QED  BY <2>1, <3>1 DEF TasksAreNow
  <2>2. CASE queue'[i] \in tasks  BY <2>2
  <2> QED  BY <2>1, <2>2 DEF Gained
<1> QED  BY <1>1

LEMMA TasksLeftAreNow ==
    ASSUME ShapeInv, TasksAreNow, UNCHANGED now, queue # <<>>, Advance \/ UNCHANGED queue
    PROVE  \A i \in 1..Len(queue') : TaskIsNow(queue'[i], now')
<1>1. \A i \in 1..Len(queue') : \E j \in 1..Len(queue) : queue'[i] = queue[j]
  BY AdvanceShape
<1> QED  BY <1>1 DEF TasksAreNow

LEMMA OthersStaySynced ==
    ASSUME FollowInv, on, queue # <<>>, Advance, postponed \subseteq postponed',
           UNCHANGED want, NEW u \in Subs, subs'[u].enabled = subs[u].enabled,
           Head(queue).kind \in {"syncAll", "sync", "override"} => u # TaskSub
    PROVE  Synced(u)' \/ SyncIsDue(u)'
<1>1. Synced(u) \/ SyncIsDue(u)  BY DEF FollowInv, SyncedOrDue
<1>2. SyncIsDue(u) => SyncIsDue(u)'  BY SyncRemains DEF FollowInv
<1> QED  BY <1>1, <1>2 DEF Synced

LEMMA DecisionIsWanted ==
    ASSUME FollowInv, queue # <<>>, Head(queue).kind \in {"syncAll", "sync", "override"}
    PROVE  /\ TaskSub \in Subs /\ Head(queue).time = now /\ Head(queue).kind # "override"
           /\ Expected(schedules, TaskSub, Head(queue).time, Head(queue).kind = "override")
                 <=> want[TaskSub] = "on"
<1> DEFINE task == Head(queue)  u == TaskSub  override == task.kind = "override"
<1>1. u \in Subs /\ task = queue[1] /\ queue \in Seq(Task)
  BY HeadIsWhole DEF FollowInv, ShapeInv, TypeOK
<1>2. 1 \in 1..Len(queue)  BY <1>1, QueueTail
<1>3. TaskIsNow(task, now)  BY <1>1, <1>2 DEF FollowInv, TasksAreNow
<1>4. task.time = now /\ ~override  BY <1>3 DEF TaskIsNow
<1>5. Expected(schedules, u, now, override) <=>
         getSubscriptionExpectedEnabledState(subs[u], Start(schedules, u, now),
                                             End(schedules, u, now), FALSE)
  <2> HIDE DEF u, override
  <2> QED  BY <1>4 DEF Expected, getSubscriptionExpectedEnabledState
<1>6. Follows(subs[u], want[u], Start(schedules, u, now), End(schedules, u, now), now)
  BY <1>1 DEF FollowInv, WantsAreFollowed
<1>7. Expected(schedules, u, now, override) <=> want[u] = "on"
  <2> HIDE DEF u, override
  <2> QED  BY <1>5, <1>6 DEF Follows
<1> QED  BY <1>1, <1>4, <1>7

LEMMA DecideFollows ==
    ASSUME Followable, FollowInv, Decide
    PROVE  (TasksAreNow /\ WantsAreFollowed /\ ChosenIsWanted /\ SyncedOrDue)'
<1> DEFINE task == Head(queue)
           override == task.kind = "override"
<1>1. /\ on /\ chosen = Nothing /\ queue # <<>> /\ task.kind \in {"syncAll", "sync", "override"}
      /\ UNCHANGED <<now, on, schedules, subs, alarm, carrier, inCall, want>>
  BY DEF Decide, Runs, Idle
<1>0. PICK u \in Subs : u = TaskSub  BY <1>1, DecisionIsWanted
<1> DEFINE expected == Expected(schedules, u, task.time, override)
<1>2. u \in Subs /\ task.time = now /\ task.kind # "override" /\ (expected <=> want[u] = "on")
  BY <1>1, <1>0, DecisionIsWanted
<1>3. expected \in BOOLEAN  BY <1>2, ExpectedIsBoolean DEF FollowInv, ShapeInv
<1>4. \/ Advance /\ UNCHANGED <<chosen, postponed>> /\ subs[u].enabled = expected
      \/ Postpone(u, now, override) /\ MustPostpone(expected) /\ Advance /\ UNCHANGED chosen
      \/ /\ chosen' = [kind |-> "set", sub |-> u, enabled |-> expected,
                       keep |-> KeepDisabledAcrossBoots(u, override)]
         /\ subs[u].enabled # expected
         /\ UNCHANGED <<queue, at, postponed>>
  BY <1>2, <1>0 DEF Decide, TaskSub
<1>5. subs[u].enabled \in BOOLEAN /\ subs[u].keep \in BOOLEAN
  BY <1>2, SubFacts DEF FollowInv, SubRecord
<1> HIDE DEF expected
<1>6. WantsAreFollowed'  BY <1>1 DEF FollowInv, WantsAreFollowed
<1>7. \A i \in 1..Len(queue') : TaskIsNow(queue'[i], now')
  BY <1>1, <1>4, TasksLeftAreNow DEF FollowInv
<1>8. ASSUME Advance, postponed \subseteq postponed',
             Synced(u)' \/ SyncIsDue(u)'
      PROVE  SyncedOrDue'
  <2>1. ASSUME NEW v \in Subs, v # u  PROVE Synced(v)' \/ SyncIsDue(v)'
    BY <1>1, <1>8, <1>0, <2>1, OthersStaySynced
  <2> QED  BY <1>8, <2>1 DEF SyncedOrDue
<1>9. CASE Advance /\ UNCHANGED <<chosen, postponed>> /\ subs[u].enabled = expected
  <2>1. Synced(u)'  BY <1>1, <1>2, <1>9 DEF Synced
  <2>2. SyncedOrDue'  BY <1>8, <1>9, <2>1
  <2>3. ChosenIsWanted'  BY <1>1, <1>9 DEF ChosenIsWanted, Nothing
  <2>4. TasksAreNow'  BY <1>1, <1>7, <1>9 DEF FollowInv, TasksAreNow
  <2> QED  BY <1>6, <2>2, <2>3, <2>4
<1>10. CASE Postpone(u, now, override) /\ MustPostpone(expected) /\ Advance /\ UNCHANGED chosen
  <2>1. postponed' = postponed \union {SyncOne(u, now, override), UpdateNext(now)} /\ inCall
    BY <1>10 DEF Postpone, MustPostpone
  <2>2. /\ SyncOne(u, now, override).kind = "sync" /\ SyncOne(u, now, override).sub = u
        /\ SyncOne(u, now, override).time = now /\ UpdateNext(now).kind = "next"
    BY <1>2 DEF SyncOne, UpdateNext
  <2>3. SyncIsDue(u)'
    <3>1. SyncOne(u, now, override) \in postponed'  BY <2>1
    <3> QED  BY <2>2, <3>1 DEF SyncIsDue
  <2>4. SyncedOrDue'  BY <1>8, <1>10, <2>1, <2>3
  <2>5. ChosenIsWanted'  BY <1>1, <1>10 DEF ChosenIsWanted, Nothing
  <2>6. TasksAreNow'
    <3>1. \A p \in postponed' : TaskIsNow(p, now')
      <4>1. TaskIsNow(SyncOne(u, now, override), now) /\ TaskIsNow(UpdateNext(now), now)
        BY <2>2 DEF TaskIsNow
      <4> QED  BY <1>1, <2>1, <4>1 DEF FollowInv, TasksAreNow
    <3>2. PhoneCalls # "never"  BY <2>1 DEF FollowInv, TasksAreNow
    <3> QED  BY <1>7, <3>1, <3>2 DEF TasksAreNow
  <2> QED  BY <1>6, <2>4, <2>5, <2>6
<1>11. CASE /\ chosen' = [kind |-> "set", sub |-> u, enabled |-> expected,
                          keep |-> KeepDisabledAcrossBoots(u, override)]
            /\ subs[u].enabled # expected
            /\ UNCHANGED <<queue, at, postponed>>
  <2>1. TasksAreNow'  BY <1>1, <1>7, <1>11 DEF FollowInv, TasksAreNow
  <2>2. KeepDisabledAcrossBoots(u, override) = subs[u].keep
    BY <1>2, <1>5 DEF KeepDisabledAcrossBoots
  <2>3. ChosenIsWanted'  BY <1>1, <1>2, <1>11, <2>2 DEF ChosenIsWanted
  <2>4. ~AlarmIsDue  BY <1>1 DEF AlarmIsDue
  <2>5. SyncedOrDue'
    <3>1. ASSUME NEW v \in Subs  PROVE Synced(v)' \/ SyncIsDue(v)'
      <4>1. Synced(v) \/ SyncIsDue(v)  BY <1>1 DEF FollowInv, SyncedOrDue
      <4>2. CASE Synced(v)  BY <1>1, <4>2 DEF Synced
      <4>3. CASE SyncIsDue(v)
        BY <1>11, <2>4, <4>3 DEF SyncIsDue, Syncs
      <4> QED  BY <4>1, <4>2, <4>3
    <3> QED  BY <3>1 DEF SyncedOrDue
  <2> QED  BY <1>6, <2>1, <2>3, <2>5
<1> QED  BY <1>4, <1>9, <1>10, <1>11

LEMMA ApplyFollows ==
    ASSUME Followable, FollowInv, Apply
    PROVE  (TasksAreNow /\ WantsAreFollowed /\ ChosenIsWanted /\ SyncedOrDue)'
<1>1. /\ TypeOK /\ ShapeInv /\ subs \in [Subs -> SubRecord]
      /\ on /\ chosen.kind = "set" /\ chosen' = Nothing /\ Advance
      /\ UNCHANGED <<now, on, schedules, inCall, postponed, want>>
  BY DEF FollowInv, ShapeInv, TypeOK, SubRecord, Apply
<1>2. /\ queue # <<>> /\ chosen.sub \in Subs /\ chosen.enabled \in BOOLEAN
      /\ Head(queue).kind \in {"syncAll", "sync", "override"} /\ chosen.sub = TaskSub
  BY <1>1 DEF ShapeInv, TypeOK, ChosenIsOfHead, Nothing, TaskSub
<1>3. PICK u \in Subs : u = chosen.sub  BY <1>2
<1>4. /\ subs' = [subs EXCEPT ![u] = SetState(subs[u], chosen.enabled, subs[u].keep)]
      /\ chosen.enabled <=> want[u] = "on"
      /\ subs[u].enabled # chosen.enabled
  BY <1>1, <1>3 DEF Apply, FollowInv, ChosenIsWanted
<1> DEFINE after == SetState(subs[u], chosen.enabled, subs[u].keep)
<1>5. /\ Follows(after, want[u], Start(schedules, u, now), End(schedules, u, now), now)
      /\ after.enabled = chosen.enabled
  <2>1. Follows(subs[u], want[u], Start(schedules, u, now), End(schedules, u, now), now)
    BY DEF FollowInv, WantsAreFollowed
  <2> QED  BY <1>1, <1>2, <1>4, <2>1, SubFacts, FollowsWhenSet
<1>6. subs'[u] = after /\ \A v \in Subs : v # u => subs'[v] = subs[v]  BY <1>1, <1>4
<1> HIDE DEF after
<1>7. WantsAreFollowed'
  <2>1. ASSUME NEW v \in Subs
        PROVE  Follows(subs'[v], want[v], Start(schedules, v, now), End(schedules, v, now), now)
    BY <1>5, <1>6 DEF FollowInv, WantsAreFollowed
  <2> QED  BY <1>1, <2>1 DEF WantsAreFollowed
<1>8. TasksAreNow'
  <2>1. \A i \in 1..Len(queue') : TaskIsNow(queue'[i], now')
    BY <1>1, <1>2, TasksLeftAreNow DEF FollowInv
  <2> QED  BY <1>1, <2>1 DEF FollowInv, TasksAreNow
<1>9. ChosenIsWanted'  BY <1>1 DEF ChosenIsWanted, Nothing
<1>10. SyncedOrDue'
  <2>1. Synced(u)'  BY <1>1, <1>4, <1>5, <1>6 DEF Synced
  <2>2. ASSUME NEW v \in Subs, v # u  PROVE Synced(v)' \/ SyncIsDue(v)'
    <3>1. subs'[v].enabled = subs[v].enabled /\ v # TaskSub  BY <1>2, <1>3, <1>6, <2>2
    <3>2. postponed \subseteq postponed'  BY <1>1
    <3> QED  BY <1>1, <1>2, <3>1, <3>2, OthersStaySynced
  <2> QED  BY <2>1, <2>2 DEF SyncedOrDue
<1> QED  BY <1>7, <1>8, <1>9, <1>10

LEMMA AlarmFollows ==
    ASSUME Followable, FollowInv, ComputeNext \/ SetAlarm
    PROVE  (TasksAreNow /\ WantsAreFollowed /\ ChosenIsWanted /\ SyncedOrDue)'
<1>1. /\ ShapeInv /\ on /\ queue # <<>> /\ Head(queue).kind = "next"
      /\ UNCHANGED <<now, on, schedules, subs, inCall, postponed, want>>
      /\ (UNCHANGED queue /\ UNCHANGED at) \/ Advance
      /\ chosen'.kind # "set"
  <2>1. CASE ComputeNext  BY <2>1 DEF ComputeNext, Runs, FollowInv
  <2>2. CASE SetAlarm
    BY <2>2 DEF SetAlarm, FollowInv, ShapeInv, ChosenIsOfHead, Advance, Finish, Nothing
  <2> QED  BY <2>1, <2>2
<1>2. \A i \in 1..Len(queue') : TaskIsNow(queue'[i], now')
  BY <1>1, TasksLeftAreNow DEF FollowInv
<1>3. TasksAreNow'  BY <1>1, <1>2 DEF FollowInv, TasksAreNow
<1>4. WantsAreFollowed'  BY <1>1 DEF FollowInv, WantsAreFollowed
<1>5. ChosenIsWanted'  BY <1>1 DEF ChosenIsWanted
<1>6. ASSUME NEW v \in Subs  PROVE Synced(v)' \/ SyncIsDue(v)'
  <2>1. CASE Advance
    <3>1. postponed \subseteq postponed' /\ subs'[v].enabled = subs[v].enabled  BY <1>1
    <3> QED  BY <1>1, <2>1, <3>1, OthersStaySynced
  <2>2. CASE UNCHANGED queue /\ UNCHANGED at
    <3>1. Synced(v) \/ SyncIsDue(v)  BY <1>1 DEF FollowInv, SyncedOrDue
    <3>2. Synced(v) => Synced(v)'  BY <1>1 DEF Synced
    <3>3. ~AlarmIsDue  BY <1>1 DEF AlarmIsDue
    <3>4. SyncIsDue(v) => SyncIsDue(v)'  BY <1>1, <2>2, <3>3 DEF SyncIsDue, Syncs
    <3> QED  BY <3>1, <3>2, <3>4
  <2> QED  BY <1>1, <2>1, <2>2
<1> QED  BY <1>3, <1>4, <1>5, <1>6 DEF SyncedOrDue

LEMMA ReceiversFollow ==
    ASSUME Followable, FollowInv,
           \/ AlarmRings
           \/ \E u \in Subs : CarrierConfigChanged(u)
           \/ \E task \in postponed : CallEndPoll(task)
    PROVE  (TasksAreNow /\ WantsAreFollowed /\ ChosenIsWanted /\ SyncedOrDue)'
<1>1. /\ ShapeInv /\ on /\ UNCHANGED <<now, on, schedules, subs, at, chosen, inCall, want>>
      /\ postponed' \subseteq postponed
  <2>1. CASE AlarmRings  BY <2>1 DEF AlarmRings, Due, FollowInv
  <2>2. CASE \E u \in Subs : CarrierConfigChanged(u)
    BY <2>2 DEF CarrierConfigChanged, FollowInv
  <2>3. CASE \E task \in postponed : CallEndPoll(task)  BY <2>3 DEF CallEndPoll, FollowInv
  <2> QED  BY <2>1, <2>2, <2>3
<1>2. WantsAreFollowed' /\ ChosenIsWanted'
  BY <1>1 DEF FollowInv, WantsAreFollowed, ChosenIsWanted
<1>3. \A u \in Subs : Synced(u) => Synced(u)'  BY <1>1 DEF Synced
<1>4. \A u \in Subs : Synced(u) \/ SyncIsDue(u)  BY <1>1 DEF FollowInv, SyncedOrDue
<1>5. ASSUME NEW tasks, Gained(tasks), \A task \in tasks : TaskIsNow(task, now)
      PROVE  TasksAreNow'
  <2>1. \A i \in 1..Len(queue') : TaskIsNow(queue'[i], now')
    BY <1>1, <1>5, TasksStayNow DEF FollowInv
  <2> QED  BY <1>1, <2>1 DEF FollowInv, TasksAreNow
<1>6. CASE AlarmRings
  <2>1. Gained({SyncAll(now), UpdateNext(now + 1)})  BY <1>1, <1>6, AlarmGains
  <2>2. TaskIsNow(SyncAll(now), now) /\ TaskIsNow(UpdateNext(now + 1), now)
    BY DEF TaskIsNow, SyncAll, UpdateNext
  <2>3. \A u \in Subs : SyncIsDue(u)'
    <3>1. ASSUME NEW tasks, Gained(tasks), NEW t, SyncAll(t) \in tasks
          PROVE  \A u \in Subs : SyncIsDue(u)'
      BY <1>1, <3>1, SyncAllJoins
    <3> QED  BY <2>1, <3>1
  <2> QED  BY <1>2, <1>5, <2>1, <2>2, <2>3 DEF SyncedOrDue
<1>7. ASSUME NEW u \in Subs, CarrierConfigChanged(u)
      PROVE  TasksAreNow' /\ SyncedOrDue'
  <2>1. Gained(CarrierTasks(u))  BY <1>1, <1>7, CarrierGains
  <2>2. \A task \in CarrierTasks(u) : TaskIsNow(task, now)
    <3>1. TaskIsNow(SyncOne(u, now, FALSE), now) /\ TaskIsNow(UpdateNext(now + 1), now)
      BY DEF TaskIsNow, SyncOne, UpdateNext
    <3> QED  BY <3>1 DEF CarrierTasks
  <2>3. ~AlarmIsDue /\ UNCHANGED postponed  BY <1>7 DEF CarrierConfigChanged, AlarmIsDue
  <2>4. \A v \in Subs : SyncIsDue(v) => SyncIsDue(v)'
    BY <1>1, <2>1, <2>3, SyncIsKept DEF SyncIsDue
  <2> QED  BY <1>3, <1>4, <1>5, <2>1, <2>2, <2>4 DEF SyncedOrDue
<1>8. ASSUME NEW task \in postponed, CallEndPoll(task)
      PROVE  TasksAreNow' /\ SyncedOrDue'
  <2>1. Gained({task})  BY <1>1, <1>8, CallEndGains
  <2>2. TaskIsNow(task, now)  BY DEF FollowInv, TasksAreNow
  <2>3. ~AlarmIsDue /\ postponed' = postponed \ {task}  BY <1>8 DEF CallEndPoll, AlarmIsDue
  <2>4. ASSUME NEW v \in Subs, SyncIsDue(v)  PROVE SyncIsDue(v)'
    <3>1. CASE \E i \in 1..Len(queue) : Syncs(i, v)
      BY <1>1, <2>1, <3>1, SyncIsKept DEF SyncIsDue
    <3>2. CASE \E p \in postponed : p.kind = "sync" /\ p.sub = v
      <4>1. PICK p \in postponed : p.kind = "sync" /\ p.sub = v  BY <3>2
      <4>2. CASE p # task  BY <2>3, <4>1, <4>2 DEF SyncIsDue
      <4>3. CASE p = task
        <5>1. PICK i \in 1..Len(queue') : queue'[i] = task  BY <2>1 DEF Gained
        <5>2. Syncs(i, v)'  BY <4>1, <4>3, <5>1 DEF Syncs
        <5> QED  BY <5>1, <5>2 DEF SyncIsDue
      <4> QED  BY <4>2, <4>3
    <3> QED  BY <2>3, <2>4, <3>1, <3>2 DEF SyncIsDue
  <2> QED  BY <1>3, <1>4, <1>5, <2>1, <2>2, <2>4 DEF SyncedOrDue
<1> QED  BY <1>2, <1>6, <1>7, <1>8

(* What is known when the user or a call interferes. *)
LEMMA EventFacts ==
    ASSUME Followable, FollowInv, Event
    PROVE  /\ on /\ chosen = Nothing /\ ~Due /\ ~AlarmIsDue
           /\ \A u \in Subs : Synced(u) \/ SyncIsDue(u)
BY DEF Followable, FollowInv, Event, Idle, AlarmIsDue, SyncedOrDue

LEMMA SwitchFollows ==
    ASSUME Followable, FollowInv, NEW u \in Subs, UserSwitches(u)
    PROVE  (TasksAreNow /\ WantsAreFollowed /\ ChosenIsWanted /\ SyncedOrDue)'
<1>1. /\ ShapeInv /\ TypeOK /\ subs \in [Subs -> SubRecord] /\ want \in [Subs -> Wants]
      /\ subs[u].enabled \in BOOLEAN
  BY SubFacts DEF FollowInv, ShapeInv, TypeOK, SubRecord, Wants
<1>2. PICK enabled \in BOOLEAN : enabled <=> ~subs[u].enabled  BY <1>1
<1>3. /\ subs' = [subs EXCEPT ![u] = SetState(subs[u], enabled, subs[u].enabled)]
      /\ want' = [want EXCEPT ![u] = IF subs[u].enabled THEN "kept" ELSE "on"]
      /\ UNCHANGED <<now, on, schedules, queue, at, chosen, inCall, postponed>>
  <2>1. enabled = ~subs[u].enabled  BY <1>1, <1>2
  <2>2. subs' = [subs EXCEPT ![u] = SetState(subs[u], ~subs[u].enabled, subs[u].enabled)]
    BY <1>1, SwitchShape
  <2> QED  BY <2>1, <2>2 DEF UserSwitches
<1>4. on /\ chosen = Nothing /\ ~AlarmIsDue /\ \A v \in Subs : Synced(v) \/ SyncIsDue(v)
  BY EventFacts DEF UserSwitches
<1> DEFINE after == SetState(subs[u], enabled, subs[u].enabled)
           chooses == IF subs[u].enabled THEN "kept" ELSE "on"
<1>5. /\ Follows(after, chooses, Start(schedules, u, now), End(schedules, u, now), now)
      /\ after.enabled = enabled
  <2>1. Follows(subs[u], want[u], Start(schedules, u, now), End(schedules, u, now), now)
    BY DEF FollowInv, WantsAreFollowed
  <2> QED  BY <1>1, <1>2, <2>1, SubFacts, FollowsWhenSwitched
<1>6. /\ subs'[u] = after /\ want'[u] = chooses
      /\ \A v \in Subs : v # u => subs'[v] = subs[v] /\ want'[v] = want[v]
  BY <1>1, <1>3
<1>7. enabled <=> chooses = "on"  BY <1>1, <1>2
<1> HIDE DEF after, chooses
<1>8. WantsAreFollowed'
  <2>1. ASSUME NEW v \in Subs
        PROVE  Follows(subs'[v], want'[v], Start(schedules, v, now), End(schedules, v, now), now)
    BY <1>5, <1>6 DEF FollowInv, WantsAreFollowed
  <2> QED  BY <1>3, <2>1 DEF WantsAreFollowed
<1>9. SyncedOrDue'
  <2>1. Synced(u)'  BY <1>5, <1>6, <1>7 DEF Synced
  <2>2. ASSUME NEW v \in Subs, v # u  PROVE Synced(v)' \/ SyncIsDue(v)'
    <3>1. Synced(v) => Synced(v)'  BY <1>6, <2>2 DEF Synced
    <3>2. SyncIsDue(v) => SyncIsDue(v)'  BY <1>3, <1>4 DEF SyncIsDue, Syncs
    <3> QED  BY <1>4, <3>1, <3>2
  <2> QED  BY <2>1, <2>2 DEF SyncedOrDue
<1>10. TasksAreNow' /\ ChosenIsWanted'
  BY <1>3, <1>4 DEF FollowInv, TasksAreNow, ChosenIsWanted, Nothing
<1> QED  BY <1>8, <1>9, <1>10

(* The occurrences of a subscription are those of its own rows.            *)
LEMMA EditIsOwn ==
    ASSUME ShapeInv, NEW row \in Rows, NEW table \in {schedules \union {row}, schedules \ {row}},
           NEW v, v # row.sub
    PROVE  \A t : Start(table, v, t) = Start(schedules, v, t) /\ End(table, v, t) = End(schedules, v, t)
<1>1. ASSUME NEW e  PROVE ActiveRows(table, v, e) = ActiveRows(schedules, v, e)
  BY DEF ActiveRows
<1>2. ASSUME NEW e  PROVE \A t : NearestBefore(table, v, e, t) = NearestBefore(schedules, v, e, t)
  BY <1>1, OnlyOwnRows
<1> QED  BY <1>2 DEF Start, End

LEMMA EditFollows ==
    ASSUME Followable, FollowInv, NEW row \in Rows, NEW table \in SUBSET Rows,
           table \in {schedules \union {row}, schedules \ {row}}, Edit(table, row.sub),
           row.sub \in Subs
    PROVE  (TasksAreNow /\ WantsAreFollowed /\ ChosenIsWanted /\ SyncedOrDue)'
<1>1. /\ ShapeInv /\ TypeOK /\ subs \in [Subs -> SubRecord] /\ want \in [Subs -> Wants]
      /\ now \in Nat /\ Week <= now /\ Repeating(table)
  BY NowIsNat, Constants DEF FollowInv, ShapeInv, TypeOK, SubRecord, Wants
<1>2. PICK u \in Subs : u = row.sub  OBVIOUS
<1>3. PICK override : override = TRUE  OBVIOUS
<1>4. PICK keep : keep = FALSE  OBVIOUS
<1> DEFINE expected == Expected(table, u, now, override)
           latest == StateAfter(Start(table, u, now), End(table, u, now), subs[u].enabled)
           v == IF latest THEN "on" ELSE Off(want[u])
           after == IF subs[u].enabled # expected THEN SetState(subs[u], expected, keep) ELSE subs[u]
<1>5. expected \in BOOLEAN  BY <1>1, ExpectedIsBoolean
<1>6. ~Legacy /\ ~inCall /\ Event
  <2>1. UserEdits /\ Event  BY <1>1, EditShape
  <2>2. PhoneCalls = "never" /\ ~Legacy  BY <2>1 DEF Followable
  <2> QED  BY <2>1, <2>2 DEF FollowInv, TasksAreNow
<1>7. /\ IF subs[u].enabled # expected /\ ~MustPostpone(expected)
         THEN subs' = [subs EXCEPT ![u] = SetState(subs[u], expected, keep)]
         ELSE subs' = subs
      /\ IF subs[u].enabled # expected /\ MustPostpone(expected) THEN Postpone(u, now, override)
         ELSE UNCHANGED postponed
  BY <1>1, <1>2, <1>3, <1>4, EditShape
<1>8. /\ schedules' = table /\ UNCHANGED <<now, on, queue, at, chosen, inCall>>
      /\ want' = [want EXCEPT ![u] = Latest(table, u, now, want[u], subs[u].enabled)]
  BY <1>1, <1>2, EditShape
<1>9. Latest(table, u, now, want[u], subs[u].enabled) = v  BY DEF Latest, StateAfter
<1>10. ~MustPostpone(expected)  BY <1>6 DEF MustPostpone
<1>11. UNCHANGED postponed  BY <1>7, <1>10
<1>12. Follows(after, v, Start(table, u, now), End(table, u, now), now) /\ (after.enabled <=> v = "on")
  <2>1. RecordIsTrue(subs[u], want[u], TRUE, now)
    <3>1. RecordIsTrue(subs[u], want[u], End(schedules, u, now) # {}, now)
      BY DEF FollowInv, WantsAreFollowed, Follows
    <3> QED  BY <3>1 DEF RecordIsTrue
  <2>2. subs[u] \in SubRecord /\ want[u] \in Wants  BY <1>1
  <2>3. NearestPast(Start(table, u, now), now) /\ NearestPast(End(table, u, now), now)
    BY <1>1, StartAndEndArePast
  <2>4. expected <=> getSubscriptionExpectedEnabledState(subs[u], Start(table, u, now),
                                                         End(table, u, now), override)
    BY DEF Expected
  <2>5. PICK sub \in SubRecord, w \in Wants, start \in SUBSET Int, end \in SUBSET Int :
           /\ sub = subs[u] /\ w = want[u]
           /\ start = Start(table, u, now) /\ end = End(table, u, now)
    <3>1. Start(table, u, now) \in SUBSET Int /\ End(table, u, now) \in SUBSET Int
      BY <2>3 DEF NearestPast
    <3> QED  BY <2>2, <3>1
  <2> HIDE DEF expected, latest
  <2>6. PICK b \in BOOLEAN : b = expected  BY <1>5
  <2>7. override  BY <1>3
  <2>8. RecordIsTrue(sub, w, TRUE, now) /\ NearestPast(start, now) /\ NearestPast(end, now)
    BY <2>1, <2>3, <2>5
  <2>9. b <=> getSubscriptionExpectedEnabledState(sub, start, end, override)
    BY <2>4, <2>5, <2>6
  <2>10. getSubscriptionExpectedEnabledState(sub, start, end, override)
            <=> StateAfter(start, end, sub.enabled)
    BY <1>6, <2>7, <2>8, EditOverrides
  <2>11. b <=> latest  BY <2>5, <2>9, <2>10 DEF latest
  <2>12. PICK x : x = v  OBVIOUS
  <2>13. b <=> x = "on"  BY <2>11, <2>12 DEF Off
  <2>14. /\ sub.enabled = b => Follows(sub, x, start, end, now)
         /\ sub.enabled # b => /\ Follows(SetState(sub, b, keep), x, start, end, now)
                               /\ SetState(sub, b, keep).enabled = b
    <3>1. b <=> StateAfter(start, end, sub.enabled)  BY <2>9, <2>10
    <3> QED  BY <1>1, <1>6, <2>8, <2>13, <3>1, FollowsWhenEdited
  <2>15. after = IF sub.enabled # b THEN SetState(sub, b, keep) ELSE sub  BY <2>5, <2>6
  <2> HIDE DEF after, v
  <2>16. Follows(after, x, start, end, now) /\ after.enabled = b
    <3>1. CASE sub.enabled = b  BY <2>14, <2>15, <3>1
    <3>2. CASE sub.enabled # b  BY <2>14, <2>15, <3>2
    <3> QED  BY <3>1, <3>2
  <2>17. Follows(after, v, Start(table, u, now), End(table, u, now), now)
    BY <2>5, <2>12, <2>16
  <2> QED  BY <2>12, <2>13, <2>16, <2>17
<1>13. /\ subs'[u] = after /\ want'[u] = v
       /\ \A w \in Subs : w # u => subs'[w] = subs[w] /\ want'[w] = want[w]
  <2> HIDE DEF expected, latest
  <2> QED  BY <1>1, <1>7, <1>8, <1>9, <1>10
<1> HIDE DEF after, v
<1>14. WantsAreFollowed'
  <2>1. ASSUME NEW w \in Subs
        PROVE  Follows(subs'[w], want'[w], Start(table, w, now), End(table, w, now), now)
    <3>1. CASE w = u  BY <1>12, <1>13, <3>1
    <3>2. CASE w # u
      <4>1. Start(table, w, now) = Start(schedules, w, now) /\ End(table, w, now) = End(schedules, w, now)
        BY <1>1, <1>2, <3>2, EditIsOwn
      <4> QED  BY <1>13, <3>2, <4>1 DEF FollowInv, WantsAreFollowed
    <3> QED  BY <3>1, <3>2
  <2> QED  BY <1>8, <2>1 DEF WantsAreFollowed
<1>15. on /\ chosen = Nothing /\ ~AlarmIsDue /\ \A w \in Subs : Synced(w) \/ SyncIsDue(w)
  BY <1>6, EventFacts
<1>16. SyncedOrDue'
  <2>1. Synced(u)'  BY <1>12, <1>13 DEF Synced
  <2>2. ASSUME NEW w \in Subs, w # u  PROVE Synced(w)' \/ SyncIsDue(w)'
    <3>1. Synced(w) => Synced(w)'  BY <1>13, <2>2 DEF Synced
    <3>2. SyncIsDue(w) => SyncIsDue(w)'  BY <1>8, <1>11, <1>15 DEF SyncIsDue, Syncs
    <3> QED  BY <1>15, <3>1, <3>2
  <2> QED  BY <2>1, <2>2 DEF SyncedOrDue
<1>17. TasksAreNow' /\ ChosenIsWanted'
  BY <1>8, <1>11, <1>15 DEF FollowInv, TasksAreNow, ChosenIsWanted, Nothing
<1> QED  BY <1>14, <1>16, <1>17

(* The start and the end known a minute later. *)
LEMMA StartAndEndLater ==
    ASSUME ShapeInv, NEW u \in Subs, NEW later, later = now + 1
    PROVE  /\ Start(schedules, u, later) = IF Happens(u, TRUE, later) THEN {later}
                                           ELSE Start(schedules, u, now)
           /\ End(schedules, u, later) = IF Happens(u, FALSE, later) THEN {later}
                                         ELSE End(schedules, u, now)
<1>1. now \in Int /\ later \in Int /\ Repeating(schedules)  BY NowIsNat DEF ShapeInv
<1>2. ASSUME NEW e
      PROVE  NearestBefore(schedules, u, e, later) =
                IF Happens(u, e, later) THEN {later} ELSE NearestBefore(schedules, u, e, now)
  <2>1. later \in NearestBefore(schedules, u, e, later) <=> Happening(schedules, u, e, later)
    BY <1>1, BeforeFacts
  <2>2. NearestBefore(schedules, u, e, later) =
           IF Happening(schedules, u, e, later) THEN {later}
           ELSE NearestBefore(schedules, u, e, now)
    BY <1>1, BeforeLater
  <2> QED  BY <2>1, <2>2 DEF Happens
<1> QED  BY <1>2 DEF Start, End

(* The alarm rings for an occurrence that inverts a subscription.          *)
LEMMA AlarmIsDueThen ==
    ASSUME ShapeInv, AlarmIsKept, Quiet, ~inCall, NEW later, later = now + 1,
           NEW u \in Subs, NEW e, e <=> ~subs[u].enabled, e \in BOOLEAN, Happens(u, e, later)
    PROVE  alarm # NoAlarm /\ alarm <= later
<1>1. later \in Int /\ Repeating(schedules) /\ subs[u].enabled \in BOOLEAN
  BY NowIsNat, SubFacts DEF ShapeInv
<1>2. Covers(alarm)
  <2>1. on /\ queue = <<>> /\ carrier = {}  BY DEF Quiet
  <2>2. ~UpdateIsQueued(1)  BY <2>1 DEF UpdateIsQueued
  <2> QED  BY <2>1, <2>2 DEF AlarmIsKept
<1>3. e = ~subs[u].enabled  BY <1>1
<1>4. later \in NearestAfter(schedules, u, e, later)
  <2>1. Happening(schedules, u, e, later)  BY <1>1, BeforeFacts DEF Happens
  <2> QED  BY <1>1, <2>1, AfterFacts
<1> QED  BY <1>2, <1>3, <1>4 DEF Covers, CoversAll

LEMMA TickFollows ==
    ASSUME Followable, FollowInv, Tick
    PROVE  (TasksAreNow /\ WantsAreFollowed /\ ChosenIsWanted /\ SyncedOrDue)'
<1>1. /\ ShapeInv /\ now \in Nat /\ now + 1 \in Nat
      /\ ~inCall /\ (on => Quiet) /\ (~on => ~Legacy)
  BY NowIsNat, NoCallsForLong DEF FollowInv, ShapeInv
<1>2. PICK later \in Nat : later = now + 1  BY <1>1
<1>3. /\ now' = later
      /\ UNCHANGED <<on, schedules, subs, alarm, queue, at, chosen, carrier, inCall, postponed>>
      /\ want' = [u \in Subs |-> IF Happens(u, FALSE, later) THEN Off(want[u])
                                 ELSE IF Happens(u, TRUE, later) THEN "on" ELSE want[u]]
  BY <1>2 DEF Tick
<1>4. queue = <<>> /\ postponed = {} /\ chosen = Nothing /\ carrier = {}
  BY <1>1 DEF Quiet, ShapeInv, OffIsEmpty
<1>5. on => \A u \in Subs : Synced(u)  BY <1>1, QuietIsSynced DEF FollowInv
<1>6. TasksAreNow'
  <2>1. 1..Len(queue') = {}  BY <1>3, <1>4
  <2> QED  BY <1>1, <1>3, <1>4, <2>1 DEF TasksAreNow
<1>7. ChosenIsWanted'  BY <1>3, <1>4 DEF ChosenIsWanted, Nothing
<1>8. WantsAreFollowed'
  <2>1. ASSUME NEW u \in Subs
        PROVE  Follows(subs[u], want'[u], Start(schedules, u, later), End(schedules, u, later), later)
    <3>1. PICK begins \in BOOLEAN : begins <=> Happens(u, TRUE, later)
      <4>1. CASE Happens(u, TRUE, later)  BY <4>1
      <4>2. CASE ~Happens(u, TRUE, later)  BY <4>2
      <4> QED  BY <4>1, <4>2
    <3>2. PICK ends \in BOOLEAN : ends <=> Happens(u, FALSE, later)
      <4>1. CASE Happens(u, FALSE, later)  BY <4>1
      <4>2. CASE ~Happens(u, FALSE, later)  BY <4>2
      <4> QED  BY <4>1, <4>2
    <3>3. PICK sub \in SubRecord, w \in Wants, start \in SUBSET Int, end \in SUBSET Int :
             /\ sub = subs[u] /\ w = want[u]
             /\ start = Start(schedules, u, now) /\ end = End(schedules, u, now)
      BY <1>1, SubFacts
    <3>4. PICK v : v = IF ends THEN Off(w) ELSE IF begins THEN "on" ELSE w  OBVIOUS
    <3>5. want'[u] = v  BY <1>3, <3>1, <3>2, <3>3, <3>4
    <3>6. NearestPast(start, now) /\ NearestPast(end, now)  BY <1>1, <3>3, SubFacts
    <3>7. Follows(sub, w, start, end, now)  BY <3>3 DEF FollowInv, WantsAreFollowed
    <3>8. Legacy => (sub.enabled <=> w = "on")  BY <1>1, <1>5, <3>3 DEF Synced
    <3>9. Follows(sub, v, IF begins THEN {later} ELSE start, IF ends THEN {later} ELSE end, later)
      BY <1>1, <1>2, <3>4, <3>6, <3>7, <3>8, FollowsLater
    <3>10. /\ Start(schedules, u, later) = IF begins THEN {later} ELSE start
           /\ End(schedules, u, later) = IF ends THEN {later} ELSE end
      BY <1>1, <1>2, <3>1, <3>2, <3>3, StartAndEndLater
    <3> QED  BY <3>3, <3>5, <3>9, <3>10
  <2> QED  BY <1>3, <2>1 DEF WantsAreFollowed
<1>9. SyncedOrDue'
  <2>1. CASE ~on  BY <1>1, <1>3, <2>1 DEF SyncedOrDue
  <2>2. ASSUME on, NEW u \in Subs, ~Synced(u)'  PROVE SyncIsDue(u)'
    <3>1. Synced(u) /\ subs[u].enabled \in BOOLEAN  BY <1>1, <1>5, <2>2, SubFacts
    <3>2. want'[u] = IF Happens(u, FALSE, later) THEN Off(want[u])
                     ELSE IF Happens(u, TRUE, later) THEN "on" ELSE want[u]
      BY <1>3
    <3>3. alarm # NoAlarm /\ alarm <= later
      <4>1. CASE Happens(u, FALSE, later)
        <5>1. want'[u] # "on"  BY <3>2, <4>1 DEF Off
        <5>2. subs[u].enabled  BY <1>3, <2>2, <5>1 DEF Synced
        <5>3. PICK e \in BOOLEAN : e = FALSE  OBVIOUS
        <5> QED  BY <1>1, <1>2, <2>2, <4>1, <5>2, <5>3, AlarmIsDueThen DEF FollowInv
      <4>2. CASE ~Happens(u, FALSE, later) /\ Happens(u, TRUE, later)
        <5>1. want'[u] = "on"  BY <3>2, <4>2
        <5>2. ~subs[u].enabled  BY <1>3, <2>2, <5>1 DEF Synced
        <5>3. PICK e \in BOOLEAN : e = TRUE  OBVIOUS
        <5> QED  BY <1>1, <1>2, <2>2, <4>2, <5>2, <5>3, AlarmIsDueThen DEF FollowInv
      <4>3. CASE ~Happens(u, FALSE, later) /\ ~Happens(u, TRUE, later)
        <5>1. want'[u] = want[u]  BY <3>2, <4>3
        <5> QED  BY <1>3, <2>2, <3>1, <5>1 DEF Synced
      <4> QED  BY <4>1, <4>2, <4>3
    <3>4. AlarmIsDue'  BY <1>3, <1>4, <2>2, <3>3 DEF AlarmIsDue, Due
    <3> QED  BY <3>4 DEF SyncIsDue
  <2> QED  BY <2>1, <2>2 DEF SyncedOrDue
<1> QED  BY <1>6, <1>7, <1>8, <1>9

LEMMA PowerOffFollows ==
    ASSUME Followable, FollowInv, PowerOff
    PROVE  (TasksAreNow /\ WantsAreFollowed /\ ChosenIsWanted /\ SyncedOrDue)'
<1>1. /\ ShapeInv /\ ~inCall /\ on' = FALSE /\ queue' = <<>> /\ chosen' = Nothing /\ postponed' = {}
      /\ UNCHANGED <<now, schedules, subs, inCall, want>>
  BY DEF PowerOff, FollowInv
<1>2. TasksAreNow'
  <2>1. 1..Len(queue') = {}  BY <1>1
  <2> QED  BY <1>1, <2>1 DEF TasksAreNow
<1>3. ChosenIsWanted'  BY <1>1 DEF ChosenIsWanted, Nothing
<1>4. WantsAreFollowed'  BY <1>1 DEF FollowInv, WantsAreFollowed
<1>5. SyncedOrDue'
  <2>1. CASE Legacy
    <3>1. {PowerCycles, PhoneCalls} \subseteq {"never", "briefly", "for long"}
      BY SchedulerAssumption
    <3>2. PowerCycles = "briefly"  BY <2>1, <3>1 DEF PowerOff, Followable
    <3>3. Quiet  BY <3>2 DEF PowerOff
    <3>4. \A u \in Subs : Synced(u)  BY <1>1, <3>3, QuietIsSynced DEF FollowInv
    <3>5. \A u \in Subs : Synced(u)'  BY <1>1, <3>4 DEF Synced
    <3> QED  BY <3>5 DEF SyncedOrDue
  <2>2. CASE ~Legacy  BY <1>1, <2>2 DEF SyncedOrDue
  <2> QED  BY <2>1, <2>2
<1> QED  BY <1>2, <1>3, <1>4, <1>5

LEMMA BootFollows ==
    ASSUME Followable, FollowInv, Boot
    PROVE  (TasksAreNow /\ WantsAreFollowed /\ ChosenIsWanted /\ SyncedOrDue)'
<1>1. /\ ShapeInv /\ ~on /\ on' = TRUE /\ now \in Nat
      /\ subs' = IF Legacy THEN [u \in Subs |-> [subs[u] EXCEPT !.enabled = TRUE]] ELSE subs
      /\ want' = [u \in Subs |->
                     IF /\ Legacy /\ want[u] = "off"
                        /\ Start(schedules, u, now) \union End(schedules, u, now) = {}
                     THEN "on" ELSE want[u]]
      /\ UNCHANGED <<now, schedules, at, chosen, inCall, postponed>>
  BY NowIsNat DEF Boot, FollowInv, ShapeInv
<1>2. queue = <<>> /\ Gained({SyncAll(now), UpdateNext(now + 1)})  BY <1>1, BootGains
<1>3. chosen = Nothing /\ postponed = {} /\ alarm = NoAlarm  BY <1>1 DEF ShapeInv, OffIsEmpty
<1>4. TasksAreNow'
  <2>1. TaskIsNow(SyncAll(now), now) /\ TaskIsNow(UpdateNext(now + 1), now)
    BY DEF TaskIsNow, SyncAll, UpdateNext
  <2>2. \A i \in 1..Len(queue') : TaskIsNow(queue'[i], now')
    <3>1. ASSUME NEW tasks, Gained(tasks), \A task \in tasks : TaskIsNow(task, now)
          PROVE  \A i \in 1..Len(queue') : TaskIsNow(queue'[i], now')
      BY <1>1, <3>1, TasksStayNow DEF FollowInv
    <3> QED  BY <1>2, <2>1, <3>1
  <2> QED  BY <1>1, <2>2 DEF FollowInv, TasksAreNow
<1>5. ChosenIsWanted'  BY <1>1, <1>3 DEF ChosenIsWanted, Nothing
<1>6. SyncedOrDue'
  <2>1. \A u \in Subs : SyncIsDue(u)'
    <3>1. ASSUME NEW tasks, Gained(tasks), NEW t, SyncAll(t) \in tasks
          PROVE  \A u \in Subs : SyncIsDue(u)'
      BY <1>1, <3>1, SyncAllJoins
    <3> QED  BY <1>2, <3>1
  <2> QED  BY <2>1 DEF SyncedOrDue
<1>7. WantsAreFollowed'
  <2>1. ASSUME NEW u \in Subs
        PROVE  Follows(subs'[u], want'[u], Start(schedules, u, now), End(schedules, u, now), now)
    <3>1. Follows(subs[u], want[u], Start(schedules, u, now), End(schedules, u, now), now)
      BY DEF FollowInv, WantsAreFollowed
    <3>2. CASE ~Legacy  BY <1>1, <3>1, <3>2
    <3>3. CASE Legacy
      <4>1. want[u] = "off" => End(schedules, u, now) # {}
        BY <3>1, <3>3 DEF Follows, RecordIsTrue
      <4>2. want'[u] = want[u]  BY <1>1, <4>1
      <4>3. Synced(u)
        <5>1. ~SyncIsDue(u)
          <6>1. 1..Len(queue) = {}  BY <1>2
          <6> QED  BY <1>1, <1>3, <6>1 DEF SyncIsDue, AlarmIsDue, Due
        <5> QED  BY <3>3, <5>1 DEF FollowInv, SyncedOrDue
      <4>4. PICK sub \in SubRecord, w \in Wants, start \in SUBSET Int, end \in SUBSET Int :
               /\ sub = subs[u] /\ w = want[u]
               /\ start = Start(schedules, u, now) /\ end = End(schedules, u, now)
        BY <1>1, SubFacts
      <4>5. Follows(sub, w, start, end, now) /\ NearestPast(start, now) /\ NearestPast(end, now)
            /\ (sub.enabled <=> w = "on")
        BY <1>1, <3>1, <4>3, <4>4, SubFacts DEF Synced
      <4>6. Follows([sub EXCEPT !.enabled = TRUE], w, start, end, now)
        BY <1>1, <3>3, <4>5, FollowsWhenPowered
      <4>7. subs'[u] = [sub EXCEPT !.enabled = TRUE]  BY <1>1, <3>3, <4>4
      <4> QED  BY <4>2, <4>4, <4>6, <4>7
    <3> QED  BY <3>2, <3>3
  <2> QED  BY <1>1, <2>1 DEF WantsAreFollowed
<1> QED  BY <1>4, <1>5, <1>6, <1>7

LEMMA CallFollows ==
    ASSUME Followable, FollowInv, CallStartsOrEnds
    PROVE  (TasksAreNow /\ WantsAreFollowed /\ ChosenIsWanted /\ SyncedOrDue)'
<1>1. /\ PhoneCalls # "never"
      /\ UNCHANGED <<now, on, schedules, subs, alarm, queue, at, chosen, carrier, postponed, want>>
  BY DEF CallStartsOrEnds
<1>2. on /\ chosen = Nothing /\ ~AlarmIsDue /\ \A u \in Subs : Synced(u) \/ SyncIsDue(u)
  BY EventFacts DEF CallStartsOrEnds
<1>3. \A u \in Subs : (Synced(u) => Synced(u)') /\ (SyncIsDue(u) => SyncIsDue(u)')
  BY <1>1, <1>2 DEF Synced, SyncIsDue, Syncs
<1>4. SyncedOrDue'  BY <1>2, <1>3 DEF SyncedOrDue
<1>5. TasksAreNow'  BY <1>1 DEF FollowInv, TasksAreNow
<1>6. WantsAreFollowed'  BY <1>1 DEF FollowInv, WantsAreFollowed
<1>7. ChosenIsWanted'  BY <1>1, <1>2 DEF ChosenIsWanted, Nothing
<1> QED  BY <1>4, <1>5, <1>6, <1>7

LEMMA FollowStep ==
    ASSUME Followable, FollowInv, [Next]_vars
    PROVE  FollowInv'
<1>1. ShapeInv' /\ AlarmIsKept'
  BY NextShape, AlarmIsKeptStep DEF FollowInv, Followable
<1> DEFINE Rest == TasksAreNow /\ WantsAreFollowed /\ ChosenIsWanted /\ SyncedOrDue
<1>2. ASSUME Decide \/ Apply \/ ComputeNext \/ SetAlarm  PROVE Rest'
  BY <1>2, DecideFollows, ApplyFollows, AlarmFollows
<1>3. ASSUME \/ AlarmRings
             \/ \E u \in Subs : CarrierConfigChanged(u)
             \/ \E task \in postponed : CallEndPoll(task)
      PROVE  Rest'
  BY <1>3, ReceiversFollow
<1>4. ASSUME NEW u \in Subs, UserSwitches(u)  PROVE Rest'
  BY <1>4, SwitchFollows
<1>5. ASSUME NEW row \in Rows, UserAdds(row) \/ UserDeletes(row)  PROVE Rest'
  <2>1. PICK table \in SUBSET Rows : /\ Edit(table, row.sub) /\ row.sub \in Subs
                                     /\ table \in {schedules \union {row}, schedules \ {row}}
    BY <1>5, UserEditsAreEdits DEF FollowInv
  <2> QED  BY <2>1, EditFollows
<1>6. ASSUME CallStartsOrEnds \/ Tick \/ PowerOff \/ Boot  PROVE Rest'
  BY <1>6, CallFollows, TickFollows, PowerOffFollows, BootFollows
<1>7. ASSUME UNCHANGED vars  PROVE Rest'
  <2>1. TasksAreNow' /\ WantsAreFollowed' /\ ChosenIsWanted'
    BY <1>7 DEF vars, FollowInv, TasksAreNow, WantsAreFollowed, ChosenIsWanted
  <2>2. SyncedOrDue'
    BY <1>7 DEF vars, FollowInv, SyncedOrDue, Synced, SyncIsDue, Syncs, AlarmIsDue, Due
  <2> QED  BY <2>1, <2>2
<1> HIDE DEF Rest
<1>8. Rest'
  BY <1>2, <1>3, <1>4, <1>5, <1>6, <1>7 DEF Next
<1> QED  BY <1>1, <1>8 DEF FollowInv, Rest

LEMMA FollowInit == Followable /\ Init => FollowInv
<1> SUFFICES ASSUME Followable, Init  PROVE FollowInv
  OBVIOUS
<1>1. ShapeInv /\ AlarmIsKept  BY InitShape, AlarmIsKeptInit
<1>2. /\ now \in Nat /\ at = 1 /\ chosen = Nothing /\ inCall = FALSE /\ postponed = {}
      /\ queue = <<SyncAll(now), UpdateNext(now + 1)>>
  BY <1>1, NowIsNat DEF Init, ShapeInv
<1>3. Len(queue) = 2 /\ queue[1] = SyncAll(now) /\ queue[2] = UpdateNext(now + 1)
  BY <1>2
<1>4. TasksAreNow
  <2>1. TaskIsNow(SyncAll(now), now) /\ TaskIsNow(UpdateNext(now + 1), now)
    BY DEF TaskIsNow, SyncAll, UpdateNext
  <2>2. \A i \in 1..2 : TaskIsNow(queue[i], now)  BY <1>3, <2>1
  <2> QED  BY <1>2, <1>3, <2>2 DEF TasksAreNow
<1>5. ChosenIsWanted  BY <1>2 DEF ChosenIsWanted, Nothing
<1>6. SyncedOrDue
  <2>1. ASSUME NEW u \in Subs  PROVE SyncIsDue(u)
    <3>1. queue[1].kind = "syncAll" /\ at <= u  BY <1>2, <1>3, Constants DEF SyncAll
    <3>2. Syncs(1, u) /\ 1 \in 1..Len(queue)  BY <1>3, <3>1 DEF Syncs
    <3> QED  BY <3>2 DEF SyncIsDue
  <2> QED  BY <2>1 DEF SyncedOrDue
<1>7. WantsAreFollowed
  <2>1. ASSUME NEW u \in Subs
        PROVE  Follows(subs[u], want[u], Start(schedules, u, now), End(schedules, u, now), now)
    <3>1. PICK sub \in SubRecord, start \in SUBSET Int, end \in SUBSET Int :
             /\ sub = subs[u]
             /\ start = Start(schedules, u, now) /\ end = End(schedules, u, now)
             /\ NearestPast(start, now) /\ NearestPast(end, now)
      BY <1>1, SubFacts
    <3>2. sub.enabled /\ ~sub.keep /\ sub.lastActivated = MIN /\ sub.lastDeactivated = MIN
      BY <3>1 DEF Init
    <3> DEFINE latest == IF start \union end = {} THEN TRUE
                         ELSE \E s \in start : \A e \in end : e < s
    <3>3. want[u] = IF latest THEN "on" ELSE "off"  BY <3>1 DEF Init, Latest, Off
    <3>4. PICK b \in BOOLEAN : b = latest  OBVIOUS
    <3>5. PICK v : v = want[u]  OBVIOUS
    <3>6. Follows(sub, v, start, end, now)
      BY <1>2, <3>1, <3>2, <3>3, <3>4, <3>5, FollowsAtFirst
    <3> QED  BY <3>1, <3>5, <3>6
  <2> QED  BY <2>1 DEF WantsAreFollowed
<1> QED  BY <1>1, <1>4, <1>5, <1>6, <1>7 DEF FollowInv

LEMMA FollowInvFollows == FollowInv => SchedulesAreFollowed
<1> SUFFICES ASSUME FollowInv, Settled, NEW u \in Subs
             PROVE  subs[u].enabled = (want[u] = "on")
  BY DEF SchedulesAreFollowed
<1>1. Synced(u) /\ subs[u].enabled \in BOOLEAN
  BY QuietIsSynced, SubFacts DEF FollowInv, Settled
<1> QED  BY <1>1 DEF Synced

(* "Sync the enabled state of all SIM subscriptions ... with their         *)
(* existing weekly repeat schedules": whenever nothing is left to do, each *)
(* subscription is in the state of the latest schedule, switch or edit,    *)
(* after a phone that was off, rebooted or in a call, for any number of    *)
(* subscriptions and any table.                                            *)
THEOREM SchedulesAlwaysFollowed ==
    ASSUME Followable  PROVE Spec => []SchedulesAreFollowed
<1>1. Init => FollowInv  BY FollowInit
<1>2. FollowInv /\ [Next]_vars => FollowInv'  BY FollowStep
<1>3. FollowInv => SchedulesAreFollowed  BY FollowInvFollows
<1> QED  BY <1>1, <1>2, <1>3, PTL DEF Spec
=============================================================================
