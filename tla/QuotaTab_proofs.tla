-------------------------- MODULE QuotaTab_proofs ---------------------------
(***************************************************************************)
(* Theorems about PlanQuota and about BrowserTab.  First the metered       *)
(* creations: their four invariants for every plan, calendar, set of       *)
(* requests and sequence of dates.                                         *)
(*                                                                         *)
(* A counter never passes its limit by more than the requests in flight,   *)
(* once per period of its key: each request that is past the check of a    *)
(* window, or was checked for another date, is due to that counter, and    *)
(* the count with what is due is below the limit plus the requests for     *)
(* every period of the key that has begun.  A check leaves that bound      *)
(* alone, since it finds the counter below its limit; a midnight may make  *)
(* every request due to a new key, but then begins a period of that key,   *)
(* because the dates of one period follow each other without a gap.        *)
(*                                                                         *)
(* The calendar is unrolled year by year; sums and sizes go by the         *)
(* inductions of Sums.                                                     *)
(*                                                                         *)
(* Then the browser tab: what its desks, forms and pages promise, for any  *)
(* number of requests in flight.  Each part has an invariant that says     *)
(* what a request on its way will do to what is on the screen by then.     *)
(***************************************************************************)
EXTENDS PlanQuota, BrowserTab, Sums

-----------------------------------------------------------------------------
(* The calendar. *)

\* The recursive definition of YearStart holds: a function that satisfies it exists.
LEMMA YearStartDef ==
    \A y \in FirstYear .. LastYear + 1 :
        YearStart[y] = IF y = FirstYear THEN 0
                       ELSE YearStart[y - 1] + IF IsLeap(y - 1) THEN 366 ELSE 365
<1> DEFINE Y == FirstYear .. LastYear + 1
           f == [y \in Y |-> 365 * (y - 2024) + (y - 2021) \div 4]
           b(y) == IF y = FirstYear THEN 0
                   ELSE f[y - 1] + IF IsLeap(y - 1) THEN 366 ELSE 365
<1>1. ASSUME NEW y \in Y PROVE f[y] = b(y)
  <2>1. CASE y = FirstYear
    BY <2>1 DEF FirstYear, LastYear
  <2>2. CASE y # FirstYear
    <3>1. y \in 2025 .. 2041
      BY <2>2 DEF FirstYear, LastYear
    <3>2. y - 1 \in Y /\ f[y - 1] = 365 * (y - 2025) + (y - 2022) \div 4
      BY <3>1 DEF FirstYear, LastYear
    <3>3. IsLeap(y - 1) <=> (y - 1) % 4 = 0
      BY <3>1 DEF IsLeap
    <3>4. (y - 2021) \div 4 = (y - 2022) \div 4 + (IF (y - 1) % 4 = 0 THEN 1 ELSE 0)
      BY <3>1
    <3> QED
      BY <2>2, <3>1, <3>2, <3>3, <3>4
  <2> QED
    BY <2>1, <2>2
<1>2. f = [y \in Y |-> f[y]]
  OBVIOUS
<1>3. f = [y \in Y |-> b(y)]
  <2> HIDE DEF f, b
  <2> QED
    BY <1>1, <1>2
<1>4. \E h : h = [y \in Y |-> IF y = FirstYear THEN 0
                             ELSE h[y - 1] + IF IsLeap(y - 1) THEN 366 ELSE 365]
  BY <1>3
<1> DEFINE g == [y \in Y |-> IF y = FirstYear THEN 0
                             ELSE YearStart[y - 1] + IF IsLeap(y - 1) THEN 366 ELSE 365]
<1>5. YearStart = g
  BY <1>4, Zenon DEF YearStart
<1>6. \A y \in Y : g[y] = IF y = FirstYear THEN 0
                         ELSE YearStart[y - 1] + IF IsLeap(y - 1) THEN 366 ELSE 365
  OBVIOUS
<1> HIDE DEF g
<1> QED
  BY <1>5, <1>6

\* The first dates of the years, one after the other.
LEMMA YearStarts ==
    /\ YearStart[2024] = 0    /\ YearStart[2025] = 366  /\ YearStart[2026] = 731
    /\ YearStart[2027] = 1096 /\ YearStart[2028] = 1461 /\ YearStart[2029] = 1827
    /\ YearStart[2030] = 2192 /\ YearStart[2031] = 2557 /\ YearStart[2032] = 2922
    /\ YearStart[2033] = 3288 /\ YearStart[2034] = 3653 /\ YearStart[2035] = 4018
    /\ YearStart[2036] = 4383 /\ YearStart[2037] = 4749 /\ YearStart[2038] = 5114
    /\ YearStart[2039] = 5479 /\ YearStart[2040] = 5844 /\ YearStart[2041] = 6210
<1>1. \A y \in 2024 .. 2041 :
        YearStart[y] = IF y = 2024 THEN 0
                       ELSE YearStart[y - 1] + IF (y - 1) % 4 = 0 THEN 366 ELSE 365
  <2>1. \A y \in 2024 .. 2041 : y # 2024 => (IsLeap(y - 1) <=> (y - 1) % 4 = 0)
    BY DEF IsLeap
  <2> QED
    BY <2>1, YearStartDef DEF FirstYear, LastYear
<1>2. /\ YearStart[2024] = 0    /\ YearStart[2025] = 366  /\ YearStart[2026] = 731
      /\ YearStart[2027] = 1096 /\ YearStart[2028] = 1461 /\ YearStart[2029] = 1827
  BY <1>1
<1>3. /\ YearStart[2030] = 2192 /\ YearStart[2031] = 2557 /\ YearStart[2032] = 2922
      /\ YearStart[2033] = 3288 /\ YearStart[2034] = 3653 /\ YearStart[2035] = 4018
  BY <1>1, <1>2
<1>4. /\ YearStart[2036] = 4383 /\ YearStart[2037] = 4749 /\ YearStart[2038] = 5114
      /\ YearStart[2039] = 5479 /\ YearStart[2040] = 5844 /\ YearStart[2041] = 6210
  BY <1>1, <1>3
<1> QED
  BY <1>2, <1>3, <1>4

\* Years follow each other, and each date before the end of the calendar is in one.
LEMMA YearOfFits ==
    ASSUME NEW d \in 0 .. YearStart[LastYear + 1] - 1
    PROVE  /\ YearOf(d) \in Years
           /\ YearStart[YearOf(d)] <= d /\ d < YearStart[YearOf(d) + 1]
<1>1. \E y \in Years : YearStart[y] <= d /\ d < YearStart[y + 1]
  BY YearStarts DEF Years, FirstYear, LastYear
<1> QED
  BY <1>1 DEF YearOf

\* The first of January in closed form, and what follows for two years.
LEMMA YearStartIs ==
    ASSUME NEW y \in 2024 .. 2041
    PROVE  YearStart[y] = 365 * (y - 2024) + (y - 2021) \div 4
<1>1. \/ y = 2024 \/ y = 2025 \/ y = 2026 \/ y = 2027 \/ y = 2028 \/ y = 2029
      \/ y = 2030 \/ y = 2031 \/ y = 2032 \/ y = 2033 \/ y = 2034 \/ y = 2035
      \/ y = 2036 \/ y = 2037 \/ y = 2038 \/ y = 2039 \/ y = 2040 \/ y = 2041
  OBVIOUS
<1> QED
  BY <1>1, YearStarts

\* The years of the calendar, and the years that follow them.
LEMMA YearsAre == /\ Years = 2024 .. 2040
                  /\ \A y \in Years : y \in 2024 .. 2041 /\ y + 1 \in 2024 .. 2041
  BY DEF Years, FirstYear, LastYear

\* Every year starts on a date.
LEMMA YearStartNat == \A y \in 2024 .. 2041 : YearStart[y] \in Nat
  BY YearStartIs

\* A later year starts at least 365 days later.
LEMMA YearStartGrows ==
    \A y, z \in 2024 .. 2041 : y < z => YearStart[y] + 365 <= YearStart[z]
  BY YearStartIs

\* A year has 365 or 366 days.
LEMMA YearLength == \A y \in Years : YearStart[y + 1] - YearStart[y] \in {365, 366}
  BY YearStartIs, YearsAre

\* What the rest needs to know of the year of a date.
LEMMA DateFacts ==
    \A d \in Calendar :
        /\ d \in Nat
        /\ YearOf(d) \in Years
        /\ YearStart[YearOf(d)] \in Nat /\ YearStart[YearOf(d) + 1] \in Nat
        /\ YearStart[YearOf(d)] <= d /\ d < YearStart[YearOf(d) + 1]
        /\ YearStart[YearOf(d) + 1] - YearStart[YearOf(d)] \in {365, 366}
<1> SUFFICES ASSUME NEW d \in Calendar
             PROVE  /\ d \in Nat
                    /\ YearOf(d) \in Years
                    /\ YearStart[YearOf(d)] \in Nat /\ YearStart[YearOf(d) + 1] \in Nat
                    /\ YearStart[YearOf(d)] <= d /\ d < YearStart[YearOf(d) + 1]
                    /\ YearStart[YearOf(d) + 1] - YearStart[YearOf(d)] \in {365, 366}
  OBVIOUS
<1>1. d \in 0 .. YearStart[LastYear + 1] - 1
  BY YearStarts DEF Calendar, LastYear
<1>2. /\ YearOf(d) \in Years
      /\ YearStart[YearOf(d)] <= d /\ d < YearStart[YearOf(d) + 1]
  BY <1>1, YearOfFits
<1>3. YearOf(d) \in 2024 .. 2041 /\ YearOf(d) + 1 \in 2024 .. 2041
  BY <1>2, YearsAre
<1> QED
  BY <1>1, <1>2, <1>3, YearStartNat, YearLength

\* A later date is in no earlier year.
LEMMA YearsInOrder ==
    \A d, e \in Calendar : d <= e => YearOf(d) <= YearOf(e)
<1> SUFFICES ASSUME NEW d \in Calendar, NEW e \in Calendar, d <= e, YearOf(e) < YearOf(d)
             PROVE  FALSE
  BY DateFacts, YearsAre
<1> DEFINE p == YearOf(e)
           q == YearOf(d)
<1>1. /\ d \in Nat /\ e \in Nat /\ p \in Years /\ q \in Years
      /\ YearStart[q] <= d /\ e < YearStart[p + 1]
      /\ YearStart[q] \in Nat /\ YearStart[p + 1] \in Nat
  BY DateFacts
<1>2. p \in 2024 .. 2041 /\ p + 1 \in 2024 .. 2041 /\ q \in 2024 .. 2041 /\ p < q
  BY <1>1, YearsAre
<1> HIDE DEF p, q
<1>3. YearStart[p + 1] <= YearStart[q]
  BY <1>1, <1>2, YearStartGrows
<1> QED
  BY <1>1, <1>3

\* The days of a year before each month.
LEMMA Months12 ==
    ASSUME NEW y \in Years
    PROVE  /\ \A m \in 1 .. 13 : DaysBefore(y)[m] \in Nat
           /\ \A m, n \in 1 .. 13 : m < n => DaysBefore(y)[m] < DaysBefore(y)[n]
           /\ DaysBefore(y)[1] = 0
           /\ DaysBefore(y)[13] = YearStart[y + 1] - YearStart[y]
<1>1. YearStart[y + 1] - YearStart[y] = IF IsLeap(y) THEN 366 ELSE 365
  <2>1. y \in 2024 .. 2041 /\ y + 1 \in 2024 .. 2041 /\ YearStart[y] \in Nat
    BY YearsAre, YearStartNat
  <2>2. YearStart[y + 1] = YearStart[(y + 1) - 1] + IF IsLeap((y + 1) - 1) THEN 366 ELSE 365
    BY <2>1, YearStartDef DEF FirstYear, LastYear
  <2>3. (y + 1) - 1 = y
    BY <2>1
  <2> QED
    BY <2>1, <2>2, <2>3
<1>2. CASE IsLeap(y)
  BY <1>1, <1>2 DEF DaysBefore
<1>3. CASE ~ IsLeap(y)
  BY <1>1, <1>3 DEF DaysBefore
<1> QED
  BY <1>2, <1>3

\* Each date is in the month that MonthOf chooses.
LEMMA MonthOfFits ==
    ASSUME NEW d \in Calendar
    PROVE  /\ MonthOf(d) \in 1 .. 12
           /\ DaysBefore(YearOf(d))[MonthOf(d)] <= d - YearStart[YearOf(d)]
           /\ d - YearStart[YearOf(d)] < DaysBefore(YearOf(d))[MonthOf(d) + 1]
<1> DEFINE y == YearOf(d)
           x == d - YearStart[y]
<1>1. y \in Years /\ x \in Nat /\ x < YearStart[y + 1] - YearStart[y]
  BY DateFacts
<1>2. \E m \in 1 .. 12 : DaysBefore(y)[m] <= x /\ x < DaysBefore(y)[m + 1]
  <2> HIDE DEF y, x
  <2>1. x < DaysBefore(y)[13] /\ 0 <= x /\ DaysBefore(y)[1] = 0
    BY <1>1, Months12
  <2>2. \A m \in 1 .. 13 : DaysBefore(y)[m] \in Nat
    BY <1>1, Months12
  <2> QED
    BY <1>1, <2>1, <2>2
<1> QED
  BY <1>2 DEF MonthOf

\* Within a year a later date is in no earlier month.
LEMMA MonthsInOrder ==
    ASSUME NEW d \in Calendar, NEW e \in Calendar, d <= e, YearOf(d) = YearOf(e)
    PROVE  MonthOf(d) <= MonthOf(e)
<1> DEFINE y == YearOf(d)
<1>1. CASE MonthOf(e) < MonthOf(d)
  <2>1. MonthOf(e) + 1 <= MonthOf(d) /\ MonthOf(e) + 1 \in 1 .. 13 /\ MonthOf(d) \in 1 .. 13
    BY <1>1, MonthOfFits
  <2>2. y \in Years
    BY DateFacts
  <2>3. DaysBefore(y)[MonthOf(e) + 1] <= DaysBefore(y)[MonthOf(d)]
    BY <2>1, <2>2, Months12
  <2>4. /\ DaysBefore(y)[MonthOf(e) + 1] \in Nat /\ DaysBefore(y)[MonthOf(d)] \in Nat
        /\ YearStart[y] \in Nat /\ d \in Nat /\ e \in Nat
    BY <2>1, <2>2, Months12, DateFacts
  <2>5. /\ DaysBefore(y)[MonthOf(d)] <= d - YearStart[y]
        /\ e - YearStart[y] < DaysBefore(y)[MonthOf(e) + 1]
    BY MonthOfFits
  <2> QED
    BY <2>3, <2>4, <2>5
<1> QED
  BY <1>1, MonthOfFits

\* A week starts at most six days before each of its dates.
LEMMA WeekFits ==
    \A d \in Calendar : /\ WeekStart(d) \in Nat /\ WeekStart(d) % 7 = 0
                        /\ WeekStart(d) <= d /\ d <= WeekStart(d) + 6
  BY DateFacts DEF WeekStart

\* A later date is in no earlier week.
LEMMA WeeksInOrder == \A d, e \in Calendar : d <= e => WeekStart(d) <= WeekStart(e)
  BY DateFacts DEF WeekStart

\* The Thursday of a week, its year, and the number of the week in that year.
LEMMA ThursdayFacts ==
    \A d \in Calendar :
        LET t == WeekStart(d) + 3
            y == YearOf(t)
        IN  /\ y \in Years
            /\ YearStart[y] \in Nat /\ YearStart[y] <= t /\ t < YearStart[y + 1]
            /\ YearStart[y + 1] - YearStart[y] \in {365, 366}
            /\ ISOWeek(d) = 1 + (t - YearStart[y]) \div 7
            /\ ISOWeek(d) \in 1 .. 53
<1> SUFFICES ASSUME NEW d \in Calendar
             PROVE  LET t == WeekStart(d) + 3
                        y == YearOf(t)
                    IN  /\ y \in Years
                        /\ YearStart[y] \in Nat /\ YearStart[y] <= t /\ t < YearStart[y + 1]
                        /\ YearStart[y + 1] - YearStart[y] \in {365, 366}
                        /\ ISOWeek(d) = 1 + (t - YearStart[y]) \div 7
                        /\ ISOWeek(d) \in 1 .. 53
  OBVIOUS
<1> DEFINE t == WeekStart(d) + 3
           y == YearOf(t)
<1>1. t \in 0 .. YearStart[LastYear + 1] - 1
  BY WeekFits, DateFacts, YearStarts DEF Calendar, LastYear
<1>2. y \in Years /\ YearStart[y] <= t /\ t < YearStart[y + 1]
  BY <1>1, YearOfFits
<1>3. y \in 2024 .. 2041 /\ y + 1 \in 2024 .. 2041
  BY <1>2, YearsAre
<1>4. /\ YearStart[y] \in Nat /\ YearStart[y + 1] \in Nat
      /\ YearStart[y + 1] - YearStart[y] \in {365, 366}
  BY <1>2, <1>3, YearStartNat, YearLength
<1>5. ISOWeek(d) = 1 + (t - YearStart[y]) \div 7
  BY DEF ISOWeek
<1>6. t \in Nat
  BY <1>1
<1>7. (t - YearStart[y]) \div 7 \in 0 .. 52
  <2> HIDE DEF t, y
  <2> QED
    BY <1>2, <1>4, <1>6
<1> QED
  BY <1>2, <1>4, <1>5, <1>7

\* Two dates of one year, both in its first or both in its last half, whose weeks have
\* one number: the Thursdays of these weeks are in one year.
LEMMA ThursdaysOfOneYear ==
    ASSUME NEW d \in Calendar, NEW e \in Calendar,
           YearOf(d) = YearOf(e), ISOWeek(d) = ISOWeek(e),
           d - YearStart[YearOf(d)] < 180 <=> e - YearStart[YearOf(e)] < 180
    PROVE  ~ YearOf(WeekStart(d) + 3) < YearOf(WeekStart(e) + 3)
<1> DEFINE y == YearOf(d)
           s == YearStart[y]
           n == YearStart[y + 1]
           t == WeekStart(d) + 3
           u == WeekStart(e) + 3
           yt == YearOf(t)
           yu == YearOf(u)
           st == YearStart[yt]
           su == YearStart[yu]
<1>1. /\ y \in 2024 .. 2040 /\ yt \in 2024 .. 2040 /\ yu \in 2024 .. 2040
      /\ s \in Nat /\ n \in Nat /\ n - s \in {365, 366}
      /\ d \in Nat /\ s <= d /\ d < n
      /\ e \in Nat /\ s <= e /\ e < n
  BY DateFacts, ThursdayFacts, YearsAre
<1>2. /\ t \in Nat /\ d - 3 <= t /\ t <= d + 3
      /\ u \in Nat /\ e - 3 <= u /\ u <= e + 3
  BY DateFacts DEF WeekStart
<1>3. /\ st \in Nat /\ st <= t /\ t < YearStart[yt + 1]
      /\ YearStart[yt + 1] - st \in {365, 366}
      /\ su \in Nat /\ su <= u
      /\ (t - st) \div 7 = (u - su) \div 7
  <2>1. /\ 1 + (t - st) \div 7 = 1 + (u - su) \div 7
        /\ st \in Nat /\ st <= t /\ t < YearStart[yt + 1]
        /\ YearStart[yt + 1] - st \in {365, 366}
        /\ su \in Nat /\ su <= u
    BY ThursdayFacts
  <2> HIDE DEF st, su, t, u
  <2> QED
    BY <1>2, <2>1
<1>4. /\ \A a, b \in 2024 .. 2041 : a < b => YearStart[a] + 365 <= YearStart[b]
      /\ yt + 1 \in 2024 .. 2041 /\ YearStart[yt + 1] \in Nat
      /\ y + 1 \in 2024 .. 2041
  BY <1>1, YearStartGrows, YearStartNat
<1>5. d - s < 180 <=> e - s < 180
  OBVIOUS
<1> HIDE DEF y, s, n, t, u, yt, yu, st, su
<1> SUFFICES ASSUME yt < yu PROVE FALSE
  BY DEF yt, yu, t, u
<1>6. CASE yt < y
  <2>1. YearStart[yt + 1] = s
    BY <1>1, <1>2, <1>3, <1>4, <1>6 DEF s
  <2>2. d < s + 3 /\ t - st >= 357
    BY <1>1, <1>2, <1>3, <2>1
  <2>3. (u - su) \div 7 >= 51
    BY <1>2, <1>3, <2>2
  <2>4. u >= su + 357
    BY <1>2, <1>3, <2>3
  <2>5. su >= s
    BY <1>1, <1>3, <1>4, <1>6, <2>1 DEF s, su
  <2> QED
    BY <1>1, <1>2, <1>3, <1>5, <2>2, <2>4, <2>5
<1>7. CASE yt >= y
  <2>1. su >= n
    BY <1>1, <1>3, <1>4, <1>7 DEF n, su
  <2>2. e >= n - 3 /\ u - su < 7
    BY <1>1, <1>2, <1>3, <2>1
  <2>3. yt = y
    BY <1>1, <1>2, <1>3, <1>4, <1>7, <2>1 DEF n, su
  <2>4. st = s /\ t < s + 7
    BY <1>1, <1>2, <1>3, <2>2, <2>3 DEF s, st
  <2> QED
    BY <1>1, <1>2, <1>5, <2>2, <2>4
<1> QED
  BY <1>1, <1>6, <1>7

\* Weeks of one number whose Thursdays are in one year are one week.
LEMMA OneNumber ==
    ASSUME NEW d \in Calendar, NEW e \in Calendar,
           ISOWeek(d) = ISOWeek(e),
           YearOf(WeekStart(d) + 3) = YearOf(WeekStart(e) + 3)
    PROVE  WeekStart(d) = WeekStart(e)
<1> DEFINE t == WeekStart(d) + 3
           u == WeekStart(e) + 3
           s == YearStart[YearOf(t)]
<1>1. /\ s \in Nat /\ s <= t /\ s <= u
      /\ 1 + (t - s) \div 7 = 1 + (u - s) \div 7
  BY ThursdayFacts
<1>2. /\ WeekStart(d) \in Nat /\ WeekStart(e) \in Nat
      /\ t \in Nat /\ t % 7 = 3 /\ u \in Nat /\ u % 7 = 3
  BY DateFacts DEF WeekStart
<1>3. t = u
  <2> HIDE DEF t, u, s
  <2>1. (t - s) \div 7 = (u - s) \div 7
    BY <1>1, <1>2
  <2>2. t - u < 7 /\ u - t < 7
    BY <1>1, <1>2, <2>1
  <2> QED
    BY <1>2, <2>2
<1> QED
  BY <1>2, <1>3

\* In either half of a year a week number stands for one week.
LEMMA OneWeek ==
    ASSUME NEW d \in Calendar, NEW e \in Calendar,
           YearOf(d) = YearOf(e), ISOWeek(d) = ISOWeek(e),
           d - YearStart[YearOf(d)] < 180 <=> e - YearStart[YearOf(e)] < 180
    PROVE  WeekStart(d) = WeekStart(e)
<1> DEFINE p == YearOf(WeekStart(d) + 3)
           q == YearOf(WeekStart(e) + 3)
<1>1. p \in 2024 .. 2040 /\ q \in 2024 .. 2040
  BY ThursdayFacts, YearsAre
<1>2. ~ p < q /\ ~ q < p
  BY ThursdaysOfOneYear
<1>3. p = q
  <2> HIDE DEF p, q
  <2> QED
    BY <1>1, <1>2
<1> QED
  BY <1>3, OneNumber

\* The week numbers a year has once only are those of one half of it.
LEMMA OrdinaryWeek ==
    ASSUME NEW d \in Calendar, NEW e \in Calendar,
           YearOf(d) = YearOf(e), ISOWeek(d) = ISOWeek(e),
           ISOWeek(d) \notin {1, 52, 53}
    PROVE  WeekStart(d) = WeekStart(e)
<1>1. ASSUME NEW x \in Calendar, ISOWeek(x) \notin {1, 52, 53}
      PROVE  YearOf(WeekStart(x) + 3) = YearOf(x)
  <2> DEFINE y == YearOf(x)
             s == YearStart[y]
             n == YearStart[y + 1]
             t == WeekStart(x) + 3
             yt == YearOf(t)
             st == YearStart[yt]
  <2>1. /\ y \in 2024 .. 2040 /\ yt \in 2024 .. 2040
        /\ s \in Nat /\ n \in Nat /\ x \in Nat /\ s <= x /\ x < n
    BY DateFacts, ThursdayFacts, YearsAre
  <2>2. t \in Nat /\ x - 3 <= t /\ t <= x + 3
    BY <2>1 DEF WeekStart
  <2>3. /\ st \in Nat /\ st <= t /\ t < YearStart[yt + 1]
        /\ YearStart[yt + 1] - st \in {365, 366}
        /\ ISOWeek(x) = 1 + (t - st) \div 7
    BY ThursdayFacts
  <2>4. /\ \A a, b \in 2024 .. 2041 : a < b => YearStart[a] + 365 <= YearStart[b]
        /\ yt + 1 \in 2024 .. 2041 /\ YearStart[yt + 1] \in Nat
        /\ y + 1 \in 2024 .. 2041
    BY <2>1, YearStartGrows, YearStartNat
  <2>5. (t - st) \div 7 \notin {0, 51, 52}
    <3> HIDE DEF t, st
    <3> QED
      BY <1>1, <2>2, <2>3
  <2> HIDE DEF y, s, n, t, yt, st
  <2>6. CASE yt < y
    <3>1. YearStart[yt + 1] = s
      BY <2>1, <2>2, <2>3, <2>4, <2>6 DEF s
    <3>2. t - st >= 357 /\ t - st < 371
      BY <2>1, <2>2, <2>3, <3>1
    <3> QED
      BY <2>2, <2>3, <2>5, <3>2
  <2>7. CASE yt > y
    <3>1. st >= n
      BY <2>1, <2>3, <2>4, <2>7 DEF n, st
    <3>2. t - st < 7
      BY <2>1, <2>2, <2>3, <3>1
    <3> QED
      BY <2>2, <2>3, <2>5, <3>2
  <2>8. CASE yt = y
    BY <2>8 DEF yt, y, t
  <2> QED
    BY <2>1, <2>6, <2>7, <2>8
<1>2. ISOWeek(e) \notin {1, 52, 53}
  OBVIOUS
<1> QED
  BY <1>1, <1>2, OneNumber

-----------------------------------------------------------------------------
\* Keys and first days are of the types the tables store.
LEMMA PeriodTypes ==
    \A period \in Period, d \in Calendar :
        PeriodKey(period, d) \in Seq(Nat) /\ PeriodStart(period, d) \in Nat
<1> SUFFICES ASSUME NEW d \in Calendar
             PROVE  \A period \in Period :
                        PeriodKey(period, d) \in Seq(Nat) /\ PeriodStart(period, d) \in Nat
  OBVIOUS
<1> DEFINE first == Date(YearOf(d), MonthOf(d), 1)
<1>1. YearOf(d) \in Nat /\ MonthOf(d) \in Nat /\ YearStart[YearOf(d)] \in Nat /\ d \in Nat
  BY DateFacts, YearsAre, MonthOfFits
<1>2. first \in Nat /\ d - first \in Nat
  <2>1. DaysBefore(YearOf(d))[MonthOf(d)] \in Nat
    BY DateFacts, MonthOfFits, Months12
  <2>2. DaysBefore(YearOf(d))[MonthOf(d)] <= d - YearStart[YearOf(d)]
    BY MonthOfFits
  <2>3. first = YearStart[YearOf(d)] + DaysBefore(YearOf(d))[MonthOf(d)] + 1 - 1
    BY DEF Date
  <2> HIDE DEF first
  <2> QED
    BY <1>1, <2>1, <2>2, <2>3
<1>3. ISOWeek(d) \in Nat /\ WeekStart(d) \in Nat
  BY ThursdayFacts, WeekFits
<1> HIDE DEF first
<1> QED
  BY <1>1, <1>2, <1>3 DEF Period, PeriodKey, PeriodStart, first

\* Dates with one key are dates of one period, but for the week numbers that the
\* first and the last days of a year may share.
LEMMA OneKeyOneStart ==
    ASSUME NEW period \in Period, NEW d \in Calendar, NEW e \in Calendar,
           PeriodKey(period, d) = PeriodKey(period, e),
           ~ (period = "weekly" /\ ISOWeek(d) \in {1, 52, 53})
    PROVE  PeriodStart(period, d) = PeriodStart(period, e)
<1>1. CASE period = "daily"
  <2> DEFINE first(x) == Date(YearOf(x), MonthOf(x), 1)
  <2>1. YearOf(d) = YearOf(e) /\ MonthOf(d) = MonthOf(e) /\ d - first(d) = e - first(e)
    BY <1>1 DEF PeriodKey
  <2>2. first(d) = first(e) /\ first(d) \in Nat /\ d \in Nat /\ e \in Nat
    BY <2>1, PeriodTypes, DateFacts DEF Period, PeriodStart
  <2> HIDE DEF first
  <2>3. d = e
    BY <2>1, <2>2
  <2> QED
    BY <2>3
<1>2. CASE period = "weekly"
  <2>1. YearOf(d) = YearOf(e) /\ ISOWeek(d) = ISOWeek(e)
    BY <1>2 DEF PeriodKey
  <2> QED
    BY <1>2, <2>1, OrdinaryWeek DEF PeriodStart
<1>3. CASE period = "monthly"
  <2>1. YearOf(d) = YearOf(e) /\ MonthOf(d) = MonthOf(e)
    BY <1>3 DEF PeriodKey
  <2> QED
    BY <1>3, <2>1 DEF PeriodStart
<1>4. CASE period = "yearly"
  <2>1. YearOf(d) = YearOf(e)
    BY <1>4 DEF PeriodKey
  <2> QED
    BY <1>4, <2>1 DEF PeriodStart
<1> QED
  BY <1>1, <1>2, <1>3, <1>4 DEF Period

\* Those week numbers stand for two weeks at most, one in either half of the year.
LEMMA OneKeyTwoStarts ==
    ASSUME NEW d \in Calendar, NEW e \in Calendar,
           PeriodKey("weekly", d) = PeriodKey("weekly", e),
           d - YearStart[YearOf(d)] < 180 <=> e - YearStart[YearOf(e)] < 180
    PROVE  PeriodStart("weekly", d) = PeriodStart("weekly", e)
<1>1. YearOf(d) = YearOf(e) /\ ISOWeek(d) = ISOWeek(e)
  BY DEF PeriodKey
<1> QED
  BY <1>1, OneWeek DEF PeriodStart

\* Between two dates of one key and one period there are only dates of that key.
LEMMA PeriodsHaveNoGap ==
    ASSUME NEW period \in Period,
           NEW d \in Calendar, NEW e \in Calendar, NEW f \in Calendar, d <= e, e <= f,
           PeriodKey(period, d) = PeriodKey(period, f),
           PeriodStart(period, d) = PeriodStart(period, f)
    PROVE  PeriodKey(period, e) = PeriodKey(period, d)
<1>1. d \in Nat /\ e \in Nat /\ f \in Nat
  BY DateFacts
<1>2. YearOf(d) = YearOf(f) => YearOf(e) = YearOf(d)
  BY <1>1, YearsInOrder, DateFacts, YearsAre
<1>3. YearOf(d) = YearOf(f) /\ MonthOf(d) = MonthOf(f) => MonthOf(e) = MonthOf(d)
  BY <1>1, <1>2, MonthsInOrder, MonthOfFits
<1>4. CASE period = "daily"
  <2>1. d = f
    BY <1>4 DEF PeriodStart
  <2> QED
    BY <1>1, <2>1
<1>5. CASE period = "weekly"
  <2>1. YearOf(d) = YearOf(f) /\ WeekStart(d) = WeekStart(f)
    BY <1>5 DEF PeriodKey, PeriodStart
  <2>2. WeekStart(e) = WeekStart(d)
    BY <2>1, <1>1, WeeksInOrder, WeekFits
  <2>3. ISOWeek(e) = ISOWeek(d)
    BY <2>2 DEF ISOWeek
  <2> QED
    BY <1>2, <1>5, <2>1, <2>3 DEF PeriodKey
<1>6. CASE period = "monthly"
  <2>1. YearOf(d) = YearOf(f) /\ MonthOf(d) = MonthOf(f)
    BY <1>6 DEF PeriodKey
  <2> QED
    BY <1>2, <1>3, <1>6, <2>1 DEF PeriodKey
<1>7. CASE period = "yearly"
  <2>1. YearOf(d) = YearOf(f)
    BY <1>7 DEF PeriodKey
  <2> QED
    BY <1>2, <1>7, <2>1 DEF PeriodKey
<1> QED
  BY <1>4, <1>5, <1>6, <1>7 DEF Period

-----------------------------------------------------------------------------
(* The sum of the counters of a window. *)

Total(u, K) == MapThenSumSet(LAMBDA key : u[key].count, K)

\* The counts of the counters K.
Counts(u, K) == [key \in K |-> u[key].count]

\* What the fold computes is the sum of those counts.
LEMMA TotalIs ==
    ASSUME NEW K, IsFiniteSet(K), NEW u
    PROVE  IsSum(Total(u, K), Counts(u, K), K)
<1> DEFINE Parts == SUBSET K
           Body(h) == [s \in Parts |-> IF s = Empty THEN 0
                                       ELSE u[Some(s)].count + h[Less(s)]]
           g == CHOOSE h : h = Body(h)
<1>1. Total(u, K) = g[K]
  BY Zenon DEF Total, MapThenSumSet, MapThenFoldSet, Some, Less, Empty
<1>2. \A s \in Parts : s # Empty => Counts(u, K)[Some(s)] = u[Some(s)].count
  BY LessIs DEF Counts
<1>3. PICK h : Folds(Counts(u, K), h, Parts)
  BY FoldExists
<1> HIDE DEF Parts
<1>4. h = Body(h)
  BY <1>2, <1>3 DEF Folds
<1>5. g = Body(g)
  <2> HIDE DEF Body
  <2> QED
    BY <1>4
<1> HIDE DEF g
<1>6. Folds(Counts(u, K), g, Parts)
  BY <1>2, <1>5 DEF Folds
<1> QED
  BY <1>1, <1>6 DEF IsSum, Parts

\* Counters add up to a natural number.
LEMMA TotalIsNat ==
    ASSUME NEW K, IsFiniteSet(K), NEW u, \A key \in K : u[key].count \in Nat
    PROVE  Total(u, K) \in Nat
<1>1. IsSum(Total(u, K), Counts(u, K), K)
  BY TotalIs
<1>2. \A key \in K : Counts(u, K)[key] \in Nat
  BY DEF Counts
<1> QED
  BY <1>1, <1>2, SumIsNat

\* A table of empty counters adds up to nothing.
LEMMA TotalOfNone ==
    ASSUME NEW K, IsFiniteSet(K), NEW u, \A key \in K : u[key].count = 0
    PROVE  Total(u, K) = 0
<1>1. IsSum(Total(u, K), Counts(u, K), K)
  BY TotalIs
<1>2. \A key \in K : Counts(u, K)[key] = 0
  BY DEF Counts
<1> QED
  BY <1>1, <1>2, SumOfZeros

\* One more at one key is one more in all.
LEMMA TotalOfOneMore ==
    ASSUME NEW K, IsFiniteSet(K), NEW u, \A key \in K : u[key].count \in Nat,
           NEW v, NEW k \in K,
           \A key \in K : v[key].count = u[key].count + (IF key = k THEN 1 ELSE 0)
    PROVE  Total(v, K) = Total(u, K) + 1
<1> DEFINE c == Counts(u, K)
           d == Counts(v, K)
<1>1. IsSum(Total(u, K), c, K) /\ IsSum(Total(v, K), d, K)
  BY TotalIs
<1>2. /\ \A key \in K : c[key] \in Nat
      /\ \A key \in K : d[key] = c[key] + (IF key = k THEN 1 ELSE 0)
  BY DEF Counts
<1> HIDE DEF c, d
<1> QED
  BY <1>1, <1>2, SumOfOneMore

-----------------------------------------------------------------------------
(* What a state of the quotas holds. *)

RefSet == ((1 .. MaxSiteCode) \X Months \X Nat) \cup {<< >>}

Request ==
    [at : Steps, site : 1 .. MaxSiteCode, number : Nat, ref : RefSet,
     i : 0 .. Len(Windows) + 1, now : Days \cup {0}]

Row == [count : Nat, start : Nat]

\* What a request at each step holds.
RequestOK(r, codes) ==
    /\ r.at \in {"quota", "order"} => r.now \in Days /\ r.site \in codes
    /\ r.at = "quota" => r.i >= 1
    /\ r.at = "order" => r.number >= 1
    /\ r.at \in {"marker", "count", "mark"} => r.now \in Days /\ r.i \in DOMAIN Windows
    /\ r.at = "site" => r.number \in 1 .. MaxSiteCode

OrderOK(o) ==
    /\ o.day \in Days
    /\ o.ref \in sites \X Months \X (Nat \ {0})
    /\ o.ref[2] = Month(o.day)

TypeInv ==
    /\ day \in Days
    /\ IsFiniteSet(orders) /\ \A o \in orders : OrderOK(o)
    /\ sites \subseteq 1 .. MaxSiteCode /\ 1 \in sites
    /\ DOMAIN usage = WindowSet
    /\ \A window \in WindowSet : usage[window] \in [Keys[window] -> Row]
    /\ req \in [Workers -> Request]
    /\ \A w \in Workers : RequestOK(req[w], sites)

\* The windows of a plan are periods, in a sequence without duplicates.
LEMMA WindowFacts ==
    /\ WindowSet \subseteq Period
    /\ Len(Windows) \in Nat /\ DOMAIN Windows = 1 .. Len(Windows)
    /\ 1 \in DOMAIN Windows
    /\ \A j \in DOMAIN Windows : Windows[j] \in WindowSet
    /\ \A window \in WindowSet : \E j \in DOMAIN Windows : Windows[j] = window
  BY PlanAssumption DEF WindowSet

\* The keys and the first days of the dates of a run are those of UsagePeriods.
LEMMA KeyFacts ==
    /\ Days \subseteq Calendar /\ Days \subseteq Nat
    /\ \A window \in WindowSet \cup {"monthly"} : \A d \in Days :
           Key[window][d] = PeriodKey(window, d)
    /\ \A window \in WindowSet : \A d \in Days :
           /\ Key[window][d] \in Keys[window]
           /\ Start[window][d] = PeriodStart(window, d)
           /\ Start[window][d] \in Nat
    /\ \A d \in Days : Month(d) \in Months
<1>1. Days \subseteq Calendar /\ Days \subseteq Nat
  BY PlanAssumption, DateFacts
<1>2. \A window \in WindowSet \cup {"monthly"} : \A d \in Days :
           Key[window][d] = PeriodKey(window, d)
  BY DEF Key
<1>3. \A window \in WindowSet : \A d \in Days : Key[window][d] \in Keys[window]
  BY DEF Keys
<1>4. \A window \in WindowSet : \A d \in Days : Start[window][d] = PeriodStart(window, d)
  BY DEF Start
<1>5. \A window \in WindowSet : \A d \in Days : PeriodStart(window, d) \in Nat
  BY <1>1, WindowFacts, PeriodTypes
<1>6. \A d \in Days : Month(d) \in Months
  BY DEF Months
<1> QED
  BY <1>1, <1>2, <1>3, <1>4, <1>5, <1>6

\* The idle request is one.
LEMMA IdleIsRequest == Idle \in Request /\ \A codes : RequestOK(Idle, codes)
  BY WindowFacts DEF Idle, Request, RefSet, Steps, RequestOK, MaxSiteCode

\* What a step of one worker does to the requests.
LEMMA Moved ==
    ASSUME TypeInv, NEW w \in Workers, NEW r \in Request,
           req' = [req EXCEPT ![w] = r]
    PROVE  /\ req' \in [Workers -> Request]
           /\ req'[w] = r
           /\ \A v \in Workers : v # w => req'[v] = req[v]
  BY DEF TypeInv

\* A nonempty set of site codes has a highest one.
LEMMA HighestCode ==
    ASSUME NEW S, S \subseteq 1 .. MaxSiteCode, S # {}
    PROVE  Max(S) \in S /\ \A y \in S : Max(S) >= y
<1> DEFINE T == {MaxSiteCode - x : x \in S}
<1>1. PICK n \in T : \A m \in T : n <= m
  <2>1. T \subseteq Nat
    BY DEF MaxSiteCode
  <2>2. T # {}
    <3>1. PICK y \in S : TRUE
      OBVIOUS
    <3>2. MaxSiteCode - y \in T
      BY <3>1
    <3> QED
      BY <3>2
  <2> HIDE DEF T
  <2> QED
    BY <2>1, <2>2, LeastNat
<1>2. PICK x \in S : n = MaxSiteCode - x
  OBVIOUS
<1>3. \A y \in S : MaxSiteCode - x <= MaxSiteCode - y
  BY <1>1, <1>2
<1>4. \A y \in S : x >= y
  BY <1>3 DEF MaxSiteCode
<1> QED
  BY <1>4 DEF Max

\* The first date of the run.
LEMMA FirstDay == (CHOOSE d \in Days : \A e \in Days : d <= e) \in Days
  BY LeastNat, KeyFacts, PlanAssumption, Zenon

-----------------------------------------------------------------------------
\* The types hold at the start.
LEMMA InitTypes == Init => TypeInv
<1> SUFFICES ASSUME Init PROVE TypeInv
  OBVIOUS
<1>1. day \in Days
  BY FirstDay DEF Init
<1>2. IsFiniteSet(orders) /\ \A o \in orders : OrderOK(o)
  BY FS_EmptySet DEF Init
<1>3. sites \subseteq 1 .. MaxSiteCode /\ 1 \in sites
  BY DEF Init, MaxSiteCode
<1>4. /\ DOMAIN usage = WindowSet
      /\ \A window \in WindowSet : usage[window] \in [Keys[window] -> Row]
  BY DEF Init, Row
<1>5. req \in [Workers -> Request] /\ \A w \in Workers : RequestOK(req[w], sites)
  BY IdleIsRequest DEF Init
<1> QED
  BY <1>1, <1>2, <1>3, <1>4, <1>5 DEF TypeInv

\* A step of a worker that changes no table, with what the request becomes.
LEMMA RequestStep ==
    ASSUME TypeInv, NEW w \in Workers, NEW r \in Request,
           req' = [req EXCEPT ![w] = r],
           day' \in Days, UNCHANGED <<orders, usage>>, sites \subseteq sites',
           sites' \subseteq 1 .. MaxSiteCode, RequestOK(r, sites')
    PROVE  TypeInv'
<1>1. req' \in [Workers -> Request]
  BY Moved
<1>2. \A v \in Workers : RequestOK(req'[v], sites')
  <2> SUFFICES ASSUME NEW v \in Workers PROVE RequestOK(req'[v], sites')
    OBVIOUS
  <2>1. RequestOK(req[v], sites) \/ v = w
    BY DEF TypeInv
  <2>2. req'[v] = IF v = w THEN r ELSE req[v]
    BY Moved
  <2> QED
    BY <2>1, <2>2 DEF RequestOK
<1>3. \A o \in orders' : OrderOK(o)'
  BY DEF TypeInv, OrderOK
<1> QED
  BY <1>1, <1>2, <1>3 DEF TypeInv

-----------------------------------------------------------------------------
(* What each step leaves in the request of its worker. *)

\* The fields of a request.
LEMMA FieldsOf ==
    ASSUME NEW r \in Request
    PROVE  /\ r.at \in Steps /\ r.site \in 1 .. MaxSiteCode /\ r.number \in Nat
           /\ r.ref \in RefSet /\ r.i \in 0 .. Len(Windows) + 1 /\ r.now \in Days \cup {0}
           /\ r.i \in Nat
  BY WindowFacts DEF Request

\* After a window a request is idle or at the marker of the next one.
LEMMA NextWindowIs ==
    ASSUME NEW codes, NEW r \in Request, RequestOK(r, codes),
           r.at \in {"marker", "count", "mark"}
    PROVE  /\ NextWindow(r) \in Request /\ RequestOK(NextWindow(r), codes)
           /\ \/ NextWindow(r) = Idle
              \/ /\ NextWindow(r).at = "marker" /\ NextWindow(r).now = r.now
                 /\ NextWindow(r).i = r.i + 1
<1> DEFINE q == [r EXCEPT !.at = "marker", !.i = @ + 1]
<1>1. CASE r.i + 1 \in DOMAIN Windows
  <2>1. NextWindow(r) = q
    BY <1>1 DEF NextWindow
  <2>2. q \in Request
    <3>1. r.i + 1 \in 0 .. Len(Windows) + 1 /\ "marker" \in Steps
      BY <1>1, WindowFacts DEF Steps
    <3> QED
      BY <3>1, ZenonT(30) DEF Request
  <2>3. q.at = "marker" /\ q.now = r.now /\ q.i = r.i + 1
    BY DEF Request
  <2>4. RequestOK(q, codes)
    BY <1>1, <2>3 DEF RequestOK
  <2> HIDE DEF q
  <2> QED
    BY <2>1, <2>2, <2>3, <2>4
<1>2. CASE r.i + 1 \notin DOMAIN Windows
  BY <1>2, IdleIsRequest DEF NextWindow
<1> QED
  BY <1>1, <1>2

\* A request that is out, and the request of worker w at each step.
Becomes(w, r) ==
    /\ r \in Request /\ RequestOK(r, sites')
    /\ req' = [req EXCEPT ![w] = r]

\* A request for an order starts with the quota of its date.
LEMMA CreateOrderIs ==
    ASSUME TypeInv, NEW w \in Workers, NEW site \in sites, CreateOrder(w, site)
    PROVE  \E r : Becomes(w, r) /\ r.at = "quota" /\ r.i = 1 /\ r.now = day
<1> DEFINE r == [Idle EXCEPT !.at = "quota", !.site = site, !.i = 1, !.now = day]
<1>1. /\ site \in 1 .. MaxSiteCode /\ 1 \in 0 .. Len(Windows) + 1
      /\ "quota" \in Steps /\ day \in Days /\ Idle \in Request
  BY IdleIsRequest, WindowFacts DEF Steps, TypeInv
<1>2. r \in Request /\ r.at = "quota" /\ r.i = 1 /\ r.now = day /\ r.site = site
  BY <1>1 DEF Request
<1>3. RequestOK(r, sites')
  BY <1>1, <1>2 DEF RequestOK, CreateOrder, tables
<1>4. req' = [req EXCEPT ![w] = r]
  BY DEF CreateOrder, Moves
<1> HIDE DEF r
<1> QED
  BY <1>2, <1>3, <1>4 DEF Becomes

\* A window that has room lets the request on to the next one.
LEMMA ReadWindowIs ==
    ASSUME TypeInv, NEW w \in Workers, ReadWindow(w)
    PROVE  /\ req[w].at = "quota" /\ req[w].i \in DOMAIN Windows /\ req[w].now \in Days
           /\ \E r : /\ Becomes(w, r) /\ r.at = "quota"
                     /\ r.i = req[w].i + 1 /\ r.now = req[w].now
<1> DEFINE r == [req[w] EXCEPT !.i = @ + 1]
<1>1. req[w] \in Request /\ RequestOK(req[w], sites)
  BY DEF TypeInv
<1>2. req[w].at = "quota" /\ req[w].i \in DOMAIN Windows /\ req' = [req EXCEPT ![w] = r]
  BY DEF ReadWindow, Moves
<1>3. req[w].now \in Days /\ req[w].site \in sites
  BY <1>1, <1>2 DEF RequestOK
<1>4. /\ r \in Request /\ r.at = "quota" /\ r.i = req[w].i + 1
      /\ r.now = req[w].now /\ r.site = req[w].site
  <2>1. req[w].i + 1 \in 0 .. Len(Windows) + 1
    BY <1>2, WindowFacts
  <2>2. r \in Request
    BY <1>1, <2>1, ZenonT(30) DEF Request
  <2> QED
    BY <1>1, <1>2, <2>2 DEF Request
<1>5. RequestOK(r, sites')
  <2> HIDE DEF r
  <2> QED
    BY <1>2, <1>3, <1>4, WindowFacts DEF RequestOK, ReadWindow, tables
<1> HIDE DEF r
<1> QED
  BY <1>2, <1>3, <1>4, <1>5 DEF Becomes

\* The number is handed out on the date of today, once all windows are read.
LEMMA CountOrdersIs ==
    ASSUME TypeInv, NEW w \in Workers, CountOrders(w)
    PROVE  /\ req[w].at = "quota" /\ req[w].i = Len(Windows) + 1
           /\ req[w].site \in sites
           /\ \E r : Becomes(w, r) /\ r.at = "order" /\ r.now = day /\ r.site = req[w].site
                     /\ r.number = NextNumber(req[w].site, day)
<1> DEFINE n == NextNumber(req[w].site, day)
           r == [req[w] EXCEPT !.at = "order", !.now = day, !.number = n]
<1>1. req[w] \in Request /\ RequestOK(req[w], sites) /\ day \in Days
  BY DEF TypeInv
<1>2. req[w].at = "quota" /\ req[w].i \notin DOMAIN Windows /\ req' = [req EXCEPT ![w] = r]
  BY DEF CountOrders, Moves
<1>3. req[w].i = Len(Windows) + 1 /\ req[w].site \in sites
  BY <1>1, <1>2, WindowFacts, FieldsOf DEF RequestOK
<1>4. n \in Nat /\ n >= 1
  <2> DEFINE C == {o \in orders : o.ref[1] = req[w].site /\ Month(o.day) = Month(day)}
  <2>1. IsFiniteSet(C)
    BY FS_Subset DEF TypeInv
  <2>2. Cardinality(C) \in Nat
    BY <2>1, FS_CardinalityType
  <2> QED
    BY <2>2 DEF NextNumber
<1> HIDE DEF n
<1>5. /\ r \in Request /\ r.at = "order" /\ r.now = day
      /\ r.number = n /\ r.site = req[w].site
  BY <1>1, <1>4 DEF Request, Steps
<1>6. RequestOK(r, sites')
  <2> HIDE DEF r
  <2> QED
    BY <1>1, <1>3, <1>4, <1>5 DEF RequestOK, CountOrders, tables
<1> HIDE DEF r
<1> QED
  BY <1>2, <1>3, <1>5, <1>6 DEF Becomes, n

\* An order that is inserted goes on to the marker of the first window.
LEMMA InsertOrderIs ==
    ASSUME TypeInv, NEW w \in Workers, InsertOrder(w)
    PROVE  /\ req[w].at = "order" /\ req[w].now \in Days /\ req[w].site \in sites
           /\ req[w].number \in Nat \ {0}
           /\ \E r : Becomes(w, r) /\ r.at = "marker" /\ r.i = 1
<1> DEFINE r == [req[w] EXCEPT !.at = "marker", !.i = 1, !.ref = Reference(req[w])]
<1>1. req[w] \in Request /\ RequestOK(req[w], sites)
  BY DEF TypeInv
<1>2. req[w].at = "order" /\ req' = [req EXCEPT ![w] = r]
  BY DEF InsertOrder, Moves
<1>3. req[w].now \in Days /\ req[w].site \in sites /\ req[w].number \in Nat \ {0}
  BY <1>1, <1>2, FieldsOf DEF RequestOK
<1>4. Reference(req[w]) \in RefSet
  BY <1>1, <1>3, FieldsOf, KeyFacts DEF Reference, RefSet
<1>5. r \in Request /\ r.at = "marker" /\ r.i = 1 /\ r.now = req[w].now
  <2> DEFINE ref == Reference(req[w])
  <2>1. ref \in RefSet /\ "marker" \in Steps /\ 1 \in 0 .. Len(Windows) + 1
    BY <1>4, WindowFacts DEF Steps
  <2> HIDE DEF ref
  <2>2. /\ [req[w] EXCEPT !.at = "marker", !.i = 1, !.ref = ref] \in Request
        /\ [req[w] EXCEPT !.at = "marker", !.i = 1, !.ref = ref].at = "marker"
        /\ [req[w] EXCEPT !.at = "marker", !.i = 1, !.ref = ref].i = 1
        /\ [req[w] EXCEPT !.at = "marker", !.i = 1, !.ref = ref].now = req[w].now
    BY <1>1, <2>1 DEF Request
  <2> QED
    BY <2>2 DEF ref
<1>6. RequestOK(r, sites')
  <2> HIDE DEF r
  <2> QED
    BY <1>3, <1>5, WindowFacts DEF RequestOK
<1> HIDE DEF r
<1> QED
  BY <1>2, <1>3, <1>5, <1>6 DEF Becomes

\* The date of the usage is taken at the first marker; a marked window is skipped.
LEMMA FindMarkerIs ==
    ASSUME TypeInv, NEW w \in Workers, FindMarker(w)
    PROVE  /\ req[w].at = "marker" /\ req[w].i \in DOMAIN Windows /\ req[w].now \in Days
           /\ \E now \in Days :
                 /\ now = IF req[w].i = 1 THEN day ELSE req[w].now
                 /\ \E r : /\ Becomes(w, r)
                           /\ \/ r.at = "count" /\ r.i = req[w].i /\ r.now = now
                              \/ r.at = "marker" /\ r.i = req[w].i + 1 /\ r.now = now
                              \/ r = Idle
<1> DEFINE now == IF req[w].i = 1 THEN day ELSE req[w].now
           q == IF req[w].i = 1 THEN [req[w] EXCEPT !.now = day] ELSE req[w]
           r == [q EXCEPT !.at = "count"]
<1>1. req[w] \in Request /\ RequestOK(req[w], sites) /\ day \in Days
  BY DEF TypeInv
<1>2. req[w].at = "marker" /\ req[w].i \in DOMAIN Windows /\ req[w].now \in Days
  <2>1. req[w].at = "marker"
    BY DEF FindMarker, Moves
  <2> QED
    BY <1>1, <2>1 DEF RequestOK
<1>3. q \in Request /\ q.at = "marker" /\ q.i = req[w].i /\ q.now = now
  BY <1>1, <1>2 DEF Request
<1>4. now \in Days
  BY <1>1, <1>2
<1>5. req' = [req EXCEPT ![w] = NextWindow(q)] \/ req' = [req EXCEPT ![w] = r]
  BY DEF FindMarker, Moves
<1>6. sites' = sites
  BY DEF FindMarker, tables
<1> HIDE DEF q, now
<1>7. RequestOK(q, sites)
  BY <1>2, <1>3, <1>4 DEF RequestOK
<1>8. r \in Request /\ r.at = "count" /\ r.i = req[w].i /\ r.now = now
  BY <1>3 DEF Request, Steps
<1>9. CASE req' = [req EXCEPT ![w] = r]
  <2> HIDE DEF r
  <2>1. RequestOK(r, sites')
    BY <1>2, <1>4, <1>8 DEF RequestOK
  <2> QED
    BY <1>2, <1>4, <1>8, <1>9, <2>1 DEF Becomes, now
<1>10. CASE req' = [req EXCEPT ![w] = NextWindow(q)]
  <2> DEFINE n == NextWindow(q)
  <2>1. /\ n \in Request /\ RequestOK(n, sites)
        /\ n = Idle \/ (n.at = "marker" /\ n.now = now /\ n.i = req[w].i + 1)
    BY <1>3, <1>7, NextWindowIs
  <2> HIDE DEF n
  <2>2. Becomes(w, n)
    BY <1>6, <1>10, <2>1 DEF Becomes, n
  <2> QED
    BY <1>2, <1>4, <2>1, <2>2 DEF now
<1> QED
  BY <1>5, <1>9, <1>10

\* A count goes on to the mark of the same window and date.
LEMMA CountIs ==
    ASSUME TypeInv, NEW w \in Workers, Count(w)
    PROVE  /\ req[w].at = "count" /\ req[w].i \in DOMAIN Windows /\ req[w].now \in Days
           /\ \E r : Becomes(w, r) /\ r.at = "mark" /\ r.i = req[w].i /\ r.now = req[w].now
<1> DEFINE r == [req[w] EXCEPT !.at = "mark"]
<1>1. req[w] \in Request /\ RequestOK(req[w], sites)
  BY DEF TypeInv
<1>2. req[w].at = "count" /\ req' = [req EXCEPT ![w] = r] /\ sites' = sites
  BY DEF Count, Moves
<1>3. req[w].i \in DOMAIN Windows /\ req[w].now \in Days
  BY <1>1, <1>2 DEF RequestOK
<1>4. r \in Request /\ r.at = "mark" /\ r.i = req[w].i /\ r.now = req[w].now
  BY <1>1 DEF Request, Steps
<1> HIDE DEF r
<1>5. RequestOK(r, sites')
  BY <1>3, <1>4 DEF RequestOK
<1> QED
  BY <1>2, <1>3, <1>4, <1>5 DEF Becomes

\* A mark goes on to the next window of the same date.
LEMMA MarkIs ==
    ASSUME TypeInv, NEW w \in Workers, Mark(w)
    PROVE  /\ req[w].at = "mark" /\ req[w].i \in DOMAIN Windows /\ req[w].now \in Days
           /\ \E r : /\ Becomes(w, r)
                     /\ \/ r = Idle
                        \/ r.at = "marker" /\ r.i = req[w].i + 1 /\ r.now = req[w].now
<1> DEFINE n == NextWindow(req[w])
<1>1. req[w] \in Request /\ RequestOK(req[w], sites)
  BY DEF TypeInv
<1>2. req[w].at = "mark" /\ req' = [req EXCEPT ![w] = n] /\ sites' = sites
  BY DEF Mark, Moves
<1>3. req[w].i \in DOMAIN Windows /\ req[w].now \in Days
  BY <1>1, <1>2 DEF RequestOK
<1>4. /\ n \in Request /\ RequestOK(n, sites)
      /\ n = Idle \/ (n.at = "marker" /\ n.now = req[w].now /\ n.i = req[w].i + 1)
  BY <1>1, <1>2, NextWindowIs
<1> HIDE DEF n
<1>5. Becomes(w, n)
  BY <1>2, <1>4 DEF Becomes
<1> QED
  BY <1>2, <1>3, <1>4, <1>5

\* A request for a site looks for a code.
LEMMA CreateSiteIs ==
    ASSUME TypeInv, NEW w \in Workers, CreateSite(w)
    PROVE  \E r : Becomes(w, r) /\ r.at = "code"
<1> DEFINE r == [Idle EXCEPT !.at = "code"]
<1>1. r \in Request /\ r.at = "code"
  BY IdleIsRequest DEF Request, Steps
<1>2. req' = [req EXCEPT ![w] = r]
  BY DEF CreateSite, Moves
<1> HIDE DEF r
<1>3. RequestOK(r, sites')
  BY <1>1 DEF RequestOK
<1> QED
  BY <1>1, <1>2, <1>3 DEF Becomes

\* A code that is free is on its way to be inserted.
LEMMA NextSiteCodeIs ==
    ASSUME TypeInv, NEW w \in Workers, NextSiteCode(w)
    PROVE  req[w].at = "code" /\ \E r : Becomes(w, r) /\ r.at = "site"
<1> DEFINE n == Max(sites) + 1
           r == [req[w] EXCEPT !.at = "site", !.number = n]
<1>1. req[w] \in Request
  BY DEF TypeInv
<1>2. req[w].at = "code" /\ req' = [req EXCEPT ![w] = r] /\ n <= MaxSiteCode
  BY DEF NextSiteCode, Moves
<1>3. n \in 1 .. MaxSiteCode
  <2>1. Max(sites) \in 1 .. MaxSiteCode
    BY HighestCode DEF TypeInv
  <2> QED
    BY <1>2, <2>1 DEF MaxSiteCode
<1> HIDE DEF n
<1>4. r \in Request /\ r.at = "site" /\ r.number = n
  <2>1. n \in Nat /\ "site" \in Steps
    BY <1>3 DEF Steps
  <2> QED
    BY <1>1, <2>1 DEF Request
<1> HIDE DEF r
<1>5. RequestOK(r, sites')
  BY <1>3, <1>4 DEF RequestOK
<1> QED
  BY <1>2, <1>4, <1>5 DEF Becomes

\* The steps that leave worker w idle.
LEMMA IdleIs == ASSUME NEW w, req' = [req EXCEPT ![w] = Idle] PROVE Becomes(w, Idle)
  BY IdleIsRequest DEF Becomes

-----------------------------------------------------------------------------
(* Types. *)

\* The order that is inserted has a date, and a reference with the month of that date.
LEMMA InsertOrderTypes ==
    ASSUME TypeInv, NEW w \in Workers, InsertOrder(w)
    PROVE  TypeInv'
<1> DEFINE q == req[w]
           o == [day |-> q.now, ref |-> Reference(q)]
<1>1. /\ q.now \in Days /\ q.site \in sites /\ q.number \in Nat \ {0}
      /\ req' \in [Workers -> Request]
      /\ \A v \in Workers : RequestOK(req'[v], sites')
  <2>1. PICK r : Becomes(w, r)
    BY InsertOrderIs
  <2>2. sites' = sites /\ \A v \in Workers : RequestOK(req[v], sites)
    BY DEF InsertOrder, TypeInv
  <2> QED
    BY <2>1, <2>2, InsertOrderIs, Moved DEF Becomes
<1>2. orders' = orders \cup {o} /\ UNCHANGED <<day, sites, usage>>
  BY DEF InsertOrder
<1>3. /\ o.day = q.now /\ o.ref = <<q.site, Month(q.now), q.number>>
      /\ Month(q.now) \in Months
  BY <1>1, KeyFacts DEF Reference
<1> HIDE DEF o, q
<1>4. OrderOK(o)
  BY <1>1, <1>3 DEF OrderOK
<1>5. IsFiniteSet(orders') /\ \A p \in orders' : OrderOK(p)'
  <2>1. IsFiniteSet(orders')
    BY <1>2, FS_AddElement DEF TypeInv
  <2> QED
    BY <1>2, <1>4, <2>1 DEF TypeInv, OrderOK
<1> QED
  BY <1>1, <1>2, <1>5 DEF TypeInv

\* A count leaves rows of counters.
LEMMA CountTypes ==
    ASSUME TypeInv, NEW w \in Workers, Count(w)
    PROVE  TypeInv'
<1> DEFINE q == req[w]
           window == Windows[q.i]
           key == Key[window][q.now]
           row == [count |-> usage[window][key].count + 1,
                   start |-> IF usage[window][key].count = 0 THEN Start[window][q.now]
                             ELSE usage[window][key].start]
<1>1. /\ q.i \in DOMAIN Windows /\ q.now \in Days
      /\ req' \in [Workers -> Request]
      /\ \A v \in Workers : RequestOK(req'[v], sites')
  <2>1. PICK r : Becomes(w, r)
    BY CountIs
  <2>2. sites' = sites /\ \A v \in Workers : RequestOK(req[v], sites)
    BY DEF Count, TypeInv
  <2> QED
    BY <2>1, <2>2, CountIs, Moved DEF Becomes
<1>2. usage' = [usage EXCEPT ![window] = [usage[window] EXCEPT ![key] = row]]
  BY DEF Count
<1>3. UNCHANGED <<day, orders, sites>>
  BY DEF Count
<1>4. window \in WindowSet /\ key \in Keys[window] /\ Start[window][q.now] \in Nat
  BY <1>1, WindowFacts, KeyFacts
<1>5. row \in Row
  <2>1. usage[window][key] \in Row
    BY <1>4 DEF TypeInv
  <2> HIDE DEF window, key, q
  <2> QED
    BY <1>4, <2>1 DEF Row
<1> HIDE DEF row, key, window, q
<1>6. /\ DOMAIN usage' = WindowSet
      /\ \A v \in WindowSet : usage'[v] \in [Keys[v] -> Row]
  BY <1>2, <1>4, <1>5 DEF TypeInv
<1>7. IsFiniteSet(orders') /\ \A p \in orders' : OrderOK(p)'
  BY <1>3 DEF TypeInv, OrderOK
<1> QED
  BY <1>1, <1>3, <1>6, <1>7 DEF TypeInv

\* Every step keeps the types.
LEMMA NextTypes == TypeInv /\ [Next]_vars => TypeInv'
<1> SUFFICES ASSUME TypeInv, [Next]_vars PROVE TypeInv'
  OBVIOUS
<1> USE DEF tables
<1>1. ASSUME NEW w \in Workers, NEW r, Becomes(w, r), UNCHANGED <<day, orders, sites, usage>>
      PROVE  TypeInv'
  BY <1>1, RequestStep DEF Becomes, TypeInv
<1>2. ASSUME NEW w \in Workers, NEW site \in sites, CreateOrder(w, site) PROVE TypeInv'
  BY <1>1, <1>2, CreateOrderIs DEF CreateOrder
<1>3. ASSUME NEW w \in Workers, ReadWindow(w) PROVE TypeInv'
  BY <1>1, <1>3, ReadWindowIs DEF ReadWindow
<1>4. ASSUME NEW w \in Workers, CountOrders(w) PROVE TypeInv'
  BY <1>1, <1>4, CountOrdersIs DEF CountOrders
<1>5. ASSUME NEW w \in Workers, FindMarker(w) PROVE TypeInv'
  BY <1>1, <1>5, FindMarkerIs DEF FindMarker
<1>6. ASSUME NEW w \in Workers, Mark(w) PROVE TypeInv'
  BY <1>1, <1>6, MarkIs DEF Mark
<1>7. ASSUME NEW w \in Workers, CreateSite(w) PROVE TypeInv'
  BY <1>1, <1>7, CreateSiteIs DEF CreateSite
<1>8. ASSUME NEW w \in Workers, NextSiteCode(w) PROVE TypeInv'
  BY <1>1, <1>8, NextSiteCodeIs DEF NextSiteCode
<1>9. ASSUME NEW w \in Workers, InsertSite(w) PROVE TypeInv'
  <2>1. Becomes(w, Idle) /\ UNCHANGED <<day, orders, usage>>
    BY <1>9, IdleIs DEF InsertSite, Moves
  <2>2. sites' = sites \cup {req[w].number} /\ req[w].number \in 1 .. MaxSiteCode
    BY <1>9 DEF InsertSite, TypeInv, RequestOK
  <2> QED
    BY <2>1, <2>2, RequestStep DEF Becomes, TypeInv
<1>10. ASSUME NEW w \in Workers, Abort(w) PROVE TypeInv'
  BY <1>1, <1>10, IdleIs DEF Abort
<1>11. ASSUME NextDay PROVE TypeInv'
  <2>1. day' \in Days /\ UNCHANGED <<orders, sites, usage, req>>
    BY <1>11 DEF NextDay
  <2> QED
    BY <2>1 DEF TypeInv, OrderOK, RequestOK
<1>12. CASE UNCHANGED vars
  BY <1>12 DEF TypeInv, OrderOK, RequestOK, vars
<1> QED
  BY <1>2, <1>3, <1>4, <1>5, <1>6, <1>7, <1>8, <1>9, <1>10, <1>11, <1>12,
     InsertOrderTypes, CountTypes DEF Next, Step

-----------------------------------------------------------------------------
(* OverrunBounded. *)

\* Request r is still going to add to the counter of the j-th window under `key`,
\* and will not look at that counter before: it is past the check, or the check is
\* made for another date.
Due(r, today, j, key) ==
    \/ /\ key = Key[Windows[j]][today]
       /\ \/ r.at = "quota" /\ (Key[Windows[j]][r.now] # key \/ r.i > j)
          \/ r.at = "order"
          \/ r.at = "marker" /\ r.i = 1
    \/ /\ r.at \in {"marker", "count", "mark"} /\ key = Key[Windows[j]][r.now]
       /\ \/ r.at = "marker" /\ r.i > 1 /\ r.i <= j
          \/ r.at = "count" /\ r.i <= j
          \/ r.at = "mark" /\ r.i < j

Pending(j, key) == {w \in Workers : Due(req[w], day, j, key)}

\* The periods of a key that have begun by a date.
BegunBy(today, window, key) ==
    {Start[window][d] : d \in {e \in Days : e <= today /\ Key[window][e] = key}}

Begun(window, key) == BegunBy(day, window, key)

CounterOK(j, key) ==
    usage[Windows[j]][key].count + Cardinality(Pending(j, key))
        <= Limit[Windows[j]] - 1 + Cardinality(Workers) * Cardinality(Begun(Windows[j], key))

CountersInv == \A j \in DOMAIN Windows : \A key \in Keys[Windows[j]] : CounterOK(j, key)

Creating == {w \in Workers : req[w].at \in {"code", "site"}}

SitesInv == Cardinality(sites) + Cardinality(Creating) <= SiteLimit - 1 + Cardinality(Workers)

\* At most one period has begun of an ordinary key, at most two of any.
LEMMA BegunBound ==
    ASSUME NEW today, NEW window \in WindowSet, NEW key \in Keys[window]
    PROVE  /\ IsFiniteSet(BegunBy(today, window, key))
           /\ Cardinality(BegunBy(today, window, key)) \in 0 .. PeriodsOf(window, key)
<1> DEFINE D == {e \in Days : e <= today /\ Key[window][e] = key}
           B == {Start[window][d] : d \in D}
           H == {d \in D : d - YearStart[YearOf(d)] < 180}
<1>1. /\ window \in Period /\ D \subseteq Calendar
      /\ \A d \in D : /\ Start[window][d] = PeriodStart(window, d)
                      /\ PeriodKey(window, d) = key
  BY WindowFacts, KeyFacts
<1>2. ASSUME NEW S,
             \A d \in D : d \in S =>
                 \A e \in D : e \in S => Start[window][d] = Start[window][e]
      PROVE  \E x : {Start[window][d] : d \in D \cap S} \subseteq {x}
  <2>1. CASE D \cap S = {}
    BY <2>1
  <2>2. CASE D \cap S # {}
    <3>1. PICK e \in D \cap S : TRUE
      BY <2>2
    <3>2. \A d \in D \cap S : Start[window][d] = Start[window][e]
      BY <1>2, <3>1
    <3> QED
      BY <3>2
  <2> QED
    BY <2>1, <2>2
<1>3. ASSUME NEW x, NEW y, NEW T \in SUBSET {x, y}
      PROVE  /\ IsFiniteSet(T) /\ Cardinality(T) \in 0 .. 2
             /\ x = y => Cardinality(T) \in 0 .. 1
  <2>1. IsFiniteSet({x}) /\ Cardinality({x}) = 1
    BY FS_Singleton
  <2>2. {x, y} = {x} \cup {y} /\ (x = y => {x, y} = {x})
    OBVIOUS
  <2>3. /\ IsFiniteSet({x, y}) /\ Cardinality({x, y}) \in {1, 2}
        /\ x = y => Cardinality({x, y}) = 1
    BY <2>1, <2>2, FS_AddElement
  <2>4. IsFiniteSet(T) /\ Cardinality(T) <= Cardinality({x, y})
    BY <2>3, FS_Subset
  <2>5. Cardinality(T) \in Nat
    BY <2>4, FS_CardinalityType
  <2> QED
    BY <2>3, <2>4, <2>5
<1>4. CASE ~ (window = "weekly" /\ key[2] \in {1, 52, 53})
  <2>1. \A d \in D : \A e \in D : Start[window][d] = Start[window][e]
    <3> SUFFICES ASSUME NEW d \in D, NEW e \in D PROVE Start[window][d] = Start[window][e]
      OBVIOUS
    <3>1. window = "weekly" => key = <<YearOf(d), ISOWeek(d)>>
      BY <1>1 DEF PeriodKey
    <3>2. ~ (window = "weekly" /\ ISOWeek(d) \in {1, 52, 53})
      BY <1>4, <3>1
    <3>3. d \in Calendar /\ e \in Calendar /\ PeriodKey(window, d) = PeriodKey(window, e)
      BY <1>1
    <3> QED
      BY <1>1, <3>2, <3>3, OneKeyOneStart
  <2>2. PICK x : {Start[window][d] : d \in D \cap D} \subseteq {x}
    BY <2>1, <1>2
  <2>3. B \in SUBSET {x, x}
    BY <2>2
  <2>4. IsFiniteSet(B) /\ Cardinality(B) \in 0 .. 1
    <3> HIDE DEF B
    <3> QED
      BY <1>3, <2>3
  <2> QED
    BY <1>4, <2>4 DEF BegunBy, PeriodsOf
<1>5. CASE window = "weekly" /\ key[2] \in {1, 52, 53}
  <2>1. ASSUME NEW d \in D, NEW e \in D, d \in H <=> e \in H
        PROVE  Start[window][d] = Start[window][e]
    <3>1. d - YearStart[YearOf(d)] < 180 <=> e - YearStart[YearOf(e)] < 180
      BY <2>1
    <3>2. d \in Calendar /\ e \in Calendar /\ PeriodKey("weekly", d) = PeriodKey("weekly", e)
      BY <1>1, <1>5
    <3> QED
      BY <1>1, <1>5, <3>1, <3>2, OneKeyTwoStarts
  <2>2. PICK x : {Start[window][d] : d \in D \cap H} \subseteq {x}
    BY <2>1, <1>2
  <2>3. PICK y : {Start[window][d] : d \in D \cap (D \ H)} \subseteq {y}
    BY <2>1, <1>2
  <2>4. B \in SUBSET {x, y}
    BY <2>2, <2>3
  <2>5. IsFiniteSet(B) /\ Cardinality(B) \in 0 .. 2
    <3> HIDE DEF B
    <3> QED
      BY <1>3, <2>4
  <2> QED
    BY <1>5, <2>5 DEF BegunBy, PeriodsOf
<1> QED
  BY <1>4, <1>5

\* Requests in flight are finitely many, and at least one may be.
LEMMA PendingFinite ==
    ASSUME NEW S, S \subseteq Workers
    PROVE  /\ IsFiniteSet(S) /\ Cardinality(S) \in Nat /\ Cardinality(Workers) \in Nat
           /\ Cardinality(S) <= Cardinality(Workers) /\ Cardinality(Workers) >= 1
<1>1. IsFiniteSet(Workers) /\ Workers # {}
  BY PlanAssumption
<1>2. IsFiniteSet(S) /\ Cardinality(S) <= Cardinality(Workers)
  BY <1>1, FS_Subset
<1>3. Cardinality(S) \in Nat /\ Cardinality(Workers) \in Nat
  BY <1>1, <1>2, FS_CardinalityType
<1>4. Cardinality(Workers) # 0
  BY <1>1, FS_EmptySet
<1> QED
  BY <1>2, <1>3, <1>4

\* The numbers the bound of a counter is made of are naturals.
LEMMA CounterTypes ==
    ASSUME TypeInv, NEW j \in DOMAIN Windows, NEW key \in Keys[Windows[j]]
    PROVE  /\ usage[Windows[j]][key].count \in Nat
           /\ Limit[Windows[j]] \in Nat /\ Limit[Windows[j]] >= 1
           /\ Cardinality(Workers) \in Nat
           /\ Cardinality(Pending(j, key)) \in 0 .. Cardinality(Workers)
           /\ Cardinality(Begun(Windows[j], key)) \in 0 .. 2
<1>1. Windows[j] \in WindowSet
  BY WindowFacts
<1>2. usage[Windows[j]][key].count \in Nat
  BY <1>1 DEF TypeInv, Row
<1>3. Limit[Windows[j]] \in Nat \ {0}
  BY <1>1, PlanAssumption
<1>4. Pending(j, key) \subseteq Workers
  BY DEF Pending
<1>5. Cardinality(Begun(Windows[j], key)) \in 0 .. 2
  BY <1>1, BegunBound DEF PeriodsOf, Begun
<1> HIDE DEF Pending
<1> QED
  BY <1>2, <1>3, <1>4, <1>5, PendingFinite

\* A request that is not due where it was not due before disturbs no counter.
LEMMA CountersStay ==
    ASSUME TypeInv, CountersInv, NEW w \in Workers, NEW r, Becomes(w, r),
           UNCHANGED <<day, usage>>,
           NEW j \in DOMAIN Windows, NEW key \in Keys[Windows[j]],
           Due(r, day, j, key) => Due(req[w], day, j, key)
    PROVE  CounterOK(j, key)'
<1>1. Pending(j, key)' \subseteq Pending(j, key)
  <2>1. \A v \in Workers : req'[v] = IF v = w THEN r ELSE req[v]
    BY Moved DEF Becomes
  <2> QED
    BY <2>1 DEF Pending, Due
<1>2. Pending(j, key) \subseteq Workers
  BY DEF Pending
<1>3. /\ IsFiniteSet(Pending(j, key))
      /\ Cardinality(Pending(j, key)') <= Cardinality(Pending(j, key))
  BY <1>1, <1>2, PendingFinite, FS_Subset
<1>4. Cardinality(Pending(j, key)') \in Nat
  BY <1>1, <1>2, PendingFinite
<1>5. Begun(Windows[j], key)' = Begun(Windows[j], key)
  BY DEF Begun
<1>6. CounterOK(j, key)
  BY DEF CountersInv
<1> DEFINE p == Cardinality(Pending(j, key)')
           b == Cardinality(Workers) * Cardinality(Begun(Windows[j], key))
<1>7. CounterOK(j, key)' <=> usage[Windows[j]][key].count + p <= Limit[Windows[j]] - 1 + b
  BY <1>5 DEF CounterOK
<1>8. usage[Windows[j]][key].count + Cardinality(Pending(j, key)) <= Limit[Windows[j]] - 1 + b
  BY <1>6 DEF CounterOK
<1>9. b \in Nat /\ p \in Nat /\ p <= Cardinality(Pending(j, key))
  BY <1>3, <1>4, CounterTypes
<1> HIDE DEF p, b
<1> QED
  BY <1>7, <1>8, <1>9, CounterTypes

\* No step but a read of the quota, a count and a midnight makes a request due.
LEMMA NoMoreDue ==
    ASSUME TypeInv, NEW w \in Workers,
           \/ \E site \in sites : CreateOrder(w, site)
           \/ CountOrders(w) \/ InsertOrder(w) \/ FindMarker(w) \/ Mark(w)
           \/ CreateSite(w) \/ NextSiteCode(w) \/ InsertSite(w) \/ Abort(w),
           NEW j \in DOMAIN Windows, NEW key \in Keys[Windows[j]]
    PROVE  \E r : Becomes(w, r) /\ (Due(r, day, j, key) => Due(req[w], day, j, key))
<1>1. j \in Nat /\ j >= 1 /\ j <= Len(Windows) /\ Len(Windows) \in Nat
  BY WindowFacts
<1>2. req[w].i \in Nat
  BY FieldsOf DEF TypeInv
<1>3. ~ Due(Idle, day, j, key)
  BY DEF Due, Idle
<1>4. CASE \E site \in sites : CreateOrder(w, site)
  BY <1>1, <1>4, CreateOrderIs DEF Due
<1>5. CASE CountOrders(w)
  BY <1>1, <1>5, CountOrdersIs DEF Due
<1>6. CASE InsertOrder(w)
  BY <1>1, <1>6, InsertOrderIs DEF Due
<1>7. CASE FindMarker(w)
  BY <1>1, <1>2, <1>3, <1>7, FindMarkerIs DEF Due
<1>8. CASE Mark(w)
  BY <1>1, <1>2, <1>3, <1>8, MarkIs DEF Due
<1>9. CASE CreateSite(w)
  BY <1>9, CreateSiteIs DEF Due
<1>10. CASE NextSiteCode(w)
  BY <1>10, NextSiteCodeIs DEF Due
<1>11. CASE InsertSite(w) \/ Abort(w)
  BY <1>3, <1>11, IdleIs DEF InsertSite, Abort, Moves
<1> QED
  BY <1>4, <1>5, <1>6, <1>7, <1>8, <1>9, <1>10, <1>11

\* The period of today has begun.
LEMMA BegunToday ==
    ASSUME TypeInv, NEW j \in DOMAIN Windows
    PROVE  Cardinality(Begun(Windows[j], Key[Windows[j]][day])) >= 1
<1> DEFINE B == Begun(Windows[j], Key[Windows[j]][day])
<1>1. day \in Days /\ day \in Nat
  BY KeyFacts DEF TypeInv
<1>2. Start[Windows[j]][day] \in B
  BY <1>1 DEF Begun, BegunBy
<1>3. IsFiniteSet(B)
  BY <1>1, BegunBound, WindowFacts, KeyFacts DEF Begun
<1> HIDE DEF B
<1>4. Cardinality(B) # 0 /\ Cardinality(B) \in Nat
  BY <1>2, <1>3, FS_EmptySet, FS_CardinalityType
<1> QED
  BY <1>4 DEF B

\* A window that is read has room for the order: the counter is below its limit.
LEMMA ReadWindowCounters ==
    ASSUME TypeInv, CountersInv, NEW w \in Workers, ReadWindow(w),
           NEW j \in DOMAIN Windows, NEW key \in Keys[Windows[j]]
    PROVE  CounterOK(j, key)'
<1>1. PICK r : Becomes(w, r) /\ r.at = "quota" /\ r.i = req[w].i + 1 /\ r.now = req[w].now
  BY ReadWindowIs
<1>2. /\ req[w].at = "quota" /\ req[w].i \in DOMAIN Windows /\ req[w].now \in Days
      /\ req[w].i \in Nat /\ j \in Nat
  BY ReadWindowIs, WindowFacts
<1>3. UNCHANGED <<day, usage>>
  BY DEF ReadWindow, tables
<1>4. CASE Due(r, day, j, key) => Due(req[w], day, j, key)
  BY <1>1, <1>3, <1>4, CountersStay
<1>5. CASE Due(r, day, j, key) /\ ~ Due(req[w], day, j, key)
  <2>1. /\ key = Key[Windows[j]][day] /\ key = Key[Windows[j]][req[w].now]
        /\ req[w].i = j
    BY <1>1, <1>2, <1>5 DEF Due
  <2> DEFINE c == usage[Windows[j]][key].count
             p == Cardinality(Pending(j, key)')
             n == Cardinality(Workers)
             b == Cardinality(Begun(Windows[j], key))
  <2>2. c < Limit[Windows[j]]
    BY <2>1 DEF ReadWindow, WithinWindow
  <2>3. p \in Nat /\ p <= n
    <3>1. Pending(j, key)' \subseteq Workers
      BY DEF Pending
    <3> QED
      BY <3>1, PendingFinite
  <2>4. b \in 1 .. 2
    <3>1. b >= 1
      BY <2>1, BegunToday
    <3>2. b \in 0 .. 2
      BY CounterTypes
    <3> HIDE DEF b
    <3> QED
      BY <3>1, <3>2
  <2>5. c \in Nat /\ n \in Nat /\ Limit[Windows[j]] \in Nat
    BY CounterTypes
  <2>6. Begun(Windows[j], key)' = Begun(Windows[j], key)
    BY <1>3 DEF Begun
  <2>7. CounterOK(j, key)' <=> c + p <= Limit[Windows[j]] - 1 + n * b
    BY <1>3, <2>6 DEF CounterOK
  <2> HIDE DEF c, p, n, b
  <2>8. b = 1 \/ b = 2
    BY <2>4
  <2>9. n * b >= n
    BY <2>5, <2>8
  <2>10. n * b \in Nat
    BY <2>4, <2>5
  <2> QED
    BY <2>2, <2>3, <2>5, <2>7, <2>9, <2>10
<1> QED
  BY <1>4, <1>5

\* The one counter that a count changes.
LEMMA CountUsage ==
    ASSUME TypeInv, NEW w \in Workers, Count(w),
           NEW j \in DOMAIN Windows, NEW key \in Keys[Windows[j]]
    PROVE  /\ req[w].i = j /\ key = Key[Windows[j]][req[w].now] =>
                  /\ usage'[Windows[j]][key].count = usage[Windows[j]][key].count + 1
                  /\ usage'[Windows[j]][key].start =
                         IF usage[Windows[j]][key].count = 0 THEN Start[Windows[j]][req[w].now]
                         ELSE usage[Windows[j]][key].start
           /\ ~ (req[w].i = j /\ key = Key[Windows[j]][req[w].now]) =>
                  usage'[Windows[j]][key] = usage[Windows[j]][key]
           /\ req[w].i # j => usage'[Windows[j]] = usage[Windows[j]]
<1> DEFINE q == req[w]
           k == Key[Windows[q.i]][q.now]
           old == usage[Windows[q.i]][k]
           new == [count |-> old.count + 1,
                   start |-> IF old.count = 0 THEN Start[Windows[q.i]][q.now] ELSE old.start]
<1>1. q.i \in DOMAIN Windows /\ q.now \in Days
  BY CountIs
<1>2. Windows[q.i] \in WindowSet /\ k \in Keys[Windows[q.i]] /\ Windows[j] \in WindowSet
  BY <1>1, WindowFacts, KeyFacts
<1>3. Windows[q.i] = Windows[j] <=> q.i = j
  BY <1>1, PlanAssumption
<1>4. usage' = [usage EXCEPT ![Windows[q.i]] = [usage[Windows[q.i]] EXCEPT ![k] = new]]
  BY DEF Count
<1>5. DOMAIN usage = WindowSet /\ usage[Windows[j]] \in [Keys[Windows[j]] -> Row]
  BY <1>2 DEF TypeInv
<1>6. CASE q.i = j
  <2> HIDE DEF new
  <2>1. usage'[Windows[j]] = [usage[Windows[j]] EXCEPT ![k] = new]
    <3> DEFINE u == [usage[Windows[j]] EXCEPT ![k] = new]
    <3>1. usage' = [usage EXCEPT ![Windows[j]] = u]
      BY <1>4, <1>6
    <3> HIDE DEF u
    <3>2. usage'[Windows[j]] = u
      BY <1>2, <1>5, <3>1
    <3> QED
      BY <3>2 DEF u
  <2>2. usage'[Windows[j]][key] = IF k = key THEN new ELSE usage[Windows[j]][key]
    BY <1>5, <2>1
  <2>3. CASE k = key
    <3>1. old = usage[Windows[j]][key] /\ key = Key[Windows[j]][q.now]
      BY <1>6, <2>3
    <3>2. /\ new.count = old.count + 1
          /\ new.start = IF old.count = 0 THEN Start[Windows[q.i]][q.now] ELSE old.start
      BY DEF new
    <3> HIDE DEF old
    <3> QED
      BY <1>6, <2>2, <2>3, <3>1, <3>2
  <2>4. CASE k # key
    <3>1. key # Key[Windows[j]][q.now]
      BY <1>6, <2>4
    <3> QED
      BY <1>6, <2>2, <2>4, <3>1
  <2> QED
    BY <2>3, <2>4
<1>7. CASE q.i # j
  <2> HIDE DEF new, k
  <2> QED
    BY <1>2, <1>3, <1>4, <1>5, <1>7
<1> QED
  BY <1>6, <1>7

\* A request that counts is no longer due.
LEMMA CountCounters ==
    ASSUME TypeInv, CountersInv, NEW w \in Workers, Count(w),
           NEW j \in DOMAIN Windows, NEW key \in Keys[Windows[j]]
    PROVE  CounterOK(j, key)'
<1> DEFINE q == req[w]
           k == Key[Windows[q.i]][q.now]
<1>1. PICK r : Becomes(w, r) /\ r.at = "mark" /\ r.i = q.i /\ r.now = q.now
  BY CountIs
<1>2. /\ q.at = "count" /\ q.i \in DOMAIN Windows /\ q.now \in Days
      /\ q.i \in Nat /\ j \in Nat
  BY CountIs, WindowFacts
<1>3. /\ Windows[q.i] \in WindowSet /\ k \in Keys[Windows[q.i]] /\ Windows[j] \in WindowSet
  BY <1>2, WindowFacts, KeyFacts
<1>4. Windows[q.i] = Windows[j] <=> q.i = j
  BY <1>2, PlanAssumption
<1>5. UNCHANGED day
  BY DEF Count
<1>6. usage'[Windows[j]][key].count =
          usage[Windows[j]][key].count + IF q.i = j /\ k = key THEN 1 ELSE 0
  <2>1. usage[Windows[j]][key].count \in Nat
    BY CounterTypes
  <2>2. CASE q.i = j /\ k = key
    <3>1. key = Key[Windows[j]][q.now]
      BY <2>2
    <3> QED
      BY <2>2, <3>1, CountUsage
  <2>3. CASE ~ (q.i = j /\ k = key)
    <3>1. ~ (q.i = j /\ key = Key[Windows[j]][q.now])
      BY <2>3
    <3> QED
      BY <2>1, <2>3, <3>1, CountUsage
  <2> QED
    BY <2>2, <2>3
<1>7. \A v \in Workers : req'[v] = IF v = w THEN r ELSE req[v]
  BY <1>1, Moved DEF Becomes
<1> DEFINE P == Pending(j, key)
           Q == Pending(j, key)'
<1>8. P \subseteq Workers /\ IsFiniteSet(P)
  <2>1. P \subseteq Workers
    BY DEF Pending
  <2> QED
    BY <2>1, PendingFinite
<1>9. Q \subseteq P
  BY <1>1, <1>2, <1>5, <1>7 DEF Pending, Due
<1>10. q.i = j /\ k = key => w \in P /\ w \notin Q
  BY <1>1, <1>2, <1>5, <1>7 DEF Pending, Due
<1>11. Begun(Windows[j], key)' = Begun(Windows[j], key)
  BY <1>5 DEF Begun
<1> DEFINE c == usage[Windows[j]][key].count
           d == usage'[Windows[j]][key].count
           b == Cardinality(Workers) * Cardinality(Begun(Windows[j], key))
           l == Limit[Windows[j]]
<1>12. /\ c \in Nat /\ b \in Nat /\ l \in Nat
       /\ c + Cardinality(P) <= l - 1 + b
       /\ CounterOK(j, key)' <=> d + Cardinality(Q) <= l - 1 + b
  <2>1. CounterOK(j, key)' <=> d + Cardinality(Q) <= l - 1 + b
    BY <1>11 DEF CounterOK
  <2>2. c + Cardinality(P) <= l - 1 + b
    BY DEF CounterOK, CountersInv
  <2> QED
    BY <2>1, <2>2, CounterTypes
<1> HIDE DEF P, Q, c, d, b, l, q, k
<1>13. CASE q.i = j /\ k = key
  <2>1. Q \in SUBSET (P \ {w}) /\ w \in P
    BY <1>9, <1>10, <1>13
  <2>2. IsFiniteSet(P \ {w}) /\ Cardinality(P \ {w}) = Cardinality(P) - 1
    BY <1>8, <2>1, FS_RemoveElement
  <2>3. IsFiniteSet(Q) /\ Cardinality(Q) <= Cardinality(P) - 1
    BY <2>1, <2>2, FS_Subset
  <2>4. Cardinality(Q) \in Nat /\ Cardinality(P) \in Nat /\ d = c + 1
    BY <1>6, <1>8, <1>13, <2>3, FS_CardinalityType DEF c, d
  <2> QED
    BY <1>12, <2>3, <2>4
<1>14. CASE ~ (q.i = j /\ k = key)
  <2>1. IsFiniteSet(Q) /\ Cardinality(Q) <= Cardinality(P)
    BY <1>8, <1>9, FS_Subset
  <2>2. Cardinality(Q) \in Nat /\ Cardinality(P) \in Nat /\ d = c + 0
    BY <1>6, <1>8, <1>14, <2>1, FS_CardinalityType DEF c, d
  <2> QED
    BY <1>12, <2>1, <2>2
<1> QED
  BY <1>13, <1>14

\* Multiplication by the number of periods, of which there are at most two.
LEMMA Times ==
    \A n \in Nat : \A a, b \in 0 .. 2 :
        /\ n * a \in Nat
        /\ a <= b => n * a <= n * b
        /\ a + 1 <= b => n * a + n <= n * b
<1> SUFFICES ASSUME NEW n \in Nat, NEW a \in 0 .. 2, NEW b \in 0 .. 2
             PROVE  /\ n * a \in Nat
                    /\ a <= b => n * a <= n * b
                    /\ a + 1 <= b => n * a + n <= n * b
  OBVIOUS
<1>1. a = 0 \/ a = 1 \/ a = 2
  OBVIOUS
<1>2. b = 0 \/ b = 1 \/ b = 2
  OBVIOUS
<1>3. n * 0 = 0 /\ n * 1 = n /\ n * 2 = n + n
  OBVIOUS
<1> QED
  BY <1>1, <1>2, <1>3

\* A new day is of a period that has begun, and its key is today's already, or it
\* begins a period, which may be overrun once by the requests in flight.
LEMMA NextDayCounters ==
    ASSUME TypeInv, CountersInv, NextDay,
           NEW j \in DOMAIN Windows, NEW key \in Keys[Windows[j]]
    PROVE  CounterOK(j, key)'
<1> DEFINE W == Windows[j]
           B == Begun(W, key)
           C == Begun(W, key)'
           P == Pending(j, key)
           Q == Pending(j, key)'
           n == Cardinality(Workers)
           l == Limit[W]
           c == usage[W][key].count
<1>1. /\ day \in Days /\ day' \in Days /\ day < day' /\ UNCHANGED <<usage, req>>
      /\ W \in WindowSet /\ W \in Period
  BY WindowFacts DEF NextDay, tables, TypeInv
<1>2. day \in Calendar /\ day' \in Calendar /\ day \in Nat /\ day' \in Nat /\ Days \subseteq Nat
  BY <1>1, KeyFacts
<1>3. /\ c \in Nat /\ l \in Nat /\ l >= 1 /\ n \in Nat
      /\ c + Cardinality(P) <= l - 1 + n * Cardinality(B)
      /\ Cardinality(P) \in Nat /\ Cardinality(B) \in 0 .. 2 /\ IsFiniteSet(B)
  <2>1. CounterOK(j, key)
    BY DEF CountersInv
  <2> QED
    BY <1>1, <2>1, CounterTypes, BegunBound DEF CounterOK, Begun
<1>4. CounterOK(j, key)' <=> c + Cardinality(Q) <= l - 1 + n * Cardinality(C)
  BY <1>1 DEF CounterOK
<1>5. P \subseteq Workers /\ Q \subseteq Workers
  BY DEF Pending
<1>6. IsFiniteSet(P) /\ IsFiniteSet(Q) /\ Cardinality(Q) \in Nat /\ Cardinality(Q) <= n
  BY <1>5, PendingFinite
<1>7. IsFiniteSet(C) /\ Cardinality(C) \in 0 .. 2 /\ B \subseteq C
  <2>1. IsFiniteSet(C) /\ Cardinality(C) \in 0 .. 2
    BY <1>1, BegunBound DEF PeriodsOf, Begun
  <2>2. \A e \in Days : e <= day => e <= day'
    BY <1>1, <1>2
  <2> QED
    BY <2>1, <2>2 DEF Begun, BegunBy
<1>8. Cardinality(B) <= Cardinality(C)
  BY <1>7, FS_Subset
<1>9. CASE key # Key[W][day']
  <2>1. Q \in SUBSET P
    BY <1>1, <1>9 DEF Pending, Due
  <2>2. Cardinality(Q) <= Cardinality(P)
    BY <1>6, <2>1, FS_Subset
  <2> HIDE DEF B, C, P, Q, n, l, c
  <2>3. /\ n * Cardinality(B) <= n * Cardinality(C)
        /\ n * Cardinality(B) \in Nat /\ n * Cardinality(C) \in Nat
    BY <1>3, <1>7, <1>8, Times
  <2> QED
    BY <1>3, <1>4, <1>6, <2>2, <2>3
<1>10. CASE key = Key[W][day'] /\ Start[W][day'] \in B
  <2>1. PICK e \in Days : e <= day /\ Key[W][e] = key /\ Start[W][e] = Start[W][day']
    BY <1>10 DEF Begun, BegunBy
  <2>2. /\ PeriodKey(W, e) = key /\ PeriodKey(W, day') = key
        /\ PeriodStart(W, e) = PeriodStart(W, day') /\ e \in Calendar
    <3>1. e \in Calendar /\ Key[W][e] = PeriodKey(W, e) /\ Start[W][e] = PeriodStart(W, e)
      BY <1>1, KeyFacts
    <3>2. Key[W][day'] = PeriodKey(W, day') /\ Start[W][day'] = PeriodStart(W, day')
      BY <1>1, KeyFacts
    <3> QED
      BY <1>10, <2>1, <3>1, <3>2
  <2>3. PeriodKey(W, day) = key
    BY <1>1, <1>2, <2>1, <2>2, PeriodsHaveNoGap
  <2>4. Key[W][day] = key
    BY <1>1, <2>3, KeyFacts
  <2>5. Q = P
    BY <1>1, <1>10, <2>4 DEF Pending, Due
  <2> HIDE DEF B, C, P, Q, n, l, c
  <2>6. /\ n * Cardinality(B) <= n * Cardinality(C)
        /\ n * Cardinality(B) \in Nat /\ n * Cardinality(C) \in Nat
    BY <1>3, <1>7, <1>8, Times
  <2> QED
    BY <1>3, <1>4, <1>6, <2>5, <2>6
<1>11. CASE key = Key[W][day'] /\ Start[W][day'] \notin B
  <2> DEFINE s == Start[W][day']
  <2>1. s \in C
    BY <1>1, <1>2, <1>11 DEF Begun, BegunBy
  <2> HIDE DEF s, B, C, P, Q, n, l, c
  <2>2. IsFiniteSet(B \cup {s}) /\ Cardinality(B \cup {s}) = Cardinality(B) + 1
    BY <1>3, <1>11, FS_AddElement DEF s
  <2>3. B \cup {s} \in SUBSET C
    BY <1>7, <2>1
  <2>4. Cardinality(B) + 1 <= Cardinality(C)
    BY <1>7, <2>2, <2>3, FS_Subset
  <2>5. /\ n * Cardinality(B) + n <= n * Cardinality(C)
        /\ n * Cardinality(B) \in Nat /\ n * Cardinality(C) \in Nat
    BY <1>3, <1>7, <2>4, Times
  <2> QED
    BY <1>3, <1>4, <1>6, <2>5
<1> QED
  BY <1>9, <1>10, <1>11

\* Every step keeps each counter, with what is due to it, within its bound.
LEMMA NextCounters == TypeInv /\ CountersInv /\ [Next]_vars => CountersInv'
<1> SUFFICES ASSUME TypeInv, CountersInv, [Next]_vars,
                    NEW j \in DOMAIN Windows, NEW key \in Keys[Windows[j]]
             PROVE  CounterOK(j, key)'
  BY DEF CountersInv
<1>1. ASSUME NEW w \in Workers,
             \/ \E site \in sites : CreateOrder(w, site)
             \/ CountOrders(w) \/ InsertOrder(w) \/ FindMarker(w) \/ Mark(w)
             \/ CreateSite(w) \/ NextSiteCode(w) \/ InsertSite(w) \/ Abort(w)
      PROVE  CounterOK(j, key)'
  <2>1. PICK r : Becomes(w, r) /\ (Due(r, day, j, key) => Due(req[w], day, j, key))
    BY <1>1, NoMoreDue
  <2>2. UNCHANGED <<day, usage>>
    BY <1>1 DEF CreateOrder, CountOrders, InsertOrder, FindMarker, Mark, CreateSite,
                NextSiteCode, InsertSite, Abort, tables
  <2> QED
    BY <2>1, <2>2, CountersStay
<1>2. CASE UNCHANGED vars
  <2>1. CounterOK(j, key)
    BY DEF CountersInv
  <2>2. /\ usage' = usage /\ day' = day
        /\ Pending(j, key)' = Pending(j, key)
    BY <1>2 DEF vars, tables, Pending, Due
  <2> QED
    BY <2>1, <2>2 DEF CounterOK, Begun
<1> QED
  BY <1>1, <1>2, ReadWindowCounters, CountCounters, NextDayCounters DEF Next, Step

\* At the start nothing is counted and nothing is due.
LEMMA InitCounters == Init => CountersInv
<1> SUFFICES ASSUME Init, NEW j \in DOMAIN Windows, NEW key \in Keys[Windows[j]]
             PROVE  CounterOK(j, key)
  BY DEF CountersInv
<1>1. TypeInv
  BY InitTypes
<1>2. Pending(j, key) = {}
  BY DEF Init, Pending, Due, Idle
<1>3. Cardinality(Pending(j, key)) = 0
  BY <1>2, FS_EmptySet
<1>4. usage[Windows[j]][key].count = 0
  BY WindowFacts DEF Init
<1>5. Cardinality(Workers) * Cardinality(Begun(Windows[j], key)) \in Nat
  BY <1>1, CounterTypes, Times
<1>6. Limit[Windows[j]] \in Nat /\ Limit[Windows[j]] >= 1
  BY <1>1, CounterTypes
<1> QED
  BY <1>3, <1>4, <1>5, <1>6 DEF CounterOK
-----------------------------------------------------------------------------
(* The sites. *)

\* The sites and the requests that create one are finitely many.
LEMMA SitesTypes ==
    ASSUME TypeInv
    PROVE  /\ IsFiniteSet(sites) /\ Cardinality(sites) \in Nat
           /\ Creating \subseteq Workers /\ IsFiniteSet(Creating)
           /\ Cardinality(Creating) \in Nat /\ Cardinality(Workers) \in Nat
           /\ SiteLimit \in Nat
<1>1. IsFiniteSet(1 .. MaxSiteCode)
  <2>1. 1 \in Int /\ MaxSiteCode \in Int
    BY DEF MaxSiteCode
  <2> QED
    BY <2>1, FS_Interval, Zenon
<1>2. IsFiniteSet(sites)
  BY <1>1, FS_Subset DEF TypeInv
<1>3. Creating \subseteq Workers
  BY DEF Creating
<1> QED
  BY <1>2, <1>3, FS_CardinalityType, PendingFinite, PlanAssumption

\* Every step keeps the sites, with those under way, within their bound.
LEMMA NextSites == TypeInv /\ SitesInv /\ [Next]_vars => SitesInv'
<1> SUFFICES ASSUME TypeInv, SitesInv, [Next]_vars PROVE SitesInv'
  OBVIOUS
<1> USE DEF tables
<1>1. ASSUME NEW w \in Workers, NEW r, Becomes(w, r), UNCHANGED sites,
             r.at \in {"code", "site"} => req[w].at \in {"code", "site"}
      PROVE  SitesInv'
  <2>1. \A v \in Workers : req'[v] = IF v = w THEN r ELSE req[v]
    BY <1>1, Moved DEF Becomes
  <2>2. Creating' \in SUBSET Creating
    BY <1>1, <2>1 DEF Creating
  <2>3. Cardinality(Creating') <= Cardinality(Creating) /\ IsFiniteSet(Creating')
    BY <2>2, SitesTypes, FS_Subset
  <2>4. Cardinality(Creating') \in Nat
    BY <2>3, FS_CardinalityType
  <2> QED
    BY <1>1, <2>3, <2>4, SitesTypes DEF SitesInv
<1>2. ASSUME NEW w \in Workers, CreateSite(w) PROVE SitesInv'
  <2>1. Cardinality(sites) + 1 <= SiteLimit /\ sites' = sites
    BY <1>2 DEF CreateSite
  <2>2. Creating' \subseteq Workers
    BY DEF Creating
  <2>3. Cardinality(Creating') \in Nat /\ Cardinality(Creating') <= Cardinality(Workers)
    BY <2>2, PendingFinite
  <2> QED
    BY <2>1, <2>3, SitesTypes DEF SitesInv
<1>3. ASSUME NEW w \in Workers, InsertSite(w) PROVE SitesInv'
  <2>1. /\ req[w].at = "site" /\ req[w].number \notin sites
        /\ sites' = sites \cup {req[w].number}
        /\ Becomes(w, Idle)
    BY <1>3, IdleIs DEF InsertSite, Moves
  <2>2. \A v \in Workers : req'[v] = IF v = w THEN Idle ELSE req[v]
    BY <2>1, Moved DEF Becomes
  <2>3. w \in Creating /\ Creating' \in SUBSET (Creating \ {w})
    BY <2>1, <2>2 DEF Creating, Idle
  <2>4. /\ Cardinality(sites') = Cardinality(sites) + 1
        /\ IsFiniteSet(Creating \ {w}) /\ Cardinality(Creating \ {w}) = Cardinality(Creating) - 1
    BY <2>1, <2>3, SitesTypes, FS_AddElement, FS_RemoveElement
  <2>5. IsFiniteSet(Creating') /\ Cardinality(Creating') <= Cardinality(Creating) - 1
    BY <2>3, <2>4, FS_Subset
  <2>6. Cardinality(Creating') \in Nat
    BY <2>5, FS_CardinalityType
  <2> QED
    BY <2>4, <2>5, <2>6, SitesTypes DEF SitesInv
<1>4. ASSUME NEW w \in Workers, NEW site \in sites, CreateOrder(w, site) PROVE SitesInv'
  BY <1>1, <1>4, CreateOrderIs DEF CreateOrder
<1>5. ASSUME NEW w \in Workers, ReadWindow(w) PROVE SitesInv'
  BY <1>1, <1>5, ReadWindowIs DEF ReadWindow
<1>6. ASSUME NEW w \in Workers, CountOrders(w) PROVE SitesInv'
  BY <1>1, <1>6, CountOrdersIs DEF CountOrders
<1>7. ASSUME NEW w \in Workers, InsertOrder(w) PROVE SitesInv'
  BY <1>1, <1>7, InsertOrderIs DEF InsertOrder
<1>8. ASSUME NEW w \in Workers, FindMarker(w) PROVE SitesInv'
  BY <1>1, <1>8, FindMarkerIs DEF FindMarker, Idle
<1>9. ASSUME NEW w \in Workers, Count(w) PROVE SitesInv'
  BY <1>1, <1>9, CountIs DEF Count
<1>10. ASSUME NEW w \in Workers, Mark(w) PROVE SitesInv'
  BY <1>1, <1>10, MarkIs DEF Mark, Idle
<1>11. ASSUME NEW w \in Workers, NextSiteCode(w) PROVE SitesInv'
  BY <1>1, <1>11, NextSiteCodeIs DEF NextSiteCode
<1>12. ASSUME NEW w \in Workers, Abort(w) PROVE SitesInv'
  BY <1>1, <1>12, IdleIs DEF Abort, Idle
<1>13. ASSUME UNCHANGED <<sites, req>> PROVE SitesInv'
  BY <1>13 DEF SitesInv, Creating
<1> QED
  BY <1>2, <1>3, <1>4, <1>5, <1>6, <1>7, <1>8, <1>9, <1>10, <1>11, <1>12, <1>13
     DEF Next, Step, NextDay, vars

\* At the start there is the site that comes with the tenant.
LEMMA InitSites == Init => SitesInv
<1> SUFFICES ASSUME Init PROVE SitesInv
  OBVIOUS
<1>1. Creating = {} /\ sites = {1}
  BY DEF Init, Creating, Idle
<1>2. Cardinality(Creating) = 0 /\ Cardinality(sites) = 1
  BY <1>1, FS_EmptySet, FS_Singleton
<1>3. Cardinality(Workers) \in Nat /\ Cardinality(Workers) >= 1
  BY PendingFinite
<1>4. SiteLimit \in Nat /\ SiteLimit >= 1
  BY PlanAssumption
<1> QED
  BY <1>2, <1>3, <1>4 DEF SitesInv

-----------------------------------------------------------------------------
\* The types, with what a request at each step holds, are invariant.
THEOREM TypesInduct == Spec => []TypeInv
<1>1. Init => TypeInv
  BY InitTypes
<1>2. TypeInv /\ [Next]_vars => TypeInv'
  BY NextTypes
<1> QED
  BY <1>1, <1>2, PTL DEF Spec

\* They imply the type invariant of the specification.
LEMMA TypeInvImplies == TypeInv => TypeOK
<1> SUFFICES ASSUME TypeInv PROVE TypeOK
  OBVIOUS
<1>1. \A o \in orders : o.day \in Days /\ o.ref[1] \in sites /\ o.ref[3] \in Nat \ {0}
  BY DEF TypeInv, OrderOK
<1>2. \A window \in WindowSet : \A key \in Keys[window] : usage[window][key].count \in Nat
  BY DEF TypeInv, Row
<1>3. \A w \in Workers : req[w].at \in Steps
  BY FieldsOf DEF TypeInv
<1> QED
  BY <1>1, <1>2, <1>3 DEF TypeOK, TypeInv

\* A quota is overrun by no more than the requests in flight in each period: the
\* counters of QuotaService.assertWithinQuota and the sites of SiteService.create.
THEOREM OverrunAlwaysBounded == Spec => []OverrunBounded
<1>1. Init => CountersInv /\ SitesInv
  BY InitCounters, InitSites
<1>2. TypeInv /\ CountersInv /\ SitesInv /\ [Next]_vars => CountersInv' /\ SitesInv'
  BY NextCounters, NextSites
<1>3. TypeInv /\ CountersInv /\ SitesInv => OverrunBounded
  <2> SUFFICES ASSUME TypeInv, CountersInv, SitesInv PROVE OverrunBounded
    OBVIOUS
  <2>1. ASSUME NEW window \in WindowSet, NEW key \in Keys[window]
        PROVE  usage[window][key].count
                   <= Limit[window] + PeriodsOf(window, key) * Cardinality(Workers) - 1
    <3>1. PICK j \in DOMAIN Windows : Windows[j] = window
      BY WindowFacts
    <3> DEFINE b == Cardinality(Begun(window, key))
               n == Cardinality(Workers)
               p == PeriodsOf(window, key)
               c == usage[window][key].count
               q == Cardinality(Pending(j, key))
    <3>2. c + q <= Limit[window] - 1 + n * b
      BY <3>1 DEF CountersInv, CounterOK
    <3>3. c \in Nat /\ q \in Nat /\ n \in Nat /\ Limit[window] \in Nat
      BY <3>1, CounterTypes
    <3>4. b \in 0 .. 2 /\ p \in 0 .. 2 /\ b <= p
      BY BegunBound DEF Begun, PeriodsOf
    <3> HIDE DEF b, n, p, c, q
    <3>5. n * b <= n * p /\ n * b \in Nat /\ n * p \in Nat /\ n * p = p * n
      BY <3>3, <3>4, Times
    <3>6. c <= Limit[window] + p * n - 1
      BY <3>2, <3>3, <3>5
    <3> QED
      BY <3>6 DEF c, p, n
  <2>2. Cardinality(sites) <= SiteLimit + Cardinality(Workers) - 1
    BY SitesTypes DEF SitesInv
  <2> QED
    BY <2>1, <2>2, TypeInvImplies DEF OverrunBounded
<1> QED
  BY <1>1, <1>2, <1>3, TypesInduct, PTL DEF Spec

-----------------------------------------------------------------------------
(* NeverOvercharged. *)

\* A run has finitely many keys, one per date at most.
LEMMA KeysFinite == \A window \in WindowSet : IsFiniteSet(Keys[window])
<1> SUFFICES ASSUME NEW window \in WindowSet PROVE IsFiniteSet(Keys[window])
  OBVIOUS
<1>1. IsFiniteSet(Calendar)
  <2>1. 0 \in Int /\ YearStart[LastYear + 1] - 4 \in Int
    BY YearStarts DEF LastYear
  <2> QED
    BY <2>1, FS_Interval, Zenon DEF Calendar
<1>2. IsFiniteSet(Days)
  BY <1>1, FS_Subset, PlanAssumption
<1> DEFINE f == Key[window]
<1>3. f \in Surjection(Days, Keys[window])
  <2>1. f = [d \in Days |-> PeriodKey(window, d)]
    BY DEF Key
  <2>2. Keys[window] = {f[d] : d \in Days}
    BY DEF Keys
  <2> HIDE DEF f
  <2> QED
    BY <2>1, <2>2 DEF Surjection
<1> HIDE DEF f
<1> QED
  BY <1>2, <1>3, FS_Surjection

\* The requests whose order the j-th window has still to count.
ToCharge(j) ==
    {w \in Workers : \/ req[w].at \in {"marker", "count"} /\ req[w].i <= j
                     \/ req[w].at = "mark" /\ req[w].i < j}

Charged(j) == Total(usage[Windows[j]], Keys[Windows[j]])

ChargesInv ==
    \A j \in DOMAIN Windows : Charged(j) + Cardinality(ToCharge(j)) <= Cardinality(orders)

\* The numbers of the charges are naturals.
LEMMA ChargeTypes ==
    ASSUME TypeInv, NEW j \in DOMAIN Windows
    PROVE  /\ Charged(j) \in Nat /\ Cardinality(orders) \in Nat
           /\ ToCharge(j) \subseteq Workers
           /\ IsFiniteSet(ToCharge(j)) /\ Cardinality(ToCharge(j)) \in Nat
           /\ IsFiniteSet(Keys[Windows[j]])
           /\ \A key \in Keys[Windows[j]] : usage[Windows[j]][key].count \in Nat
<1>1. Windows[j] \in WindowSet /\ IsFiniteSet(Keys[Windows[j]])
  BY WindowFacts, KeysFinite
<1>2. \A key \in Keys[Windows[j]] : usage[Windows[j]][key].count \in Nat
  BY CounterTypes
<1>3. Charged(j) \in Nat
  BY <1>1, <1>2, TotalIsNat DEF Charged
<1>4. ToCharge(j) \subseteq Workers
  BY DEF ToCharge
<1>5. Cardinality(orders) \in Nat
  BY FS_CardinalityType DEF TypeInv
<1> QED
  BY <1>1, <1>2, <1>3, <1>4, <1>5, PendingFinite

\* Request r has still to be counted by the j-th window.
Uncharged(r, j) ==
    \/ r.at \in {"marker", "count"} /\ r.i <= j
    \/ r.at = "mark" /\ r.i < j

\* A step after which its request has no more to be counted.
LEMMA ChargesStay ==
    ASSUME TypeInv, ChargesInv, NEW w \in Workers, NEW r, Becomes(w, r),
           UNCHANGED <<orders, usage>>, NEW j \in DOMAIN Windows,
           Uncharged(r, j) => Uncharged(req[w], j)
    PROVE  Charged(j)' + Cardinality(ToCharge(j)') <= Cardinality(orders')
<1>1. ToCharge(j)' \subseteq ToCharge(j)
  <2>1. \A v \in Workers : req'[v] = IF v = w THEN r ELSE req[v]
    BY Moved DEF Becomes
  <2> QED
    BY <2>1 DEF ToCharge, Uncharged
<1>2. /\ IsFiniteSet(ToCharge(j)')
      /\ Cardinality(ToCharge(j)') <= Cardinality(ToCharge(j))
  BY <1>1, ChargeTypes, FS_Subset
<1>3. Cardinality(ToCharge(j)') \in Nat
  BY <1>2, FS_CardinalityType
<1>4. Charged(j)' = Charged(j)
  BY DEF Charged
<1>5. Charged(j) + Cardinality(ToCharge(j)) <= Cardinality(orders)
  BY DEF ChargesInv
<1> QED
  BY <1>2, <1>3, <1>4, <1>5, ChargeTypes

\* No step but the insert of an order leaves more to be counted.
LEMMA NoMoreCharges ==
    ASSUME TypeInv, NEW w \in Workers,
           \/ \E site \in sites : CreateOrder(w, site)
           \/ ReadWindow(w) \/ CountOrders(w) \/ FindMarker(w) \/ Mark(w)
           \/ CreateSite(w) \/ NextSiteCode(w) \/ InsertSite(w) \/ Abort(w),
           NEW j \in DOMAIN Windows
    PROVE  \E r : Becomes(w, r) /\ (Uncharged(r, j) => Uncharged(req[w], j))
<1>1. j \in Nat /\ req[w].i \in Nat
  BY WindowFacts, FieldsOf DEF TypeInv
<1>2. ~ Uncharged(Idle, j)
  BY DEF Uncharged, Idle
<1>3. CASE \E site \in sites : CreateOrder(w, site)
  BY <1>3, CreateOrderIs DEF Uncharged
<1>4. CASE ReadWindow(w)
  BY <1>4, ReadWindowIs DEF Uncharged
<1>5. CASE CountOrders(w)
  BY <1>5, CountOrdersIs DEF Uncharged
<1>6. CASE FindMarker(w)
  BY <1>1, <1>2, <1>6, FindMarkerIs DEF Uncharged
<1>7. CASE Mark(w)
  BY <1>1, <1>2, <1>7, MarkIs DEF Uncharged
<1>8. CASE CreateSite(w)
  BY <1>8, CreateSiteIs DEF Uncharged
<1>9. CASE NextSiteCode(w)
  BY <1>9, NextSiteCodeIs DEF Uncharged
<1>10. CASE InsertSite(w) \/ Abort(w)
  BY <1>2, <1>10, IdleIs DEF InsertSite, Abort, Moves
<1> QED
  BY <1>3, <1>4, <1>5, <1>6, <1>7, <1>8, <1>9, <1>10

\* The insert of an order adds one to the orders and one to what is to be counted.
LEMMA InsertOrderCharges ==
    ASSUME TypeInv, ChargesInv, NEW w \in Workers, InsertOrder(w),
           NEW j \in DOMAIN Windows
    PROVE  Charged(j)' + Cardinality(ToCharge(j)') <= Cardinality(orders')
<1>1. PICK r : Becomes(w, r) /\ r.at = "marker" /\ r.i = 1
  BY InsertOrderIs
<1>2. \A v \in Workers : req'[v] = IF v = w THEN r ELSE req[v]
  BY <1>1, Moved DEF Becomes
<1>3. ToCharge(j)' \subseteq ToCharge(j) \cup {w} /\ w \notin ToCharge(j)
  BY <1>2, InsertOrderIs DEF ToCharge
<1>4. /\ IsFiniteSet(ToCharge(j) \cup {w})
      /\ Cardinality(ToCharge(j) \cup {w}) = Cardinality(ToCharge(j)) + 1
  BY <1>3, ChargeTypes, FS_AddElement
<1>5. /\ IsFiniteSet(ToCharge(j)')
      /\ Cardinality(ToCharge(j)') <= Cardinality(ToCharge(j)) + 1
  BY <1>3, <1>4, FS_Subset
<1>6. Cardinality(ToCharge(j)') \in Nat
  BY <1>5, FS_CardinalityType
<1>7. Cardinality(orders') = Cardinality(orders) + 1
  <2> DEFINE o == [day |-> req[w].now, ref |-> Reference(req[w])]
  <2>1. orders' = orders \cup {o} /\ \A p \in orders : p.ref # Reference(req[w])
    BY DEF InsertOrder
  <2>2. o \notin orders
    BY <2>1
  <2> HIDE DEF o
  <2> QED
    BY <2>1, <2>2, FS_AddElement DEF TypeInv
<1>8. Charged(j)' = Charged(j)
  BY DEF Charged, InsertOrder
<1>9. Charged(j) + Cardinality(ToCharge(j)) <= Cardinality(orders)
  BY DEF ChargesInv
<1> QED
  BY <1>5, <1>6, <1>7, <1>8, <1>9, ChargeTypes

\* A count takes its order from what is to be counted.
LEMMA CountCharges ==
    ASSUME TypeInv, ChargesInv, NEW w \in Workers, Count(w),
           NEW j \in DOMAIN Windows
    PROVE  Charged(j)' + Cardinality(ToCharge(j)') <= Cardinality(orders')
<1> DEFINE q == req[w]
           T == ToCharge(j)
           U == ToCharge(j)'
<1>1. PICK r : Becomes(w, r) /\ r.at = "mark" /\ r.i = q.i /\ r.now = q.now
  BY CountIs
<1>2. /\ q.at = "count" /\ q.i \in DOMAIN Windows /\ q.now \in Days
      /\ q.i \in Nat /\ j \in Nat
  BY CountIs, WindowFacts
<1>3. \A v \in Workers : req'[v] = IF v = w THEN r ELSE req[v]
  BY <1>1, Moved DEF Becomes
<1>4. UNCHANGED orders
  BY DEF Count
<1>5. U \subseteq T
  BY <1>1, <1>2, <1>3 DEF ToCharge
<1>6. Charged(j) + Cardinality(T) <= Cardinality(orders)
  BY DEF ChargesInv
<1>7. CASE q.i = j
  <2> DEFINE k == Key[Windows[j]][q.now]
             u == usage[Windows[j]]
             v == usage'[Windows[j]]
             K == Keys[Windows[j]]
  <2>1. k \in K
    BY <1>2, WindowFacts, KeyFacts
  <2>2. \A key \in K : u[key].count \in Nat
    BY ChargeTypes
  <2>3. \A key \in K : v[key].count = u[key].count + (IF key = k THEN 1 ELSE 0)
    <3> SUFFICES ASSUME NEW key \in K
                 PROVE  v[key].count = u[key].count + (IF key = k THEN 1 ELSE 0)
      OBVIOUS
    <3>1. CASE key = k
      BY <1>7, <3>1, CountUsage
    <3>2. CASE key # k
      BY <1>7, <2>2, <3>2, CountUsage
    <3> QED
      BY <3>1, <3>2
  <2>4. Charged(j)' = Charged(j) + 1
    <3>1. IsFiniteSet(K)
      BY ChargeTypes
    <3>2. Charged(j) = Total(u, K) /\ Charged(j)' = Total(v, K)
      BY DEF Charged
    <3> HIDE DEF u, v, K, k
    <3> QED
      BY <2>1, <2>2, <2>3, <3>1, <3>2, TotalOfOneMore
  <2>5. w \in T /\ w \notin U
    BY <1>1, <1>2, <1>3, <1>7 DEF ToCharge
  <2>6. U \subseteq T \ {w} /\ IsFiniteSet(T \ {w}) /\ Cardinality(T \ {w}) = Cardinality(T) - 1
    BY <1>5, <2>5, ChargeTypes, FS_RemoveElement
  <2>7. IsFiniteSet(U) /\ Cardinality(U) <= Cardinality(T) - 1
    BY <2>6, FS_Subset
  <2>8. Cardinality(U) \in Nat
    BY <2>7, FS_CardinalityType
  <2> QED
    BY <1>4, <1>6, <2>4, <2>7, <2>8, ChargeTypes
<1>8. CASE q.i # j
  <2>1. usage'[Windows[j]] = usage[Windows[j]]
    <3>1. PICK key \in Keys[Windows[j]] : TRUE
      BY KeyFacts, WindowFacts DEF TypeInv
    <3> QED
      BY <1>8, CountUsage
  <2>2. Charged(j)' = Charged(j)
    BY <2>1 DEF Charged
  <2>3. IsFiniteSet(U) /\ Cardinality(U) <= Cardinality(T)
    BY <1>5, ChargeTypes, FS_Subset
  <2>4. Cardinality(U) \in Nat
    BY <2>3, FS_CardinalityType
  <2> QED
    BY <1>4, <1>6, <2>2, <2>3, <2>4, ChargeTypes
<1> QED
  BY <1>7, <1>8

\* Every step keeps what is charged and what is to be charged within the orders.
LEMMA NextCharges == TypeInv /\ ChargesInv /\ [Next]_vars => ChargesInv'
<1> SUFFICES ASSUME TypeInv, ChargesInv, [Next]_vars, NEW j \in DOMAIN Windows
             PROVE  Charged(j)' + Cardinality(ToCharge(j)') <= Cardinality(orders')
  BY DEF ChargesInv
<1>1. ASSUME NEW w \in Workers,
             \/ \E site \in sites : CreateOrder(w, site)
             \/ ReadWindow(w) \/ CountOrders(w) \/ FindMarker(w) \/ Mark(w)
             \/ CreateSite(w) \/ NextSiteCode(w) \/ InsertSite(w) \/ Abort(w)
      PROVE  Charged(j)' + Cardinality(ToCharge(j)') <= Cardinality(orders')
  <2>1. PICK r : Becomes(w, r) /\ (Uncharged(r, j) => Uncharged(req[w], j))
    BY <1>1, NoMoreCharges
  <2>2. UNCHANGED <<orders, usage>>
    BY <1>1 DEF CreateOrder, ReadWindow, CountOrders, FindMarker, Mark, CreateSite,
                NextSiteCode, InsertSite, Abort, tables
  <2> QED
    BY <2>1, <2>2, ChargesStay
<1>2. CASE NextDay \/ UNCHANGED vars
  <2>1. Charged(j) + Cardinality(ToCharge(j)) <= Cardinality(orders)
    BY DEF ChargesInv
  <2>2. UNCHANGED <<orders, usage, req>>
    BY <1>2 DEF NextDay, vars, tables
  <2>3. ToCharge(j)' = ToCharge(j) /\ Charged(j)' = Charged(j)
    BY <2>2 DEF ToCharge, Charged
  <2> QED
    BY <2>1, <2>2, <2>3
<1> QED
  BY <1>1, <1>2, InsertOrderCharges, CountCharges DEF Next, Step

\* At the start nothing is charged.
LEMMA InitCharges == Init => ChargesInv
<1> SUFFICES ASSUME Init, NEW j \in DOMAIN Windows
             PROVE  Charged(j) + Cardinality(ToCharge(j)) <= Cardinality(orders)
  BY DEF ChargesInv
<1>1. Windows[j] \in WindowSet /\ IsFiniteSet(Keys[Windows[j]])
  BY WindowFacts, KeysFinite
<1>2. \A key \in Keys[Windows[j]] : usage[Windows[j]][key].count = 0
  BY <1>1 DEF Init
<1>3. Charged(j) = 0
  BY <1>1, <1>2, TotalOfNone DEF Charged
<1>4. ToCharge(j) = {} /\ orders = {}
  BY DEF Init, ToCharge, Idle
<1>5. Cardinality(ToCharge(j)) = 0 /\ Cardinality(orders) = 0
  BY <1>4, FS_EmptySet
<1> QED
  BY <1>3, <1>5

\* incrementUsage charges no order twice to a kind of window, and none that is not
\* inserted: in all its keys a window counts at most the orders there are.
THEOREM NeverOverchargedAtAll == Spec => []NeverOvercharged
<1>1. TypeInv /\ ChargesInv => NeverOvercharged
  <2> SUFFICES ASSUME TypeInv, ChargesInv, NEW window \in WindowSet
               PROVE  Total(usage[window], Keys[window]) <= Cardinality(orders)
    BY DEF NeverOvercharged, Total
  <2>1. PICK j \in DOMAIN Windows : Windows[j] = window
    BY WindowFacts
  <2>2. Charged(j) + Cardinality(ToCharge(j)) <= Cardinality(orders)
    BY DEF ChargesInv
  <2>3. Charged(j) <= Cardinality(orders)
    BY <2>2, ChargeTypes
  <2> QED
    BY <2>1, <2>3 DEF Charged
<1>2. Init => ChargesInv
  BY InitCharges
<1>3. TypeInv /\ ChargesInv /\ [Next]_vars => ChargesInv'
  BY NextCharges
<1> QED
  BY <1>1, <1>2, <1>3, TypesInduct, PTL DEF Spec

-----------------------------------------------------------------------------
(* ReferencesGapless. *)

OrdersOf(site, month) == {o \in orders : o.ref[1] = site /\ o.ref[2] = month}

Gapless(site, month) ==
    {o.ref[3] : o \in OrdersOf(site, month)} = 1 .. Cardinality(OrdersOf(site, month))

\* A number that is handed out is at most one more than the orders there are by now.
NumberOK(r) ==
    r.at = "order" => r.number <= Cardinality(OrdersOf(r.site, Month(r.now))) + 1

ReferencesInv ==
    /\ \A site \in 1 .. MaxSiteCode, month \in Months : Gapless(site, month)
    /\ \A w \in Workers : NumberOK(req[w])

\* The orders of a site in a month are finitely many.
LEMMA OrdersOfFinite ==
    ASSUME TypeInv
    PROVE  \A site, month : /\ IsFiniteSet(OrdersOf(site, month))
                            /\ Cardinality(OrdersOf(site, month)) \in Nat
<1> SUFFICES ASSUME NEW site, NEW month
             PROVE  /\ IsFiniteSet(OrdersOf(site, month))
                    /\ Cardinality(OrdersOf(site, month)) \in Nat
  OBVIOUS
<1>1. OrdersOf(site, month) \subseteq orders
  BY DEF OrdersOf
<1> QED
  BY <1>1, FS_Subset, FS_CardinalityType DEF TypeInv

\* A step that leaves the orders alone and hands out no number, or the next one.
LEMMA ReferencesStay ==
    ASSUME TypeInv, ReferencesInv, NEW w \in Workers, NEW r, Becomes(w, r),
           UNCHANGED orders, NumberOK(r)
    PROVE  ReferencesInv'
<1>1. \A v \in Workers : req'[v] = IF v = w THEN r ELSE req[v]
  BY Moved DEF Becomes
<1>2. \A site, month : OrdersOf(site, month)' = OrdersOf(site, month)
  BY DEF OrdersOf
<1>3. \A v \in Workers : NumberOK(req'[v])
  BY <1>1 DEF ReferencesInv
<1>4. \A v \in Workers : NumberOK(req[v])'
  BY <1>2, <1>3 DEF NumberOK
<1>5. \A site \in 1 .. MaxSiteCode, month \in Months : Gapless(site, month)'
  BY <1>2 DEF ReferencesInv, Gapless
<1> QED
  BY <1>4, <1>5 DEF ReferencesInv

\* The orders NextNumber counts are those with the site and the month in their reference.
LEMMA NextNumberIs ==
    ASSUME TypeInv, NEW site
    PROVE  NextNumber(site, day) = Cardinality(OrdersOf(site, Month(day))) + 1
<1> DEFINE C == {o \in orders : o.ref[1] = site /\ Month(o.day) = Month(day)}
<1>1. C = OrdersOf(site, Month(day))
  BY DEF OrdersOf, TypeInv, OrderOK
<1>2. Cardinality(OrdersOf(site, Month(day))) \in Nat
  BY OrdersOfFinite
<1>3. NextNumber(site, day) = 1 + Cardinality(C)
  BY DEF NextNumber
<1> HIDE DEF C
<1> QED
  BY <1>1, <1>2, <1>3

\* An insert takes the next number: those up to the orders there are, are taken.
LEMMA InsertOrderReferences ==
    ASSUME TypeInv, ReferencesInv, NEW w \in Workers, InsertOrder(w)
    PROVE  ReferencesInv'
<1>1. PICK r : Becomes(w, r) /\ r.at = "marker"
  BY InsertOrderIs
<1>2. \A v \in Workers : req'[v] = IF v = w THEN r ELSE req[v]
  BY <1>1, Moved DEF Becomes
<1>3. PICK s \in 1 .. MaxSiteCode, m \in Months, n \in Nat \ {0}, d \in Days :
          s = req[w].site /\ m = Month(req[w].now) /\ n = req[w].number /\ d = req[w].now
  BY InsertOrderIs, KeyFacts DEF TypeInv
<1> DEFINE o == [day |-> d, ref |-> <<s, m, n>>]
           M == OrdersOf(s, m)
           c == Cardinality(M)
<1>4. orders' = orders \cup {o} /\ \A p \in orders : p.ref # <<s, m, n>>
  BY <1>3 DEF InsertOrder, Reference
<1>5. n <= c + 1 /\ c \in Nat /\ IsFiniteSet(M) /\ Gapless(s, m)
  BY <1>3, InsertOrderIs, OrdersOfFinite DEF ReferencesInv, NumberOK
<1>6. n \notin {p.ref[3] : p \in M}
  <2> SUFFICES ASSUME NEW p \in M, p.ref[3] = n PROVE FALSE
    OBVIOUS
  <2>1. p \in orders /\ p.ref[1] = s /\ p.ref[2] = m
    BY DEF OrdersOf
  <2>2. p.ref = <<p.ref[1], p.ref[2], p.ref[3]>>
    BY <2>1 DEF TypeInv, OrderOK
  <2> QED
    BY <1>4, <2>1, <2>2
<1> HIDE DEF M, c
<1>7. n = c + 1
  <2>1. n \notin 1 .. c
    BY <1>5, <1>6 DEF Gapless, M, c
  <2> QED
    BY <1>5, <2>1
<1>8. /\ OrdersOf(s, m)' = M \cup {o} /\ o \notin M
      /\ \A site, month :
             site # s \/ month # m => OrdersOf(site, month)' = OrdersOf(site, month)
  <2>1. o.ref[1] = s /\ o.ref[2] = m /\ o.ref[3] = n /\ o.ref = <<s, m, n>>
    OBVIOUS
  <2>2. o \notin orders
    BY <1>4, <2>1
  <2> HIDE DEF o
  <2> QED
    BY <1>4, <2>1, <2>2 DEF OrdersOf, M
<1>9. Cardinality(OrdersOf(s, m)') = c + 1
  <2> HIDE DEF o
  <2> QED
    BY <1>5, <1>8, FS_AddElement DEF c
<1>10. Gapless(s, m)'
  <2>1. {p.ref[3] : p \in OrdersOf(s, m)'} = {p.ref[3] : p \in M} \cup {n}
    <3>1. o.ref[3] = n
      OBVIOUS
    <3> HIDE DEF o
    <3> QED
      BY <1>8, <3>1 DEF M
  <2>2. {p.ref[3] : p \in M} = 1 .. c
    BY <1>5 DEF Gapless, M, c
  <2>3. (1 .. c) \cup {n} = 1 .. c + 1
    BY <1>5, <1>7
  <2> QED
    BY <1>9, <2>1, <2>2, <2>3 DEF Gapless
<1>11. \A site \in 1 .. MaxSiteCode, month \in Months : Gapless(site, month)'
  <2> SUFFICES ASSUME NEW site \in 1 .. MaxSiteCode, NEW month \in Months
               PROVE  Gapless(site, month)'
    OBVIOUS
  <2>1. CASE site = s /\ month = m
    BY <1>10, <2>1
  <2>2. CASE site # s \/ month # m
    BY <1>8, <2>2 DEF ReferencesInv, Gapless
  <2> QED
    BY <2>1, <2>2
<1>12. \A v \in Workers : NumberOK(req[v])'
  <2> SUFFICES ASSUME NEW v \in Workers, req'[v].at = "order"
               PROVE  req'[v].number
                          <= Cardinality(OrdersOf(req[v].site, Month(req[v].now))') + 1
    BY DEF NumberOK
  <2>1. req'[v] = req[v] /\ NumberOK(req[v])
    BY <1>1, <1>2 DEF ReferencesInv
  <2>2. PICK t, l : t = req[v].site /\ l = Month(req[v].now)
    OBVIOUS
  <2>3. req[v].number <= Cardinality(OrdersOf(t, l)) + 1
    BY <2>1, <2>2 DEF NumberOK
  <2>4. req[v].number \in Nat /\ Cardinality(OrdersOf(t, l)) \in Nat
    BY OrdersOfFinite, FieldsOf DEF TypeInv
  <2>5. Cardinality(OrdersOf(t, l)) <= Cardinality(OrdersOf(t, l)')
    <3>1. CASE t = s /\ l = m
      <4>1. Cardinality(OrdersOf(t, l)') = c + 1
        BY <1>9, <3>1
      <4> QED
        BY <1>5, <3>1, <4>1 DEF M, c
    <3>2. CASE t # s \/ l # m
      BY <1>8, <2>4, <3>2
    <3> QED
      BY <3>1, <3>2
  <2>6. Cardinality(OrdersOf(t, l)') \in Nat
    <3>1. CASE t = s /\ l = m
      <4>1. Cardinality(OrdersOf(t, l)') = c + 1
        BY <1>9, <3>1
      <4> QED
        BY <1>5, <4>1
    <3>2. CASE t # s \/ l # m
      BY <1>8, <2>4, <3>2
    <3> QED
      BY <3>1, <3>2
  <2>7. req[v].number <= Cardinality(OrdersOf(t, l)') + 1
    BY <2>3, <2>4, <2>5, <2>6
  <2>8. OrdersOf(req[v].site, Month(req[v].now))' = OrdersOf(t, l)'
    BY <2>1, <2>2
  <2> QED
    BY <2>1, <2>7, <2>8
<1> QED
  BY <1>11, <1>12 DEF ReferencesInv

\* Every step keeps the references gapless and the numbers handed out in range.
LEMMA NextReferences == TypeInv /\ ReferencesInv /\ [Next]_vars => ReferencesInv'
<1> SUFFICES ASSUME TypeInv, ReferencesInv, [Next]_vars PROVE ReferencesInv'
  OBVIOUS
<1> USE DEF tables
<1>1. ASSUME NEW w \in Workers, NEW r, Becomes(w, r), UNCHANGED orders, r.at # "order"
      PROVE  ReferencesInv'
  BY <1>1, ReferencesStay DEF NumberOK
<1>2. ASSUME NEW w \in Workers, NEW site \in sites, CreateOrder(w, site) PROVE ReferencesInv'
  BY <1>1, <1>2, CreateOrderIs DEF CreateOrder
<1>3. ASSUME NEW w \in Workers, ReadWindow(w) PROVE ReferencesInv'
  BY <1>1, <1>3, ReadWindowIs DEF ReadWindow
<1>4. ASSUME NEW w \in Workers, CountOrders(w) PROVE ReferencesInv'
  <2>1. PICK r : /\ Becomes(w, r) /\ r.now = day
                 /\ r.number = NextNumber(r.site, day)
    BY <1>4, CountOrdersIs
  <2>2. Cardinality(OrdersOf(r.site, Month(day))) \in Nat
    BY OrdersOfFinite
  <2>3. NumberOK(r)
    BY <2>1, <2>2, NextNumberIs DEF NumberOK
  <2> QED
    BY <1>4, <2>1, <2>3, ReferencesStay DEF CountOrders
<1>5. ASSUME NEW w \in Workers, FindMarker(w) PROVE ReferencesInv'
  BY <1>1, <1>5, FindMarkerIs DEF FindMarker, Idle
<1>6. ASSUME NEW w \in Workers, Count(w) PROVE ReferencesInv'
  BY <1>1, <1>6, CountIs DEF Count
<1>7. ASSUME NEW w \in Workers, Mark(w) PROVE ReferencesInv'
  BY <1>1, <1>7, MarkIs DEF Mark, Idle
<1>8. ASSUME NEW w \in Workers, CreateSite(w) PROVE ReferencesInv'
  BY <1>1, <1>8, CreateSiteIs DEF CreateSite
<1>9. ASSUME NEW w \in Workers, NextSiteCode(w) PROVE ReferencesInv'
  BY <1>1, <1>9, NextSiteCodeIs DEF NextSiteCode
<1>10. ASSUME NEW w \in Workers, InsertSite(w) \/ Abort(w) PROVE ReferencesInv'
  BY <1>1, <1>10, IdleIs DEF InsertSite, Abort, Moves, Idle
<1>11. ASSUME UNCHANGED <<orders, req>> PROVE ReferencesInv'
  BY <1>11 DEF ReferencesInv, Gapless, NumberOK, OrdersOf
<1> QED
  BY <1>2, <1>3, <1>4, <1>5, <1>6, <1>7, <1>8, <1>9, <1>10, <1>11, InsertOrderReferences
     DEF Next, Step, NextDay, vars

\* At the start there is no reference.
LEMMA InitReferences == Init => ReferencesInv
<1> SUFFICES ASSUME Init PROVE ReferencesInv
  OBVIOUS
<1>1. \A site, month : OrdersOf(site, month) = {}
  BY DEF Init, OrdersOf
<1>2. \A site, month : Gapless(site, month)
  <2> SUFFICES ASSUME NEW site, NEW month PROVE Gapless(site, month)
    OBVIOUS
  <2>1. Cardinality(OrdersOf(site, month)) = 0
    BY <1>1, FS_EmptySet
  <2>2. {o.ref[3] : o \in OrdersOf(site, month)} = {}
    BY <1>1
  <2>3. 1 .. 0 = {}
    OBVIOUS
  <2> QED
    BY <2>1, <2>2, <2>3 DEF Gapless
<1>3. \A w \in Workers : NumberOK(req[w])
  BY DEF Init, NumberOK, Idle
<1> QED
  BY <1>2, <1>3 DEF ReferencesInv

\* generateOrderReference with the unique index: the references of a site in a month
\* are 1, 2, 3, ... whatever creations run at the same time, fail or die.
THEOREM ReferencesAlwaysGapless == Spec => []ReferencesGapless
<1>1. TypeInv /\ ReferencesInv => ReferencesGapless
  BY DEF TypeInv, ReferencesInv, Gapless, OrdersOf, ReferencesGapless
<1> QED
  BY <1>1, InitReferences, NextReferences, TypesInduct, PTL DEF Spec

-----------------------------------------------------------------------------
(* CountersStartAfresh. *)

\* A counter in use was started in a period of its key.
StartsInv ==
    \A j \in DOMAIN Windows : \A key \in Keys[Windows[j]] :
        LET row == usage[Windows[j]][key]
        IN  row.count > 0 => \E d \in Days : /\ Key[Windows[j]][d] = key
                                             /\ row.start = Start[Windows[j]][d]

\* A count starts a counter in the period of its date, or leaves its start alone.
LEMMA CountStarts ==
    ASSUME TypeInv, StartsInv, NEW w \in Workers, Count(w)
    PROVE  StartsInv'
<1> SUFFICES ASSUME NEW j \in DOMAIN Windows, NEW key \in Keys[Windows[j]],
                    usage'[Windows[j]][key].count > 0
             PROVE  \E d \in Days : /\ Key[Windows[j]][d] = key
                                    /\ usage'[Windows[j]][key].start = Start[Windows[j]][d]
  BY DEF StartsInv
<1>1. usage[Windows[j]][key].count \in Nat
  BY CounterTypes
<1>2. usage[Windows[j]][key].count > 0 =>
          \E d \in Days : /\ Key[Windows[j]][d] = key
                          /\ usage[Windows[j]][key].start = Start[Windows[j]][d]
  BY DEF StartsInv
<1>3. req[w].now \in Days
  BY CountIs
<1>4. CASE req[w].i = j /\ key = Key[Windows[j]][req[w].now]
  <2>1. usage'[Windows[j]][key].start =
            IF usage[Windows[j]][key].count = 0 THEN Start[Windows[j]][req[w].now]
            ELSE usage[Windows[j]][key].start
    BY <1>4, CountUsage
  <2>2. CASE usage[Windows[j]][key].count = 0
    BY <1>3, <1>4, <2>1, <2>2
  <2>3. CASE usage[Windows[j]][key].count # 0
    BY <1>1, <1>2, <2>1, <2>3
  <2> QED
    BY <2>2, <2>3
<1>5. CASE ~ (req[w].i = j /\ key = Key[Windows[j]][req[w].now])
  <2>1. usage'[Windows[j]][key] = usage[Windows[j]][key]
    BY <1>5, CountUsage
  <2> QED
    BY <1>2, <2>1
<1> QED
  BY <1>4, <1>5

\* Every step keeps the starts of the counters in periods of their keys.
LEMMA NextStarts == TypeInv /\ StartsInv /\ [Next]_vars => StartsInv'
<1> SUFFICES ASSUME TypeInv, StartsInv, [Next]_vars PROVE StartsInv'
  OBVIOUS
<1>1. (\E w \in Workers : Count(w)) \/ UNCHANGED usage
  BY DEF Next, Step, vars, tables, CreateOrder, ReadWindow, CountOrders, InsertOrder,
         FindMarker, Mark, CreateSite, NextSiteCode, InsertSite, Abort, NextDay
<1>2. CASE UNCHANGED usage
  BY <1>2 DEF StartsInv
<1> QED
  BY <1>1, <1>2, CountStarts

\* At the start no counter is in use.
LEMMA InitStarts == Init => StartsInv
  BY WindowFacts DEF Init, StartsInv

\* A counter that today is charged to was started in the period of today, but for the
\* weekly keys around New Year that PeriodResolverService gives to two weeks.
THEOREM CountersAlwaysStartAfresh == Spec => []CountersStartAfresh
<1>1. TypeInv /\ StartsInv => CountersStartAfresh
  <2> SUFFICES ASSUME TypeInv, StartsInv, NEW window \in WindowSet,
                      ~ (window = "weekly" /\ ISOWeek(day) \in {1, 52, 53}),
                      usage[window][Key[window][day]].count > 0
               PROVE  usage[window][Key[window][day]].start = Start[window][day]
    BY DEF CountersStartAfresh, CounterIsOf
  <2>1. PICK j \in DOMAIN Windows : Windows[j] = window
    BY WindowFacts
  <2>2. day \in Days /\ Key[window][day] \in Keys[window]
    BY KeyFacts DEF TypeInv
  <2>3. PICK d \in Days : /\ Key[window][d] = Key[window][day]
                          /\ usage[window][Key[window][day]].start = Start[window][d]
    BY <2>1, <2>2 DEF StartsInv
  <2>4. PeriodKey(window, day) = PeriodKey(window, d)
    BY <2>2, <2>3, KeyFacts
  <2>5. PeriodStart(window, day) = PeriodStart(window, d)
    BY <2>2, <2>4, KeyFacts, WindowFacts, OneKeyOneStart
  <2> QED
    BY <2>2, <2>3, <2>5, KeyFacts
<1> QED
  BY <1>1, InitStarts, NextStarts, TypesInduct, PTL DEF Spec

-----------------------------------------------------------------------------
(* The browser tab.  What runs on a page, in a form or at a desk of the tab. *)

\* A step of the tab is a step, or no step, of each of its parts.
LEMMA PartsStep ==
    ASSUME [TabNext]_tabVars
    PROVE  [DeskNext]_deskVars /\ [FormNext]_formVars /\ [PageNext]_pageVars
<1>1. CASE OnPage(PageNext)
    BY <1>1 DEF OnPage
<1>2. CASE tab = "form" /\ FormNext /\ UNCHANGED <<tab, pageVars, deskVars, navVars>>
    BY <1>2
<1>3. CASE tab = "desk" /\ DeskNext /\ UNCHANGED <<tab, pageVars, formVars, navVars>>
    BY <1>3
<1>4. CASE OnMenu(NavNext)
    BY <1>4 DEF OnMenu
<1>5. CASE UNCHANGED tabVars
    BY <1>5 DEF tabVars
<1>6. QED
    BY <1>1, <1>2, <1>3, <1>4, <1>5 DEF TabNext

-----------------------------------------------------------------------------
(* The counter desks.  A card that lags behind its order has a chain that    *)
(* will take it away, or an excuse.                                          *)

\* Chain c has done a step of o that the card does not show.
Ahead(c, o) ==
    /\ chains[c] # Nothing /\ chains[c].order = o
    /\ chains[c].at = "done" \/ chains[c].step > chains[c].first

CardExplained ==
    card # Nothing =>
        \/ card.knows = done[card.order]
        \/ card.order \in behind
        \/ readEarly /\ "looks" \in desk
        \/ \E c \in Chains : Ahead(c, card.order)

\* Only a desk that looks orders up has lookups; a chain goes up to the last step.
CallsOfDesk ==
    /\ \A l \in Lookups : lookups[l] # Nothing => "looks" \in desk
    /\ \A c \in Chains : chains[c] # Nothing =>
           chains[c].first <= chains[c].step /\ chains[c].step <= LastStep

DeskInv == DeskTypeOK /\ CallsOfDesk /\ CardExplained

LEMMA StepsOfDesks == LastStep \in 1 .. 2
BY DEF LastStep

LEMMA DeskStarts == DeskInit => DeskInv
<1>. SUFFICES ASSUME DeskInit PROVE DeskInv
    OBVIOUS
<1>1. DeskTypeOK
    BY StepsOfDesks DEF DeskInit, DeskTypeOK
<1>2. CallsOfDesk /\ CardExplained
    BY DEF DeskInit, CallsOfDesk, CardExplained
<1>3. QED
    BY <1>1, <1>2 DEF DeskInv


\* What the step of a desk owes the invariant where neither its lookups nor its
\* chains nor the rows of the API say more than before.
LEMMA CardStays ==
    ASSUME DeskInv, UNCHANGED <<desk, done, readEarly>>, card' \in {card, Nothing},
           behind \subseteq behind',
           \A c \in Chains, o \in Orders : Ahead(c, o) => Ahead(c, o)' \/ o \in behind' \/ card' = Nothing
    PROVE  CardExplained'
<1>. SUFFICES ASSUME card' # Nothing
              PROVE  \/ card'.knows = done'[card'.order]
                     \/ card'.order \in behind'
                     \/ readEarly' /\ "looks" \in desk'
                     \/ \E c \in Chains : Ahead(c, card.order)'
    BY DEF CardExplained
<1>1. card' = card /\ card \in Card
    BY DEF DeskInv, DeskTypeOK
<1>2. card.order \in Orders
    BY <1>1 DEF Card
<1>3. CASE \E c \in Chains : Ahead(c, card.order)
    <2>1. PICK c \in Chains : Ahead(c, card.order)
        BY <1>3
    <2>2. Ahead(c, card.order)' \/ card.order \in behind'
        BY <1>1, <1>2, <2>1
    <2>3. QED
        BY <1>1, <2>2
<1>4. CASE ~\E c \in Chains : Ahead(c, card.order)
    BY <1>1, <1>4 DEF DeskInv, CardExplained
<1>5. QED
    BY <1>3, <1>4

\* Without its picker a chain is what it was, but for the flag.
LEMMA PickerGoes ==
    ASSUME chains \in [Chains -> Chain \cup {Nothing}], PickerGone \/ UNCHANGED chains
    PROVE  /\ chains' \in [Chains -> Chain \cup {Nothing}]
           /\ \A c \in Chains :
                  /\ chains'[c] = Nothing <=> chains[c] = Nothing
                  /\ chains[c] # Nothing =>
                         /\ chains'[c].order = chains[c].order
                         /\ chains'[c].first = chains[c].first
                         /\ chains'[c].step = chains[c].step
                         /\ chains'[c].at = chains[c].at
<1>1. CASE UNCHANGED chains
    BY <1>1
<1>2. CASE PickerGone
    <2>1. \A c \in Chains : chains'[c] = IF chains[c] = Nothing \/ Shares THEN chains[c]
                                        ELSE [chains[c] EXCEPT !.here = FALSE]
        BY <1>2 DEF PickerGone
    <2>2. ASSUME NEW c \in Chains, chains[c] # Nothing, ~Shares
          PROVE  /\ chains'[c] \in Chain
                 /\ chains'[c].order = chains[c].order
                 /\ chains'[c].first = chains[c].first
                 /\ chains'[c].step = chains[c].step
                 /\ chains'[c].at = chains[c].at
        BY <2>1, <2>2 DEF Chain
    <2>3. chains' = [c \in Chains |-> chains'[c]]
        BY <1>2 DEF PickerGone
    <2>4. QED
        BY <2>1, <2>2, <2>3, NothingAssumption
<1>3. QED
    BY <1>1, <1>2

LEMMA DeskKeeps ==
    ASSUME DeskInv, [DeskNext]_deskVars
    PROVE  DeskInv'
<1>. USE DesksAssumption, NothingAssumption
<1>a. DeskTypeOK /\ CallsOfDesk /\ CardExplained
    BY DEF DeskInv
<1>b. LastStep \in 1 .. 2
    BY StepsOfDesks
<1>1. ASSUME NEW o \in Orders, ChooseOrder(o)
      PROVE  DeskInv'
    <2>1. DeskTypeOK'
        BY <1>a, <1>1 DEF ChooseOrder, Shown, DeskTypeOK, Card
    <2>2. CallsOfDesk'
        BY <1>a, <1>1 DEF ChooseOrder, CallsOfDesk, LastStep
    <2>3. CardExplained'
        BY <1>a, <1>1 DEF ChooseOrder, Shown, CardExplained
    <2>4. QED
        BY <2>1, <2>2, <2>3 DEF DeskInv
<1>2. ASSUME NEW o \in Orders, NEW l \in Lookups, LookUpOrder(l, o)
      PROVE  DeskInv'
    <2>1. /\ chains' \in [Chains -> Chain \cup {Nothing}]
          /\ \A c \in Chains :
                 /\ chains'[c] = Nothing <=> chains[c] = Nothing
                 /\ chains[c] # Nothing =>
                        /\ chains'[c].order = chains[c].order /\ chains'[c].first = chains[c].first
                        /\ chains'[c].step = chains[c].step /\ chains'[c].at = chains[c].at
        BY <1>a, <1>2, PickerGoes DEF LookUpOrder, DeskTypeOK
    <2>2. DeskTypeOK'
        BY <1>a, <1>2, <2>1 DEF LookUpOrder, DeskTypeOK, Lookup
    <2>3. CallsOfDesk'
        BY <1>a, <1>2, <2>1 DEF LookUpOrder, CallsOfDesk, LastStep, DeskTypeOK
    <2>4. CardExplained'
        BY <1>2, <2>1, CardStays DEF LookUpOrder, Ahead
    <2>5. QED
        BY <2>2, <2>3, <2>4 DEF DeskInv
<1>3. ASSUME Deselect
      PROVE  DeskInv'
    <2>1. /\ chains' \in [Chains -> Chain \cup {Nothing}]
          /\ \A c \in Chains :
                 /\ chains'[c] = Nothing <=> chains[c] = Nothing
                 /\ chains[c] # Nothing =>
                        /\ chains'[c].order = chains[c].order /\ chains'[c].first = chains[c].first
                        /\ chains'[c].step = chains[c].step /\ chains'[c].at = chains[c].at
        BY <1>a, <1>3, PickerGoes DEF Deselect, DeskTypeOK
    <2>2. DeskTypeOK'
        BY <1>a, <1>3, <2>1 DEF Deselect, DeskTypeOK
    <2>3. CallsOfDesk'
        BY <1>a, <1>3, <2>1 DEF Deselect, CallsOfDesk, LastStep, DeskTypeOK
    <2>4. CardExplained'
        BY <1>3 DEF Deselect, CardExplained
    <2>5. QED
        BY <2>2, <2>3, <2>4 DEF DeskInv
<1>4. ASSUME NEW c \in Chains, RunChain(c)
      PROVE  DeskInv'
    <2>1. card \in Card /\ card.knows + 1 \in 1 .. 2 /\ card.order \in Orders
        BY <1>a, <1>b, <1>4 DEF RunChain, DeskTypeOK, Card
    <2>2. DeskTypeOK'
        BY <1>a, <1>4, <2>1 DEF RunChain, DeskTypeOK, Chain
    <2>3. CallsOfDesk'
        <3>1. PICK d : d = [order |-> card.order, first |-> card.knows + 1,
                            step |-> card.knows + 1, at |-> "asked", here |-> TRUE]
            OBVIOUS
        <3>2. chains' = [chains EXCEPT ![c] = d] /\ LastStep' = LastStep /\ desk' = desk
            BY <1>4, <3>1 DEF RunChain, LastStep
        <3>3. d.first <= d.step /\ d.step <= LastStep
            BY <1>b, <1>4, <2>1, <3>1 DEF RunChain, Card
        <3>4. UNCHANGED lookups
            BY <1>4 DEF RunChain
        <3>5. QED
            BY <1>a, <3>2, <3>3, <3>4 DEF CallsOfDesk, DeskTypeOK
    <2>4. CardExplained'
        BY <1>a, <1>4, CardStays DEF RunChain, Ahead, DeskTypeOK
    <2>5. QED
        BY <2>2, <2>3, <2>4 DEF DeskInv
<1>5. ASSUME NEW c \in Chains, ServeStep(c)
      PROVE  DeskInv'
    <2>1. chains[c] \in Chain /\ chains[c] # Nothing /\ chains[c].at = "asked"
        BY <1>a, <1>5 DEF ServeStep, Running, DeskTypeOK
    <2>2. PICK o : o = chains[c].order
        OBVIOUS
    <2>3. o \in Orders /\ done[o] \in 0 .. 2
        BY <1>a, <2>1, <2>2 DEF Chain, DeskTypeOK
    <2>4. CASE done[o] = chains[c].step - 1
        <3>1. /\ done' = [done EXCEPT ![o] = @ + 1]
              /\ chains' = [chains EXCEPT ![c].at = "done"]
            BY <1>5, <2>2, <2>4 DEF ServeStep
        <3>2. DeskTypeOK'
            <4>1. done[o] + 1 \in 0 .. 2
                BY <2>1, <2>3, <2>4 DEF Chain
            <4>2. chains' \in [Chains -> Chain \cup {Nothing}]
                BY <1>a, <2>1, <3>1 DEF DeskTypeOK, Chain
            <4>3. done' \in [Orders -> 0 .. 2]
                BY <1>a, <3>1, <4>1 DEF DeskTypeOK
            <4>4. QED
                BY <1>a, <1>5, <4>2, <4>3 DEF ServeStep, DeskTypeOK
        <3>3. CallsOfDesk'
            BY <1>a, <1>5, <2>1, <3>1 DEF ServeStep, CallsOfDesk, LastStep, DeskTypeOK, Chain
        <3>4. CardExplained'
            <4>1. ASSUME card' # Nothing, card.order = o
                  PROVE  Ahead(c, card.order)'
                <5>1. chains'[c].order = o /\ chains'[c].at = "done" /\ chains'[c] # Nothing
                    BY <1>a, <2>1, <2>2, <3>1 DEF DeskTypeOK, Chain
                <5>2. card' = card
                    BY <1>5 DEF ServeStep
                <5>3. QED
                    BY <4>1, <5>1, <5>2 DEF Ahead
            <4>2. ASSUME card' # Nothing, card.order # o
                  PROVE  done'[card.order] = done[card.order]
                BY <1>a, <3>1, <4>2 DEF DeskTypeOK
            <4>3. ASSUME NEW d \in Chains, NEW x, Ahead(d, x)
                  PROVE  Ahead(d, x)'
                <5>1. d # c => chains'[d] = chains[d]
                    BY <1>a, <3>1 DEF DeskTypeOK
                <5>2. d = c => /\ chains'[d].order = chains[d].order
                               /\ chains'[d].at = "done" /\ chains'[d] # Nothing
                    BY <1>a, <2>1, <3>1 DEF DeskTypeOK, Chain
                <5>3. QED
                    BY <4>3, <5>1, <5>2 DEF Ahead
            <4>4. QED
                BY <1>a, <1>5, <4>1, <4>2, <4>3 DEF ServeStep, CardExplained
        <3>5. QED
            BY <3>2, <3>3, <3>4 DEF DeskInv
    <2>5. CASE done[o] # chains[c].step - 1
        <3>1. chains' = [chains EXCEPT ![c].at = "refused"] /\ UNCHANGED done
            BY <1>5, <2>2, <2>5 DEF ServeStep
        <3>2. DeskTypeOK'
            BY <1>a, <1>5, <2>1, <3>1 DEF ServeStep, DeskTypeOK, Chain
        <3>3. CallsOfDesk'
            BY <1>a, <1>5, <2>1, <3>1 DEF ServeStep, CallsOfDesk, LastStep, DeskTypeOK, Chain
        <3>4. ASSUME NEW d \in Chains, NEW x, Ahead(d, x)
              PROVE  Ahead(d, x)'
            <4>1. d # c => chains'[d] = chains[d]
                BY <1>a, <3>1 DEF DeskTypeOK
            <4>2. d = c => /\ chains'[d].order = chains[d].order
                           /\ chains'[d].step = chains[d].step
                           /\ chains'[d].first = chains[d].first /\ chains'[d] # Nothing
                BY <1>a, <2>1, <3>1 DEF DeskTypeOK, Chain
            <4>3. QED
                BY <2>1, <3>4, <4>1, <4>2 DEF Ahead
        <3>5. CardExplained'
            BY <1>5, <3>1, <3>4, CardStays DEF ServeStep
        <3>6. QED
            BY <3>2, <3>3, <3>5 DEF DeskInv
    <2>6. QED
        BY <2>4, <2>5
<1>6. ASSUME NEW c \in Chains, StepAnswered(c)
      PROVE  DeskInv'
    <2>1. /\ chains[c] \in Chain /\ chains[c] # Nothing /\ chains[c].at = "done"
          /\ chains[c].first <= chains[c].step
        BY <1>a, <1>6 DEF StepAnswered, Running, DeskTypeOK, CallsOfDesk
    <2>2. CASE chains[c].step < LastStep
        <3>1. chains' = [chains EXCEPT ![c].step = @ + 1, ![c].at = "asked"]
            BY <1>6, <2>2 DEF StepAnswered
        <3>2. chains[c].step + 1 \in 1 .. 2
            BY <1>b, <2>1, <2>2 DEF Chain
        <3>3. PICK d : d = [chains[c] EXCEPT !.step = @ + 1, !.at = "asked"]
            OBVIOUS
        <3>4. /\ d \in Chain /\ d # Nothing /\ d.order = chains[c].order
              /\ d.step = chains[c].step + 1 /\ d.first = chains[c].first
            BY <2>1, <3>2, <3>3 DEF Chain
        <3>5. chains' = [chains EXCEPT ![c] = d]
            BY <1>a, <3>1, <3>3 DEF DeskTypeOK
        <3>6. DeskTypeOK'
            BY <1>a, <1>6, <2>2, <3>4, <3>5 DEF StepAnswered, DeskTypeOK
        <3>7. CallsOfDesk'
            <4>1. d.first <= d.step /\ d.step <= LastStep
                BY <1>b, <2>1, <2>2, <3>4 DEF Chain
            <4>2. QED
                BY <1>a, <1>6, <3>5, <4>1 DEF StepAnswered, CallsOfDesk, LastStep, DeskTypeOK
        <3>8. ASSUME NEW e \in Chains, NEW x, Ahead(e, x)
              PROVE  Ahead(e, x)'
            <4>1. d.step > d.first
                BY <2>1, <3>4 DEF Chain
            <4>2. QED
                BY <1>a, <3>4, <3>5, <3>8, <4>1 DEF Ahead, DeskTypeOK
        <3>9. CardExplained'
            BY <1>6, <2>2, <3>8, CardStays DEF StepAnswered
        <3>10. QED
            BY <3>6, <3>7, <3>9 DEF DeskInv
    <2>3. CASE ~(chains[c].step < LastStep)
        <3>1. chains' = [chains EXCEPT ![c] = Nothing] /\ card' = Nothing
            BY <1>6, <2>3 DEF StepAnswered
        <3>2. DeskTypeOK'
            BY <1>a, <1>6, <3>1 DEF StepAnswered, DeskTypeOK
        <3>3. CallsOfDesk'
            BY <1>a, <1>6, <3>1 DEF StepAnswered, CallsOfDesk, LastStep, DeskTypeOK
        <3>4. CardExplained'
            BY <3>1 DEF CardExplained
        <3>5. QED
            BY <3>2, <3>3, <3>4 DEF DeskInv
    <2>4. QED
        BY <2>2, <2>3
<1>7. ASSUME NEW c \in Chains, StepFails(c)
      PROVE  DeskInv'
    <2>1. /\ chains[c] \in Chain /\ chains[c] # Nothing
          /\ chains[c].order \in Orders
        BY <1>a, <1>7 DEF StepFails, Running, DeskTypeOK, Chain
    <2>2. /\ chains' = [chains EXCEPT ![c] = Nothing]
          /\ card' \in {card, Nothing}
          /\ behind' \in {behind, behind \cup {chains[c].order}}
          /\ chains[c].at = "done" \/ chains[c].step > chains[c].first =>
                 chains[c].order \in behind'
          /\ UNCHANGED <<desk, done, lookups, readEarly>>
        BY <1>7 DEF StepFails
    <2>3. DeskTypeOK'
        BY <1>a, <2>1, <2>2 DEF DeskTypeOK
    <2>4. CallsOfDesk'
        BY <1>a, <2>2 DEF CallsOfDesk, LastStep, DeskTypeOK
    <2>5. ASSUME NEW e \in Chains, NEW x \in Orders, Ahead(e, x)
          PROVE  Ahead(e, x)' \/ x \in behind'
        BY <1>a, <2>1, <2>2, <2>5 DEF Ahead, DeskTypeOK
    <2>6. CardExplained'
        BY <2>2, <2>5, CardStays
    <2>7. QED
        BY <2>3, <2>4, <2>6 DEF DeskInv
<1>8. ASSUME NEW l \in Lookups, ServeLookup(l)
      PROVE  DeskInv'
    <2>1. /\ lookups[l] \in Lookup /\ lookups[l] # Nothing
          /\ lookups[l].order \in Orders
        BY <1>a, <1>8 DEF ServeLookup, Looking, DeskTypeOK, Lookup
    <2>2. done[lookups[l].order] \in 0 .. 2
        BY <1>a, <2>1 DEF DeskTypeOK
    <2>3. DeskTypeOK'
        BY <1>a, <1>8, <2>1, <2>2 DEF ServeLookup, DeskTypeOK, Lookup
    <2>4. CallsOfDesk'
        BY <1>a, <1>8, <2>1 DEF ServeLookup, CallsOfDesk, LastStep, DeskTypeOK
    <2>5. CardExplained'
        BY <1>8, CardStays DEF ServeLookup, Ahead
    <2>6. QED
        BY <2>3, <2>4, <2>5 DEF DeskInv
<1>9. ASSUME NEW l \in Lookups, LookupAnswered(l)
      PROVE  DeskInv'
    <2>1. /\ lookups[l] \in Lookup /\ lookups[l] # Nothing
          /\ lookups[l].order \in Orders /\ lookups[l].knows \in 0 .. 2
        BY <1>a, <1>9 DEF LookupAnswered, Looking, DeskTypeOK, Lookup
    <2>2. "looks" \in desk
        BY <1>a, <2>1 DEF CallsOfDesk
    <2>3. DeskTypeOK'
        BY <1>a, <1>9, <2>1 DEF LookupAnswered, LookupEnds, Shown, DeskTypeOK, Card
    <2>4. CallsOfDesk'
        BY <1>a, <1>9 DEF LookupAnswered, LookupEnds, CallsOfDesk, LastStep, DeskTypeOK
    <2>5. CASE "lists" \in desk /\ lookups[l].knows > 0
        BY <1>9, <2>3, <2>4, <2>5, CardStays
        DEF LookupAnswered, LookupEnds, Ahead, DeskInv
    <2>6. CASE ~("lists" \in desk /\ lookups[l].knows > 0)
        <3>1. CardExplained'
            <4>1. /\ card' = [order |-> lookups[l].order, knows |-> lookups[l].knows]
                  /\ readEarly' = (lookups[l].knows # done[lookups[l].order])
                  /\ UNCHANGED <<desk, done>>
                BY <1>9, <2>6 DEF LookupAnswered, LookupEnds, Shown
            <4>2. CASE lookups[l].knows = done[lookups[l].order]
                BY <4>1, <4>2 DEF CardExplained
            <4>3. CASE lookups[l].knows # done[lookups[l].order]
                BY <2>2, <4>1, <4>3 DEF CardExplained
            <4>4. QED
                BY <4>2, <4>3
        <3>2. QED
            BY <2>3, <2>4, <3>1 DEF DeskInv
    <2>7. QED
        BY <2>5, <2>6
<1>10. ASSUME NEW l \in Lookups, LookupFails(l)
       PROVE  DeskInv'
    <2>1. card' \in {card, Nothing} /\ UNCHANGED <<desk, done, chains, behind, readEarly>>
        BY <1>10 DEF LookupFails, LookupEnds
    <2>2. DeskTypeOK'
        BY <1>a, <1>10, <2>1 DEF LookupFails, LookupEnds, DeskTypeOK
    <2>3. CallsOfDesk'
        BY <1>a, <1>10 DEF LookupFails, LookupEnds, CallsOfDesk, LastStep, DeskTypeOK
    <2>4. CardExplained'
        BY <2>1, CardStays DEF Ahead
    <2>5. QED
        BY <2>2, <2>3, <2>4 DEF DeskInv
<1>11. CASE UNCHANGED deskVars
    BY <1>a, <1>11 DEF deskVars, DeskInv, DeskTypeOK, CallsOfDesk, CardExplained, Ahead, LastStep
<1>12. QED
    BY <1>1, <1>2, <1>3, <1>4, <1>5, <1>6, <1>7, <1>8, <1>9, <1>10, <1>11 DEF DeskNext

\* A desk at rest offers for its order the step that the API will take.
THEOREM DesksOfferNextStep == TabSpec => []CardOffersNextStep
<1>1. TabInit => DeskInv
    BY DeskStarts DEF TabInit, NoDesk
<1>2. DeskInv /\ [TabNext]_tabVars => DeskInv'
    BY PartsStep, DeskKeeps
<1>3. DeskInv => CardOffersNextStep
    BY DEF DeskInv, CardExplained, CardOffersNextStep, Ahead, Running
<1>4. QED
    BY <1>1, <1>2, <1>3, PTL DEF TabSpec

-----------------------------------------------------------------------------
(* The forms.  The inputs of an open form hold its record, or defaults; a    *)
(* text in them was typed in this opening; a save is a draft of its opening. *)

FormTypes ==
    /\ FormTypeOK
    /\ opening \in 0 .. MaxOpenings /\ upload \in 0 .. MaxOpenings
    /\ edits \in 0 .. MaxEdits /\ madeIn \in [Edits -> 0 .. MaxOpenings]
    /\ reloading \in BOOLEAN

\* The habits that the exceptions of the two properties rest on.
HabitsOfForms ==
    /\ form = SlotForm \/ form \cap {"fresh", "panel", "tidies"} # {}
    /\ form \cap {"blind", "locks", "rerenders", "adopts", "clears"} # {} => "panel" \in form
    /\ "holds" \in form => form = InviteAdmin
    /\ "lingers" \in form => form = ExpenseForm

DraftMeant ==
    /\ open # Blank =>
           /\ opening >= 1
           /\ draft.from = open \/ ("blind" \in form /\ draft.from = Blank)
    /\ Panel => opening <= 1
    /\ upload # 0 => "uploads" \in form
    /\ draft.file # 0 => "uploads" \in form /\ draft.file <= opening
    /\ draft.text <= edits
    /\ draft.choice # 0 => form = ExpenseForm
    /\ (draft.text > 0 /\ form # SlotForm) =>
           IF open # Blank THEN madeIn[draft.text] = opening ELSE "fresh" \in form

SaveMeant(s) ==
    LET d == saves[s].draft
    IN  /\ d.from # saves[s].rec => "blind" \in form /\ d.from = Blank
        /\ d.file \notin {0, saves[s].opening} => "uploads" \in form /\ ~Panel
        /\ (d.text > 0 /\ madeIn[d.text] # saves[s].opening) => form = SlotForm
        /\ d.choice # 0 => form = ExpenseForm
        /\ d.text <= edits /\ saves[s].opening <= opening
        /\ saves[s].at = "served" => d.text = 0 \/ d.text \in kept

\* What runs agrees with what is on the screen.
CallsOfForm ==
    /\ ("locks" \in form /\ draft.text > 0) =>
           \A s \in InSave : saves[s].draft.text = draft.text
    /\ draft.text > 0 => \A s \in InSave : saves[s].draft.text <= draft.text
    /\ "holds" \in form =>
           /\ open = Blank => InSave = {}
           /\ \A s, t \in InSave : s = t
           /\ \A s \in InSave : saves[s].opening = opening
    /\ reloading => "follows" \in form

FormInv ==
    /\ FormTypes /\ HabitsOfForms /\ DraftMeant /\ CallsOfForm
    /\ \A s \in InSave : SaveMeant(s)

LEMMA FormHabits == form \in Forms => HabitsOfForms
<1>. SUFFICES ASSUME form \in Forms PROVE HabitsOfForms
    OBVIOUS
<1>1. form = SlotForm \/ form \cap {"fresh", "panel", "tidies"} # {}
    BY DEF Forms, AgencyForm, InviteForm, EditUserForm, InviteAdmin, ArticleDialog, ServiceDialog,
           SlotForm, ClientForm, TenantDialog, TenantCreation, ServiceTabForm, ArticleTabForm,
           ExpenseForm, SettingsForm, AgencySettings, ExpressForm, PriceGrid, LimitsEditor,
           PlanIdentity, PlanCreation, TypeCreation, LocalityForm
<1>2. form \cap {"blind", "locks", "rerenders", "adopts", "clears"} # {} => "panel" \in form
    BY DEF Forms, AgencyForm, InviteForm, EditUserForm, InviteAdmin, ArticleDialog, ServiceDialog,
           SlotForm, ClientForm, TenantDialog, TenantCreation, ServiceTabForm, ArticleTabForm,
           ExpenseForm, SettingsForm, AgencySettings, ExpressForm, PriceGrid, LimitsEditor,
           PlanIdentity, PlanCreation, TypeCreation, LocalityForm
<1>3. "holds" \in form => form = InviteAdmin
    BY DEF Forms, AgencyForm, InviteForm, EditUserForm, InviteAdmin, ArticleDialog, ServiceDialog,
           SlotForm, ClientForm, TenantDialog, TenantCreation, ServiceTabForm, ArticleTabForm,
           ExpenseForm, SettingsForm, AgencySettings, ExpressForm, PriceGrid, LimitsEditor,
           PlanIdentity, PlanCreation, TypeCreation, LocalityForm
<1>4. "lingers" \in form => form = ExpenseForm
    BY DEF Forms, AgencyForm, InviteForm, EditUserForm, InviteAdmin, ArticleDialog, ServiceDialog,
           SlotForm, ClientForm, TenantDialog, TenantCreation, ServiceTabForm, ArticleTabForm,
           ExpenseForm, SettingsForm, AgencySettings, ExpressForm, PriceGrid, LimitsEditor,
           PlanIdentity, PlanCreation, TypeCreation, LocalityForm
<1>5. QED
    BY <1>1, <1>2, <1>3, <1>4 DEF HabitsOfForms

\* The inputs of a record, and of none.
LEMMA FreshDraft ==
    ASSUME NEW r \in Records \cup {Blank}
    PROVE  /\ Of(r) \in Draft /\ Of(r).from = r
           /\ Of(r).text = 0 /\ Of(r).choice = 0 /\ Of(r).file = 0 /\ Of(r).dirty = FALSE
BY FormsAssumption DEF Of, Draft

\* Emptied inputs: only what was chosen may stay.
LEMMA EmptiedDraft ==
    ASSUME NEW r \in Records \cup {Blank}, draft \in Draft
    PROVE  /\ Emptied(r) \in Draft /\ Emptied(r).from = r
           /\ Emptied(r).text = 0 /\ Emptied(r).file = 0 /\ Emptied(r).dirty = FALSE
           /\ Emptied(r).choice \in {0, draft.choice}
<1>1. PICK n : n = IF "lingers" \in form THEN draft.choice ELSE 0
    OBVIOUS
<1>2. n \in 0 .. MaxEdits /\ n \in {0, draft.choice}
    BY <1>1, FormsAssumption DEF Draft
<1>3. Emptied(r) = [from |-> r, text |-> 0, choice |-> n, file |-> 0, dirty |-> FALSE]
    <2>1. Emptied(r) = [Of(r) EXCEPT !.choice = n]
        BY <1>1 DEF Emptied
    <2>2. QED
        BY <2>1 DEF Of
<1>4. 0 \in 0 .. MaxEdits /\ 0 \in 0 .. MaxOpenings
    BY FormsAssumption
<1>5. Emptied(r) \in Draft
    BY <1>2, <1>3, <1>4 DEF Draft
<1>6. QED
    BY <1>2, <1>3, <1>5

LEMMA FormStarts == FormInit => FormInv
<1>. SUFFICES ASSUME FormInit PROVE FormInv
    OBVIOUS
<1>a. /\ Of(Blank) \in Draft /\ Of(Blank).from = Blank
      /\ Of(Blank).text = 0 /\ Of(Blank).choice = 0 /\ Of(Blank).file = 0
    BY FreshDraft
<1>b. /\ form \in Forms /\ open = Blank /\ opening = 0 /\ draft = Of(Blank) /\ upload = 0
      /\ saves = [s \in Saves |-> Blank] /\ reloading = FALSE
      /\ madeIn = [e \in Edits |-> 0] /\ kept = {} /\ edits = 0
    BY DEF FormInit
<1>1. FormTypes
    <2>1. FormTypeOK
        BY <1>a, <1>b DEF FormTypeOK
    <2>2. /\ opening \in 0 .. MaxOpenings /\ upload \in 0 .. MaxOpenings
          /\ edits \in 0 .. MaxEdits /\ madeIn \in [Edits -> 0 .. MaxOpenings]
        BY <1>b, FormsAssumption
    <2>3. QED
        BY <1>b, <2>1, <2>2 DEF FormTypes
<1>2. HabitsOfForms
    BY FormHabits DEF FormInit
<1>3. DraftMeant
    BY <1>a, <1>b, FormsAssumption DEF DraftMeant
<1>4. CallsOfForm /\ \A s \in InSave : SaveMeant(s)
    BY DEF FormInit, CallsOfForm, InSave
<1>5. QED
    BY <1>1, <1>2, <1>3, <1>4 DEF FormInv

\* A save in flight keeps its meaning while the user goes on.
LEMMA SavesStay ==
    ASSUME FormInv, UNCHANGED form, edits' \in Nat, edits <= edits', opening' \in Nat,
           opening <= opening', kept \subseteq kept',
           \A e \in 1 .. edits : madeIn'[e] = madeIn[e],
           NEW s \in InSave, saves'[s] = saves[s]
    PROVE  SaveMeant(s)'
<1>1. saves[s] \in Save
    BY DEF FormInv, FormTypes, FormTypeOK, InSave
<1>2. PICK sv : sv = saves[s]
    OBVIOUS
<1>3. /\ sv.draft.text \in Nat /\ sv.opening \in Nat
      /\ edits \in Nat /\ opening \in Nat
    BY <1>1, <1>2, FormsAssumption DEF Save, Draft, Openings, FormInv, FormTypes
<1>4. SaveMeant(s)
    BY DEF FormInv
<1>5. sv.draft.text > 0 => madeIn'[sv.draft.text] = madeIn[sv.draft.text]
    BY <1>2, <1>3, <1>4 DEF SaveMeant
<1>6. QED
    BY <1>2, <1>3, <1>4, <1>5 DEF SaveMeant, Panel

\* Steps that take no save up and give none back.
LEMMA CallsStay ==
    ASSUME FormInv, UNCHANGED <<form, saves>>, edits' \in Nat, edits <= edits', opening' \in Nat,
           opening <= opening', kept \subseteq kept',
           \A e \in 1 .. edits : madeIn'[e] = madeIn[e]
    PROVE  \A s \in InSave' : SaveMeant(s)'
BY SavesStay DEF InSave

\* An upload, a save or its end: the inputs hold what they held, or nothing.
LEMMA DraftStays ==
    ASSUME FormInv, UNCHANGED <<form, open, opening, madeIn, edits>>, draft' \in Draft,
           draft'.from = draft.from \/ draft'.from = open, draft'.text \in {0, draft.text},
           draft'.choice \in {0, draft.choice},
           draft'.file # 0 => "uploads" \in form /\ draft'.file <= opening,
           upload' \in {0, upload}
    PROVE  DraftMeant'
BY DEF FormInv, DraftMeant, FormTypes, Panel

\* The saves of a form when one of them has ended.
LEMMA SaveEnds ==
    ASSUME FormInv, NEW s \in InSave, saves' = [saves EXCEPT ![s] = Blank],
           UNCHANGED <<form, opening, edits, madeIn, kept>>, draft'.text \in {0, draft.text},
           open' = open \/ "holds" \in form,
           reloading' => reloading \/ "follows" \in form
    PROVE  /\ saves' \in [Saves -> Save \cup {Blank}]
           /\ \A t \in InSave' : SaveMeant(t)'
           /\ CallsOfForm'
<1>1. saves \in [Saves -> Save \cup {Blank}] /\ opening \in Nat /\ edits \in Nat
    BY FormsAssumption DEF FormInv, FormTypes, FormTypeOK
<1>2. \A t \in InSave' : t \in InSave /\ t # s /\ saves'[t] = saves[t]
    BY <1>1 DEF InSave
<1>3. \A t \in InSave' : SaveMeant(t)'
    BY <1>1, <1>2, SavesStay
<1>4. CallsOfForm'
    <2>1. "locks" \in form /\ draft'.text > 0 => draft'.text = draft.text
        BY <1>1 DEF FormInv, FormTypes, FormTypeOK, Draft
    <2>2. ("locks" \in form /\ draft'.text > 0) =>
              \A t \in InSave' : saves'[t].draft.text = draft'.text
        BY <1>2, <2>1 DEF FormInv, CallsOfForm
    <2>3. draft'.text > 0 => draft'.text = draft.text
        BY <1>1 DEF FormInv, FormTypes, FormTypeOK, Draft
    <2>4. draft'.text > 0 => \A t \in InSave' : saves'[t].draft.text <= draft'.text
        BY <1>2, <2>3 DEF FormInv, CallsOfForm
    <2>5. "holds" \in form => InSave' = {}
        BY <1>2 DEF FormInv, CallsOfForm
    <2>6. QED
        BY <2>2, <2>4, <2>5 DEF FormInv, CallsOfForm
<1>5. QED
    BY <1>1, <1>3, <1>4

LEMMA FormKeeps ==
    ASSUME FormInv, [FormNext]_formVars
    PROVE  FormInv'
<1>. USE FormsAssumption, BlankAssumption
<1>a. FormTypes /\ FormTypeOK /\ HabitsOfForms /\ DraftMeant /\ CallsOfForm
    BY DEF FormInv, FormTypes
<1>b. /\ opening \in 0 .. MaxOpenings /\ edits \in 0 .. MaxEdits /\ upload \in 0 .. MaxOpenings
      /\ draft \in Draft /\ draft.from \in Records \cup {Blank} /\ draft.text \in 0 .. MaxEdits
      /\ draft.file \in 0 .. MaxOpenings /\ draft.dirty \in BOOLEAN
      /\ draft.choice \in 0 .. MaxEdits
      /\ madeIn \in [Edits -> 0 .. MaxOpenings]
      /\ saves \in [Saves -> Save \cup {Blank}] /\ open \in Records \cup {Blank}
    BY <1>a DEF FormTypes, FormTypeOK, Draft
<1>c. \A r \in Records \cup {Blank} :
          /\ Of(r) \in Draft /\ Of(r).from = r
          /\ Of(r).text = 0 /\ Of(r).choice = 0 /\ Of(r).file = 0 /\ Of(r).dirty = FALSE
    BY FreshDraft
<1>d. \A s \in InSave : saves[s].draft.text \in Nat /\ saves[s].draft.text <= edits
    BY <1>b DEF InSave, Save, Draft, FormInv, SaveMeant
<1>1. ASSUME NEW r \in Records, Open(r)
      PROVE  FormInv'
    <2>1. /\ open' = r /\ r # Blank /\ opening' = opening + 1 /\ draft' = Opened(r)
          /\ open = Blank /\ opening < MaxOpenings /\ (Panel => opening = 0)
          /\ UNCHANGED <<form, upload, saves, reloading, madeIn, kept, edits>>
        BY <1>1 DEF Open
    <2>2. ASSUME form \cap {"fresh", "panel"} # {}
          PROVE  DraftMeant' /\ draft' \in Draft /\ draft'.text = 0
        <3>1. draft' = Of(r)
            BY <2>1, <2>2 DEF Opened
        <3>2. DraftMeant'
            BY <1>a, <1>b, <1>c, <2>1, <3>1 DEF DraftMeant, Panel
        <3>3. draft' \in Draft /\ draft'.text = 0
            BY <1>c, <3>1
        <3>4. QED
            BY <3>2, <3>3
    <2>3. ASSUME form \cap {"fresh", "panel"} = {}
          PROVE  DraftMeant' /\ draft' \in Draft /\ "locks" \notin form /\ draft'.text = draft.text
        <3>1. draft' = [draft EXCEPT !.from = r]
            BY <2>1, <2>3 DEF Opened
        <3>2. /\ draft' \in Draft /\ draft'.from = r /\ draft'.text = draft.text
              /\ draft'.file = draft.file /\ draft'.choice = draft.choice
            BY <1>b, <3>1 DEF Draft
        <3>3. draft.text = 0 \/ form = SlotForm
            BY <1>a, <1>b, <2>1, <2>3 DEF DraftMeant
        <3>4. "locks" \notin form
            BY <1>a, <2>3 DEF HabitsOfForms
        <3>5. DraftMeant'
            BY <1>a, <1>b, <2>1, <3>2, <3>3 DEF DraftMeant, Panel
        <3>6. QED
            BY <3>2, <3>4, <3>5
    <2>4. /\ DraftMeant' /\ draft' \in Draft
          /\ draft'.text = 0 \/ ("locks" \notin form /\ draft'.text = draft.text)
        BY <2>2, <2>3
    <2>5. FormTypes'
        BY <1>a, <1>b, <2>1, <2>4 DEF FormTypes, FormTypeOK
    <2>6. CallsOfForm'
        BY <1>a, <2>1, <2>4 DEF CallsOfForm, InSave
    <2>7. \A s \in InSave' : SaveMeant(s)'
        BY <1>b, <2>1, CallsStay
    <2>8. QED
        BY <1>a, <2>1, <2>4, <2>5, <2>6, <2>7 DEF FormInv, HabitsOfForms
<1>2. ASSUME NEW r \in Records, OpenBlind(r)
      PROVE  FormInv'
    <2>1. /\ open' = r /\ r # Blank /\ opening' = 1 /\ opening = 0 /\ draft' = Of(Blank)
          /\ open = Blank /\ "blind" \in form
          /\ UNCHANGED <<form, upload, saves, reloading, madeIn, kept, edits>>
        BY <1>2 DEF OpenBlind
    <2>2. /\ draft' \in Draft /\ draft'.from = Blank /\ draft'.text = 0 /\ draft'.file = 0
          /\ draft'.choice = 0
        BY <1>c, <2>1
    <2>3. DraftMeant'
        BY <1>a, <1>b, <2>1, <2>2 DEF DraftMeant, Panel
    <2>4. FormTypes'
        BY <1>a, <1>b, <2>1, <2>2 DEF FormTypes, FormTypeOK
    <2>5. "panel" \in form /\ "holds" \notin form
        BY <1>a, <2>1 DEF HabitsOfForms, InviteAdmin
    <2>6. CallsOfForm'
        BY <1>a, <2>1, <2>2, <2>5 DEF CallsOfForm, InSave
    <2>7. \A s \in InSave' : SaveMeant(s)'
        BY <1>b, <2>1, CallsStay
    <2>8. QED
        BY <1>a, <2>1, <2>3, <2>4, <2>6, <2>7 DEF FormInv, HabitsOfForms
<1>3. ASSUME Type
      PROVE  FormInv'
    <2>1. /\ open # Blank /\ edits < MaxEdits /\ ("locks" \in form => InSave = {})
          /\ edits' = edits + 1
          /\ draft' = [draft EXCEPT !.text = edits', !.dirty = TRUE]
          /\ madeIn' = [madeIn EXCEPT ![edits'] = opening]
          /\ UNCHANGED <<form, open, opening, upload, saves, reloading, kept>>
        BY <1>3 DEF Type
    <2>2. edits' \in Edits
        BY <1>b, <2>1 DEF Edits
    <2>3. /\ draft' \in Draft /\ draft'.text = edits' /\ draft'.from = draft.from
          /\ draft'.file = draft.file /\ draft'.choice = draft.choice
        <3>1. PICK n \in 0 .. MaxEdits : n = edits'
            BY <2>2 DEF Edits
        <3>2. draft' = [draft EXCEPT !.text = n, !.dirty = TRUE]
            BY <2>1, <3>1
        <3>3. QED
            BY <1>b, <3>1, <3>2 DEF Draft
    <2>4. /\ madeIn' \in [Edits -> 0 .. MaxOpenings] /\ madeIn'[edits'] = opening
          /\ \A e \in 1 .. edits : madeIn'[e] = madeIn[e]
        BY <1>b, <2>1, <2>2 DEF Edits
    <2>5. DraftMeant'
        BY <1>a, <1>b, <2>1, <2>3, <2>4 DEF DraftMeant, Panel
    <2>6. FormTypes'
        BY <1>a, <1>b, <2>1, <2>2, <2>3, <2>4 DEF FormTypes, FormTypeOK, Edits
    <2>7. CallsOfForm'
        BY <1>a, <1>b, <1>d, <2>1, <2>3 DEF CallsOfForm, InSave
    <2>8. \A s \in InSave' : SaveMeant(s)'
        <3>1. edits' \in Nat /\ edits <= edits' /\ opening' = opening /\ opening \in Nat
            BY <1>b, <2>1
        <3>2. QED
            BY <2>1, <2>4, <3>1, CallsStay
    <2>9. QED
        BY <1>a, <2>1, <2>5, <2>6, <2>7, <2>8 DEF FormInv, HabitsOfForms
<1>4. ASSUME PickFile
      PROVE  FormInv'
    <2>1. /\ open # Blank /\ "uploads" \in form /\ upload' = opening
          /\ draft' = draft \/ draft' = [draft EXCEPT !.file = opening]
          /\ UNCHANGED <<form, open, opening, saves, reloading, madeIn, kept, edits>>
        BY <1>4 DEF PickFile
    <2>2. /\ draft' \in Draft /\ draft'.text = draft.text /\ draft'.from = draft.from
          /\ draft'.choice = draft.choice
          /\ draft'.file = draft.file \/ draft'.file = opening
        BY <1>b, <2>1 DEF Draft
    <2>3. DraftMeant'
        BY <1>a, <1>b, <2>1, <2>2 DEF DraftMeant, Panel
    <2>4. FormTypes'
        BY <1>a, <1>b, <2>1, <2>2 DEF FormTypes, FormTypeOK
    <2>5. CallsOfForm'
        BY <1>a, <2>1, <2>2 DEF CallsOfForm, InSave
    <2>6. \A s \in InSave' : SaveMeant(s)'
        BY <1>b, <2>1, CallsStay
    <2>7. QED
        BY <1>a, <2>1, <2>3, <2>4, <2>5, <2>6 DEF FormInv, HabitsOfForms
<1>5. ASSUME Close
      PROVE  FormInv'
    <2>1. /\ open # Blank /\ ("holds" \in form => ~Busy)
          /\ open' = IF Panel THEN open ELSE Blank
          /\ draft' = IF Panel \/ "tidies" \in form THEN Emptied(draft.from)
                      ELSE [draft EXCEPT !.dirty = FALSE]
          /\ UNCHANGED <<form, opening, upload, saves, reloading, madeIn, kept, edits>>
        BY <1>5 DEF Close
    <2>2. /\ draft' \in Draft /\ draft'.from = draft.from
          /\ draft'.text \in {0, draft.text} /\ draft'.file \in {0, draft.file}
          /\ draft'.choice \in {0, draft.choice}
          /\ Panel \/ "tidies" \in form => draft'.text = 0
        <3>1. CASE Panel \/ "tidies" \in form
            BY <1>b, <2>1, <3>1, EmptiedDraft
        <3>2. CASE ~(Panel \/ "tidies" \in form)
            BY <1>b, <2>1, <3>2 DEF Draft
        <3>3. QED
            BY <3>1, <3>2
    <2>3. DraftMeant'
        <3>1. open' = Blank /\ draft'.text > 0 /\ form # SlotForm => "fresh" \in form
            BY <1>a, <1>b, <2>1, <2>2 DEF HabitsOfForms, Panel
        <3>2. open' # Blank => open' = open
            BY <2>1
        <3>3. QED
            BY <1>a, <1>b, <2>1, <2>2, <3>1, <3>2 DEF DraftMeant, Panel
    <2>4. FormTypes'
        BY <1>a, <1>b, <2>1, <2>2 DEF FormTypes, FormTypeOK
    <2>5. CallsOfForm'
        <3>1. "holds" \in form => InSave = {}
            BY <1>a, <2>1 DEF HabitsOfForms, InviteAdmin, Busy
        <3>2. InSave' = InSave
            BY <2>1 DEF InSave
        <3>3. ("locks" \in form /\ draft'.text > 0) =>
                  \A s \in InSave : saves[s].draft.text = draft'.text
            BY <1>a, <1>b, <2>2 DEF CallsOfForm
        <3>4. draft'.text > 0 => \A s \in InSave : saves[s].draft.text <= draft'.text
            BY <1>a, <1>b, <2>2 DEF CallsOfForm
        <3>5. QED
            BY <1>a, <2>1, <3>1, <3>2, <3>3, <3>4 DEF CallsOfForm
    <2>6. \A s \in InSave' : SaveMeant(s)'
        BY <1>b, <2>1, CallsStay
    <2>7. QED
        BY <1>a, <2>1, <2>3, <2>4, <2>5, <2>6 DEF FormInv, HabitsOfForms
<1>6. ASSUME NEW d \in Draft, draft' = d, upload' \in {0, upload}, d.text \in {0, draft.text},
             d.choice \in {0, draft.choice}, d.from = draft.from \/ d.from = open,
             reloading' \in BOOLEAN, reloading' => reloading,
             d.file # 0 => "uploads" \in form /\ d.file <= opening,
             UNCHANGED <<form, open, opening, saves, madeIn, kept, edits>>
      PROVE  FormInv'
    <2>1. DraftMeant'
        BY <1>6, DraftStays
    <2>2. FormTypes'
        BY <1>a, <1>b, <1>6 DEF FormTypes, FormTypeOK
    <2>3. CallsOfForm'
        BY <1>a, <1>b, <1>6 DEF CallsOfForm, InSave
    <2>4. \A s \in InSave' : SaveMeant(s)'
        BY <1>b, <1>6, CallsStay
    <2>5. QED
        BY <1>a, <1>6, <2>1, <2>2, <2>3, <2>4 DEF FormInv, HabitsOfForms
<1>7. ASSUME Rerender
      PROVE  FormInv'
    <2>1. draft' = Of(draft.from)
        BY <1>7 DEF Rerender
    <2>2. UNCHANGED <<form, open, opening, upload, saves, reloading, madeIn, kept, edits>>
        BY <1>7 DEF Rerender
    <2>3. QED
        BY <1>a, <1>b, <1>c, <1>6, <2>1, <2>2 DEF FormTypes
<1>8. ASSUME UploadAnswered \/ UploadFails
      PROVE  FormInv'
    <2>1. /\ upload # 0 /\ upload' = 0
          /\ UNCHANGED <<form, open, opening, saves, reloading, madeIn, kept, edits>>
          /\ \E f \in {0, upload, draft.file} : draft' = [draft EXCEPT !.file = f]
        <3>1. draft = [draft EXCEPT !.file = draft.file]
            BY <1>b DEF Draft
        <3>2. QED
            BY <1>8, <3>1 DEF UploadAnswered, UploadFails
    <2>2. PICK f \in {0, upload, draft.file} : draft' = [draft EXCEPT !.file = f]
        BY <2>1
    <2>3. /\ draft' \in Draft /\ draft'.from = draft.from /\ draft'.text = draft.text
          /\ draft'.file = f /\ draft'.choice = draft.choice
        BY <1>b, <2>2 DEF Draft
    <2>4. f # 0 => "uploads" \in form /\ f <= opening
        BY <1>a, <1>b, <2>1 DEF DraftMeant, FormTypeOK
    <2>5. QED
        BY <1>a, <1>6, <2>1, <2>3, <2>4 DEF FormTypes
<1>9. ASSUME Reloaded
      PROVE  FormInv'
    <2>1. /\ reloading' = FALSE
          /\ draft' = draft \/ draft' = Of(open)
          /\ UNCHANGED <<form, open, opening, upload, saves, madeIn, kept, edits>>
        BY <1>9 DEF Reloaded
    <2>2. CASE draft' = draft
        BY <1>a, <1>b, <1>6, <2>1, <2>2 DEF DraftMeant
    <2>3. CASE draft' = Of(open)
        BY <1>b, <1>c, <1>6, <2>1, <2>3
    <2>4. QED
        BY <2>1, <2>2, <2>3
<1>10. ASSUME NEW s \in Saves, SubmitForm(s)
       PROVE  FormInv'
    <2>1. PICK c : c = [rec |-> open, opening |-> opening, draft |-> draft, at |-> "asked"]
        OBVIOUS
    <2>2. /\ open # Blank /\ saves[s] = Blank /\ (Busy => "repeats" \in form)
          /\ saves' = [saves EXCEPT ![s] = c]
          /\ UNCHANGED <<form, open, opening, draft, upload, reloading, madeIn, kept, edits>>
        BY <1>10, <2>1 DEF SubmitForm
    <2>3. /\ c.rec = open /\ c.opening = opening /\ c.draft = draft /\ c.at = "asked"
          /\ opening >= 1
        BY <1>a, <2>1, <2>2 DEF DraftMeant
    <2>4. c \in Save
        BY <1>b, <2>1, <2>2, <2>3 DEF Save, Openings
    <2>5. FormTypes'
        BY <1>a, <1>b, <2>2, <2>4 DEF FormTypes, FormTypeOK
    <2>6. DraftMeant'
        BY <1>a, <2>2 DEF DraftMeant, Panel
    <2>7. saves'[s] = c /\ \A t \in Saves : t # s => saves'[t] = saves[t]
        BY <1>b, <2>2
    <2>8. \A t \in InSave' : t # s => t \in InSave /\ saves'[t] = saves[t]
        BY <2>7 DEF InSave
    <2>9. CallsOfForm'
        <3>1. "holds" \in form => InSave = {}
            BY <1>a, <2>2 DEF HabitsOfForms, InviteAdmin, Busy
        <3>2. ("locks" \in form /\ draft'.text > 0) =>
                  \A t \in InSave' : saves'[t].draft.text = draft'.text
            BY <1>a, <2>2, <2>3, <2>7, <2>8 DEF CallsOfForm
        <3>3. "holds" \in form =>
                  /\ open' # Blank
                  /\ \A t, u \in InSave' : t = u
                  /\ \A t \in InSave' : saves'[t].opening = opening'
            BY <2>2, <2>3, <2>7, <2>8, <3>1
        <3>4. draft'.text > 0 => \A t \in InSave' : saves'[t].draft.text <= draft'.text
            BY <1>a, <1>b, <2>2, <2>3, <2>7, <2>8 DEF CallsOfForm
        <3>5. QED
            BY <1>a, <2>2, <3>2, <3>3, <3>4 DEF CallsOfForm
    <2>10. ASSUME NEW t \in InSave'
           PROVE  SaveMeant(t)'
        <3>1. CASE t = s
            <4>1. draft.file \notin {0, opening} => "uploads" \in form /\ ~Panel
                BY <1>a, <1>b, <2>3 DEF DraftMeant
            <4>2. (draft.text > 0 /\ madeIn[draft.text] # opening) => form = SlotForm
                BY <1>a, <2>2 DEF DraftMeant
            <4>3. draft.from # open => "blind" \in form /\ draft.from = Blank
                BY <1>a, <2>2 DEF DraftMeant
            <4>4. draft.text <= edits /\ (draft.choice # 0 => form = ExpenseForm)
                BY <1>a, <1>b DEF DraftMeant
            <4>5. Panel' = Panel
                BY <2>2 DEF Panel
            <4>6. QED
                BY <1>b, <2>2, <2>3, <2>7, <3>1, <4>1, <4>2, <4>3, <4>4, <4>5 DEF SaveMeant
        <3>2. CASE t # s
            <4>1. t \in InSave /\ saves'[t] = saves[t]
                BY <2>8, <3>2
            <4>2. edits' \in Nat /\ edits <= edits' /\ opening' \in Nat /\ opening <= opening'
                BY <1>b, <2>2
            <4>3. QED
                BY <2>2, <4>1, <4>2, SavesStay
        <3>3. QED
            BY <3>1, <3>2
    <2>11. QED
        BY <1>a, <2>2, <2>5, <2>6, <2>9, <2>10 DEF FormInv, HabitsOfForms
<1>11. ASSUME NEW s \in Saves, ServeSave(s)
       PROVE  FormInv'
    <2>1. PICK c : c = [saves[s] EXCEPT !.at = "served"]
        OBVIOUS
    <2>2. /\ s \in InSave /\ saves[s] # Blank
          /\ saves' = [saves EXCEPT ![s] = c]
          /\ kept' = IF saves[s].draft.text = 0 THEN kept ELSE kept \cup {saves[s].draft.text}
          /\ UNCHANGED <<form, open, opening, draft, upload, reloading, madeIn, edits>>
        BY <1>b, <1>11, <2>1 DEF ServeSave, InSave
    <2>3. /\ saves[s] \in Save /\ c \in Save
          /\ c.rec = saves[s].rec /\ c.opening = saves[s].opening /\ c.draft = saves[s].draft
        BY <1>b, <2>1, <2>2 DEF Save
    <2>4. saves[s].draft.text \in 0 .. edits /\ SaveMeant(s)
        BY <1>b, <1>d, <2>2 DEF FormInv
    <2>5. kept' \subseteq 1 .. edits /\ kept \subseteq kept'
        <3>1. PICK e : e = saves[s].draft.text
            OBVIOUS
        <3>2. e \in 0 .. edits /\ edits \in Nat /\ kept \subseteq 1 .. edits
            BY <1>a, <1>b, <2>4, <3>1 DEF FormTypeOK
        <3>3. kept' = IF e = 0 THEN kept ELSE kept \cup {e}
            BY <2>2, <3>1
        <3>4. e # 0 => e \in 1 .. edits
            BY <3>2
        <3>5. QED
            BY <2>2, <3>2, <3>3, <3>4
    <2>6. FormTypes'
        BY <1>a, <1>b, <2>2, <2>3, <2>5 DEF FormTypes, FormTypeOK
    <2>7. DraftMeant'
        BY <1>a, <2>2 DEF DraftMeant, Panel
    <2>8. saves'[s] = c /\ \A t \in Saves : t # s => saves'[t] = saves[t]
        BY <1>b, <2>2
    <2>9. \A t \in InSave' : t \in InSave /\ (t # s => saves'[t] = saves[t])
        BY <2>2, <2>8 DEF InSave
    <2>10. CallsOfForm'
        <3>1. \A t \in InSave' : saves'[t].draft = saves[t].draft /\ saves'[t].opening = saves[t].opening
            BY <2>3, <2>8, <2>9
        <3>2. QED
            BY <1>a, <2>2, <2>9, <3>1 DEF CallsOfForm
    <2>11. ASSUME NEW t \in InSave'
           PROVE  SaveMeant(t)'
        <3>1. CASE t = s
            <4>1. saves[s].draft.text = 0 \/ saves[s].draft.text \in kept'
                BY <2>2
            <4>2. Panel' = Panel
                BY <2>2 DEF Panel
            <4>3. QED
                BY <2>2, <2>3, <2>4, <2>8, <3>1, <4>1, <4>2 DEF SaveMeant
        <3>2. CASE t # s
            <4>1. t \in InSave /\ saves'[t] = saves[t]
                BY <2>9, <3>2
            <4>2. edits' \in Nat /\ edits <= edits' /\ opening' \in Nat /\ opening <= opening'
                BY <1>b, <2>2
            <4>3. QED
                BY <2>2, <2>5, <4>1, <4>2, SavesStay
        <3>3. QED
            BY <3>1, <3>2
    <2>12. QED
        BY <1>a, <2>2, <2>6, <2>7, <2>10, <2>11 DEF FormInv, HabitsOfForms
<1>12. ASSUME NEW s \in Saves, SaveAnswered(s) \/ SaveFails(s)
       PROVE  FormInv'
    <2>1. /\ s \in InSave /\ saves' = [saves EXCEPT ![s] = Blank]
          /\ UNCHANGED <<form, opening, upload, edits, madeIn, kept>>
          /\ reloading' \in BOOLEAN /\ (reloading' => reloading \/ "follows" \in form)
        <3>1. CASE SaveAnswered(s)
            BY <1>a, <3>1 DEF SaveAnswered, FormTypes
        <3>2. CASE SaveFails(s)
            BY <1>a, <3>2 DEF SaveFails, FormTypes
        <3>3. QED
            BY <1>12, <3>1, <3>2
    <2>2. \/ /\ open' = open /\ draft' \in Draft
             /\ draft'.from = draft.from /\ draft'.text \in {0, draft.text}
             /\ draft'.file \in {0, draft.file} /\ draft'.choice \in {0, draft.choice}
          \/ ~Panel /\ open' = Blank /\ draft' \in {Of(Blank), Emptied(Blank)}
        <3>1. CASE Panel /\ SaveAnswered(s)
            BY <1>b, <1>c, <3>1 DEF SaveAnswered, Refilled, Draft
        <3>2. CASE ~Panel /\ SaveAnswered(s)
            BY <3>2 DEF SaveAnswered
        <3>3. CASE SaveFails(s) /\ "swallows" \notin form
            BY <1>b, <3>3 DEF SaveFails
        <3>4. CASE SaveFails(s) /\ "swallows" \in form /\ Panel
            BY <1>b, <3>4 DEF SaveFails, Draft
        <3>5. CASE SaveFails(s) /\ "swallows" \in form /\ ~Panel
            BY <3>5 DEF SaveFails
        <3>6. QED
            BY <1>12, <3>1, <3>2, <3>3, <3>4, <3>5
    <2>3. CASE /\ open' = open /\ draft' \in Draft
               /\ draft'.from = draft.from /\ draft'.text \in {0, draft.text}
               /\ draft'.file \in {0, draft.file} /\ draft'.choice \in {0, draft.choice}
        <3>1. DraftMeant'
            BY <1>a, <1>b, <2>1, <2>3, DraftStays DEF DraftMeant
        <3>2. /\ saves' \in [Saves -> Save \cup {Blank}]
              /\ \A t \in InSave' : SaveMeant(t)'
              /\ CallsOfForm'
            BY <2>1, <2>3, SaveEnds
        <3>3. FormTypes'
            BY <1>a, <1>b, <2>1, <2>3, <3>2 DEF FormTypes, FormTypeOK
        <3>4. QED
            BY <1>a, <2>1, <3>1, <3>2, <3>3 DEF FormInv, HabitsOfForms
    <2>4. CASE ~Panel /\ open' = Blank /\ draft' \in {Of(Blank), Emptied(Blank)}
        <3>1. /\ draft' \in Draft /\ draft'.text = 0 /\ draft'.file = 0
              /\ draft'.choice \in {0, draft.choice}
            <4>1. CASE draft' = Of(Blank)
                BY <1>c, <4>1
            <4>2. CASE draft' = Emptied(Blank)
                <5>1. Blank \in Records \cup {Blank}
                    OBVIOUS
                <5>2. QED
                    BY <1>b, <4>2, <5>1, EmptiedDraft
            <4>3. QED
                BY <2>4, <4>1, <4>2
        <3>2. DraftMeant'
            BY <1>a, <2>1, <2>4, <3>1, <1>b DEF DraftMeant, Panel
        <3>3. /\ saves' \in [Saves -> Save \cup {Blank}]
              /\ \A t \in InSave' : SaveMeant(t)'
              /\ CallsOfForm'
            <4>1. \A t \in InSave' : t \in InSave /\ t # s /\ saves'[t] = saves[t]
                BY <1>b, <2>1 DEF InSave
            <4>2. \A t \in InSave' : SaveMeant(t)'
                BY <1>b, <2>1, <4>1, SavesStay
            <4>3. CallsOfForm'
                BY <1>a, <2>1, <3>1, <4>1 DEF CallsOfForm
            <4>4. QED
                BY <1>b, <2>1, <4>2, <4>3
        <3>4. FormTypes'
            BY <1>a, <1>b, <2>1, <2>4, <3>1, <3>3 DEF FormTypes, FormTypeOK
        <3>5. QED
            BY <1>a, <2>1, <3>2, <3>3, <3>4 DEF FormInv, HabitsOfForms
    <2>5. QED
        BY <2>2, <2>3, <2>4
<1>13. ASSUME Choose
       PROVE  FormInv'
    <2>1. /\ open # Blank /\ "lingers" \in form /\ edits < MaxEdits /\ edits' = edits + 1
          /\ draft' = [draft EXCEPT !.choice = edits']
          /\ madeIn' = [madeIn EXCEPT ![edits'] = opening]
          /\ UNCHANGED <<form, open, opening, upload, saves, reloading, kept>>
        BY <1>13 DEF Choose
    <2>2. edits' \in Edits
        BY <1>b, <2>1 DEF Edits
    <2>3. /\ draft' \in Draft /\ draft'.text = draft.text /\ draft'.from = draft.from
          /\ draft'.file = draft.file
        <3>1. PICK n \in 0 .. MaxEdits : n = edits'
            BY <2>2 DEF Edits
        <3>2. draft' = [draft EXCEPT !.choice = n]
            BY <2>1, <3>1
        <3>3. QED
            BY <1>b, <3>1, <3>2 DEF Draft
    <2>4. /\ madeIn' \in [Edits -> 0 .. MaxOpenings]
          /\ \A e \in 1 .. edits : madeIn'[e] = madeIn[e]
        BY <1>b, <2>1, <2>2 DEF Edits
    <2>5. draft.text > 0 => madeIn'[draft.text] = madeIn[draft.text]
        BY <1>a, <1>b, <2>4 DEF DraftMeant
    <2>6. form = ExpenseForm
        BY <1>a, <2>1 DEF HabitsOfForms
    <2>7. DraftMeant'
        BY <1>a, <1>b, <2>1, <2>3, <2>5, <2>6 DEF DraftMeant, Panel
    <2>8. FormTypes'
        BY <1>a, <1>b, <2>1, <2>2, <2>3, <2>4 DEF FormTypes, FormTypeOK, Edits
    <2>9. CallsOfForm'
        BY <1>a, <2>1, <2>3 DEF CallsOfForm, InSave
    <2>10. \A s \in InSave' : SaveMeant(s)'
        <3>1. edits' \in Nat /\ edits <= edits' /\ opening' = opening /\ opening \in Nat
            BY <1>b, <2>1
        <3>2. QED
            BY <2>1, <2>4, <3>1, CallsStay
    <2>11. QED
        BY <1>a, <2>1, <2>7, <2>8, <2>9, <2>10 DEF FormInv, HabitsOfForms
<1>14. CASE UNCHANGED formVars
    BY <1>a, <1>14 DEF formVars, FormInv, FormTypes, FormTypeOK, HabitsOfForms, DraftMeant,
                       CallsOfForm, SaveMeant, InSave, Panel
<1>15. QED
    BY <1>1, <1>2, <1>3, <1>4, <1>5, <1>7, <1>8, <1>9, <1>10, <1>11, <1>12, <1>13, <1>14 DEF FormNext

\* What is sent for a record was loaded, typed and uploaded for that record.
THEOREM SavesAreMeant == TabSpec => []SavedAsMeant
<1>1. TabInit => FormInv
    BY FormStarts DEF TabInit, NoForm
<1>2. FormInv /\ [TabNext]_tabVars => FormInv'
    BY PartsStep, FormKeeps
<1>3. FormInv => SavedAsMeant
    BY DEF FormInv, FormTypes, SaveMeant, SavedAsMeant
<1>4. QED
    BY <1>1, <1>2, <1>3, PTL DEF TabSpec

\* The answer of a save takes from the form what has arrived, or an exception.
LEMMA AnswerExcuses ==
    ASSUME FormInv, NEW e \in Edits, Unsaved(e), ~Unsaved(e)', NEW s \in Saves, SaveAnswered(s)
    PROVE  Excuses(e)
<1>a. FormTypes /\ FormTypeOK /\ HabitsOfForms /\ DraftMeant /\ CallsOfForm
    BY DEF FormInv, FormTypes
<1>1. /\ s \in InSave /\ saves[s].at = "served" /\ saves' = [saves EXCEPT ![s] = Blank]
      /\ UNCHANGED <<form, opening, kept>>
      /\ saves \in [Saves -> Save \cup {Blank}]
    BY <1>a DEF SaveAnswered, FormTypeOK
<1>2. Settles(s)
    BY <1>1 DEF Settles
<1>3. PICK sv : sv = saves[s]
    OBVIOUS
<1>4. /\ sv \in Save /\ sv.draft \in Draft /\ sv.draft.text \in Nat /\ sv.opening \in Nat
      /\ sv.opening >= 1 /\ edits \in Nat /\ opening \in Nat /\ draft.text \in Nat
    BY <1>a, <1>1, <1>3, FormsAssumption
    DEF InSave, Save, Draft, Openings, FormTypes, FormTypeOK
<1>5. /\ open # Blank /\ draft.dirty /\ draft.text = e /\ e \notin kept /\ e > 0
    BY <1>a, <1>4 DEF Unsaved, Edits
<1>6. sv.opening <= opening /\ sv.draft.text < e
    BY <1>a, <1>1, <1>3, <1>4, <1>5 DEF FormInv, SaveMeant, CallsOfForm
<1>7. "locks" \notin form
    BY <1>a, <1>1, <1>3, <1>4, <1>5, <1>6 DEF CallsOfForm
<1>8. CASE sv.opening = opening
    BY <1>2, <1>3, <1>6, <1>7, <1>8 DEF Excuses
<1>9. CASE sv.opening # opening
    <2>1. ~Panel
        BY <1>a, <1>4, <1>6, <1>9 DEF DraftMeant
    <2>2. "holds" \notin form
        BY <1>a, <1>1, <1>3, <1>9 DEF CallsOfForm
    <2>3. QED
        BY <1>2, <1>3, <1>9, <2>1, <2>2 DEF Excuses
<1>10. QED
    BY <1>8, <1>9

LEMMA StepExcuses ==
    ASSUME FormInv, FormNext, NEW e \in Edits, Unsaved(e), ~Unsaved(e)'
    PROVE  Excuses(e)
<1>a. /\ FormTypeOK /\ draft \in Draft
    BY DEF FormInv, FormTypes, FormTypeOK
<1>1. CASE \E r \in Records : Open(r) \/ OpenBlind(r)
    BY <1>1 DEF Open, OpenBlind, Unsaved
<1>2. CASE Type \/ Close \/ Rerender
    BY <1>2 DEF Excuses
<1>3. CASE PickFile \/ UploadAnswered \/ UploadFails
    <2>1. PICK f : draft' = [draft EXCEPT !.file = f]
        <3>1. draft = [draft EXCEPT !.file = draft.file]
            BY <1>a DEF Draft
        <3>2. QED
            BY <1>3, <3>1 DEF PickFile, UploadAnswered, UploadFails
    <2>2. UNCHANGED <<open, kept>>
        BY <1>3 DEF PickFile, UploadAnswered, UploadFails
    <2>3. draft'.text = draft.text /\ draft'.dirty = draft.dirty
        BY <1>a, <2>1 DEF Draft
    <2>4. QED
        BY <2>2, <2>3 DEF Unsaved
<1>4. CASE Choose \/ \E s \in Saves : SubmitForm(s)
    <2>1. draft' = draft \/ \E n : draft' = [draft EXCEPT !.choice = n]
        BY <1>4 DEF SubmitForm, Choose
    <2>2. draft'.text = draft.text /\ draft'.dirty = draft.dirty
        BY <1>a, <2>1 DEF Draft
    <2>3. UNCHANGED <<open, kept>>
        BY <1>4 DEF SubmitForm, Choose
    <2>4. QED
        BY <2>2, <2>3 DEF Unsaved
<1>5. CASE \E s \in Saves : ServeSave(s)
    BY <1>5 DEF ServeSave, Unsaved, Excuses
<1>6. CASE \E s \in Saves : SaveAnswered(s)
    BY <1>6, AnswerExcuses
<1>7. ASSUME NEW s \in Saves, SaveFails(s)
      PROVE  Excuses(e)
    <2>1. CASE "swallows" \in form
        <3>1. Settles(s)
            BY <1>a, <1>7 DEF SaveFails, Settles, FormTypeOK
        <3>2. QED
            BY <2>1, <3>1 DEF Excuses
    <2>2. CASE "swallows" \notin form
        BY <1>7, <2>2 DEF SaveFails, Unsaved
    <2>3. QED
        BY <2>1, <2>2
<1>8. CASE Reloaded
    BY <1>8 DEF Reloaded, Excuses, FormInv, CallsOfForm
<1>9. QED
    BY <1>1, <1>2, <1>3, <1>4, <1>5, <1>6, <1>7, <1>8 DEF FormNext

\* Unsaved work leaves a form only when its user goes on or gives it up, or by one
\* of the exceptions.
THEOREM UnsavedWorkIsKept == TabSpec => WorkIsKept
<1>1. TabInit => FormInv
    BY FormStarts DEF TabInit, NoForm
<1>2. FormInv /\ [TabNext]_tabVars => FormInv'
    BY PartsStep, FormKeeps
<1>3. FormInv /\ [TabNext]_tabVars =>
          [\A e \in Edits : Unsaved(e) /\ ~Unsaved(e)' => Excuses(e)]_formVars
    BY PartsStep, StepExcuses
<1>4. QED
    BY <1>1, <1>2, <1>3, PTL DEF TabSpec, WorkIsKept

-----------------------------------------------------------------------------
(* The pages.  While the load begun last is on its way, it asks for what the *)
(* page shows then; once it has settled, the page shows it or has an excuse. *)

PageTypes ==
    /\ PageTypeOK
    /\ version \in 0 .. MaxWrites /\ own \in Nat
    /\ loading \in BOOLEAN /\ failed \in BOOLEAN /\ overtaken \in BOOLEAN /\ outdated \in BOOLEAN

\* The habits that the exceptions of the property rest on.
HabitsOfPages ==
    /\ "waits" \in page => page \cap {"filters", "turns", "refreshes", "echoes", "resets"} = {}
    /\ page \cap {"turns", "resets"} # {} => "filters" \in page
    /\ "rebuilds" \in page => page \cap {"waits", "single"} = {}
    /\ "guarded" \in page => Writes = {} /\ "echoes" \notin page
    /\ "echoes" \in page => Writes = {}

\* No two requests of the page are in flight at once.
OneAtATime == "waits" \in page /\ (Writes = {} \/ "single" \in page)

\* The pages that an answer may reach too late.
Overlaps == "guarded" \notin page /\ ~OneAtATime

\* The page shows what was asked, or one of the exceptions.
Excused ==
    \/ shown # None /\ shown.q = query /\ shown.v >= own
    \/ failed /\ ("clears" \in page => shown = None)
    \/ overtaken /\ Overlaps
    \/ outdated /\ "filters" \in page /\ Writes # {}

NewestAsks ==
    newest # None =>
        /\ loads[newest].live
        /\ loads[newest].q = query \/ (outdated /\ "filters" \in page /\ Writes # {})
        /\ (loads[newest].at = "served" /\ loads[newest].v < own) =>
               "patches" \in page /\ Overlaps

\* A write of its own: single writes are answered in the order of their versions.
WriteOK(w) ==
    /\ saving[w].then \in Writes /\ saving[w].v <= version
    /\ saving[w].q = query \/ "filters" \in page
    /\ ("single" \in page /\ saving[w].at = "served") => saving[w].v >= own

CallsOfPage ==
    /\ \A w \in Unsettled : WriteOK(w)
    /\ "single" \in page => \A w, x \in Unsettled : w = x
    /\ "guarded" \in page => \A s \in InFlight : loads[s].live => s = newest
    /\ OneAtATime =>
           /\ \A s \in InFlight : s = newest /\ loading
           /\ Unsettled # {} => InFlight = {}

PageInv ==
    /\ PageTypes /\ HabitsOfPages /\ NewestAsks /\ CallsOfPage
    /\ newest = None => Excused

LEMMA PageHabits == page \in Pages => HabitsOfPages
<1>. SUFFICES ASSUME page \in Pages PROVE HabitsOfPages
    OBVIOUS
<1>. USE DEF Pages, OrderHistory, ReportPage, ExpensePage, UserPage, ClientPage, ClientDetail,
             ClientEdit, ClientOmnibox, AgencyPage, OrderDetail, WorkflowPage, DeliveryDesk,
             StorageScan, DeliveriesPage, StorageMap, TenantsAdmin, PlansAdmin, SignupsAdmin,
             SettingsAdmin, ExpenseTypes, CashRegister, FinancePage, CataloguePage, ServicesTab,
             ArticlesTab, PricingTab, LocalitiesCard, NetworkBoard, SiteBoard, SiteOpsHome,
             SlotContents, AgencyDetail, AgencyChart, ArticlePicker, TenantHeader, Preferences
<1>1. "waits" \in page => page \cap {"filters", "turns", "refreshes", "echoes", "resets"} = {}
    OBVIOUS
<1>2. page \cap {"turns", "resets"} # {} => "filters" \in page
    OBVIOUS
<1>3. "rebuilds" \in page => page \cap {"waits", "single"} = {}
    OBVIOUS
<1>4. "guarded" \in page => Writes = {} /\ "echoes" \notin page
    BY DEF Writes
<1>5. "echoes" \in page => Writes = {}
    BY DEF Writes
<1>6. QED
    BY <1>1, <1>2, <1>4, <1>5, <1>3 DEF HabitsOfPages

LEMMA PageStarts ==
    ASSUME PageInit \/ PageAtRest
    PROVE  PageInv
<1>. USE PagesAssumption, NoneAssumption
<1>a. 0 \in 0 .. MaxWrites /\ 1 \in 1 .. MaxPage /\ 0 \in Nat
    OBVIOUS
<1>1. CASE PageInit
    <2>0. (CHOOSE t \in Loads : TRUE) \in Loads
        OBVIOUS
    <2>1. PICK s \in Loads, f \in Filters :
              /\ query = [filter |-> f, page |-> 1] /\ newest = s
              /\ loads = [t \in Loads |-> IF t # s THEN None
                                          ELSE [q |-> query, at |-> "asked", v |-> 0, live |-> TRUE]]
        BY <1>1, <2>0 DEF PageInit
    <2>2. query \in Query
        BY <2>1 DEF Query
    <2>3. PICK a : a = [q |-> query, at |-> "asked", v |-> 0, live |-> TRUE]
        OBVIOUS
    <2>4. a \in Load /\ a # None /\ a.q = query /\ a.live /\ a.at = "asked"
        <3>1. a \in Load
            BY <1>a, <2>2, <2>3 DEF Load
        <3>2. QED
            BY <2>3, <3>1
    <2>5. loads \in [Loads -> Load \cup {None}] /\ loads[s] = a /\ InFlight = {s}
        BY <2>1, <2>3, <2>4 DEF InFlight
    <2>6. PageTypes
        <3>1. /\ page \in Pages /\ newest \in InFlight \cup {None} /\ shown = None
              /\ saving = [w \in Handlers |-> None]
              /\ loading = TRUE /\ failed = FALSE /\ overtaken = FALSE /\ outdated = FALSE
              /\ version = 0 /\ own = 0
            BY <1>1, <2>1, <2>5 DEF PageInit
        <3>2. QED
            <4>1. PageTypeOK
                BY <2>2, <2>5, <3>1 DEF PageTypeOK
            <4>2. version \in 0 .. MaxWrites /\ own \in Nat
                BY <1>a, <3>1
            <4>3. /\ loading \in BOOLEAN /\ failed \in BOOLEAN
                  /\ overtaken \in BOOLEAN /\ outdated \in BOOLEAN
                BY <3>1
            <4>4. QED
                BY <4>1, <4>2, <4>3 DEF PageTypes
    <2>7. NewestAsks /\ CallsOfPage /\ newest # None
        <3>1. Unsettled = {} /\ newest = s /\ loading = TRUE
            BY <1>1, <2>1 DEF PageInit, Unsettled
        <3>2. QED
            BY <2>4, <2>5, <3>1 DEF NewestAsks, CallsOfPage
    <2>8. QED
        BY <2>6, <2>7, PageHabits DEF PageInv, PageTypes, PageTypeOK
<1>2. CASE PageAtRest
    <2>1. query \in Query
        BY <1>2 DEF PageAtRest, Query
    <2>2. shown \in Rows /\ shown # None /\ shown.q = query /\ shown.v = 0
        <3>1. shown = [q |-> query, v |-> 0]
            BY <1>2 DEF PageAtRest
        <3>2. QED
            BY <1>a, <2>1, <3>1 DEF Rows
    <2>3. loads \in [Loads -> Load \cup {None}] /\ InFlight = {}
        BY <1>2 DEF PageAtRest, InFlight
    <2>4. page \in Pages
        BY <1>2 DEF PageAtRest, Pages
    <2>5. PageTypes
        <3>1. /\ newest = None /\ saving = [w \in Handlers |-> None]
              /\ loading = FALSE /\ failed = FALSE /\ overtaken = FALSE /\ outdated = FALSE
              /\ version = 0 /\ own = 0
            BY <1>2 DEF PageAtRest
        <3>2. QED
            <4>1. PageTypeOK
                BY <2>1, <2>2, <2>3, <2>4, <3>1 DEF PageTypeOK
            <4>2. version \in 0 .. MaxWrites /\ own \in Nat
                BY <1>a, <3>1
            <4>3. /\ loading \in BOOLEAN /\ failed \in BOOLEAN
                  /\ overtaken \in BOOLEAN /\ outdated \in BOOLEAN
                BY <3>1
            <4>4. QED
                BY <4>1, <4>2, <4>3 DEF PageTypes
    <2>6. NewestAsks /\ CallsOfPage /\ Excused
        <3>1. Unsettled = {} /\ newest = None /\ own = 0
            BY <1>2 DEF PageAtRest, Unsettled
        <3>2. QED
            BY <2>2, <2>3, <3>1 DEF NewestAsks, CallsOfPage, Excused
    <2>7. QED
        BY <2>4, <2>5, <2>6, PageHabits DEF PageInv
<1>3. QED
    BY <1>1, <1>2

\* The loads once s asks for q.
LEMMA AskedLoads ==
    ASSUME loads \in [Loads -> Load \cup {None}], NEW s \in Loads, NEW q \in Query
    PROVE  /\ OnceAsked(s, q) \in [Loads -> Load \cup {None}]
           /\ OnceAsked(s, q)[s] # None
           /\ OnceAsked(s, q)[s].q = q /\ OnceAsked(s, q)[s].at = "asked" /\ OnceAsked(s, q)[s].live
           /\ \A t \in Loads \ {s} :
                  /\ OnceAsked(s, q)[t] = None <=> loads[t] = None
                  /\ ("guarded" \in page /\ loads[t] # None) => ~OnceAsked(s, q)[t].live
<1>1. PICK a : a = [q |-> q, at |-> "asked", v |-> 0, live |-> TRUE]
    OBVIOUS
<1>2. a \in Load /\ a # None /\ a.q = q /\ a.at = "asked" /\ a.live
    <2>1. 0 \in 0 .. MaxWrites
        BY PagesAssumption
    <2>2. a \in Load
        BY <1>1, <2>1 DEF Load
    <2>3. QED
        BY <1>1, <2>2, NoneAssumption
<1>3. ASSUME NEW t \in Loads, loads[t] # None
      PROVE  /\ [loads[t] EXCEPT !.live = FALSE] \in Load
             /\ [loads[t] EXCEPT !.live = FALSE].live = FALSE
    BY <1>3 DEF Load
<1>4. OnceAsked(s, q) = [t \in Loads |-> IF t = s THEN a
                             ELSE IF loads[t] # None /\ "guarded" \in page
                             THEN [loads[t] EXCEPT !.live = FALSE] ELSE loads[t]]
    BY <1>1 DEF OnceAsked
<1>5. QED
    BY <1>2, <1>3, <1>4, NoneAssumption

\* Any step that ends with a new load of s for q.
LEMMA Asking ==
    ASSUME PageInv, NEW s \in Loads, NEW q \in Query, loads' = OnceAsked(s, q), newest' = s,
           loading' = TRUE, UNCHANGED <<page, version>>,
           q = query' \/ (outdated' /\ "filters" \in page /\ Writes # {}),
           own' >= own /\ (own' = own \/ "single" \notin page \/ Unsettled' = {}),
           query' = query \/ "filters" \in page \/ Unsettled' = {},
           Unsettled' \subseteq Unsettled, \A w \in Unsettled' : saving'[w] = saving[w],
           OneAtATime => InFlight = {} /\ Unsettled' = {}
    PROVE  /\ loads' \in [Loads -> Load \cup {None}] /\ newest' \in InFlight' \cup {None}
           /\ newest' # None /\ NewestAsks' /\ CallsOfPage'
<1>1. loads \in [Loads -> Load \cup {None}]
    BY DEF PageInv, PageTypes, PageTypeOK
<1>2. /\ loads' \in [Loads -> Load \cup {None}]
      /\ loads'[s] # None
      /\ loads'[s].q = q /\ loads'[s].at = "asked" /\ loads'[s].live
      /\ \A t \in Loads \ {s} :
             /\ loads'[t] = None <=> loads[t] = None
             /\ ("guarded" \in page /\ loads[t] # None) => ~loads'[t].live
    BY <1>1, AskedLoads
<1>3. s # None /\ s \in InFlight'
    BY <1>2, PagesAssumption DEF InFlight
<1>4. NewestAsks'
    BY <1>2, <1>3 DEF NewestAsks, Writes
<1>5. CallsOfPage'
    <2>1. \A w \in Unsettled' : WriteOK(w)'
        BY DEF PageInv, CallsOfPage, WriteOK, Writes
    <2>2. "single" \in page => \A w, x \in Unsettled' : w = x
        BY DEF PageInv, CallsOfPage
    <2>3. "guarded" \in page => \A t \in InFlight' : loads'[t].live => t = s
        BY <1>2 DEF InFlight
    <2>4. OneAtATime => \A t \in InFlight' : t = s
        BY <1>2 DEF InFlight
    <2>5. QED
        BY <2>1, <2>2, <2>3, <2>4 DEF CallsOfPage, OneAtATime, Writes
<1>6. QED
    BY <1>2, <1>3, <1>4, <1>5

\* Only where requests overlap is a load answered that was not begun last.
LEMMA LateElsewhere ==
    ASSUME PageInv, NEW s \in InFlight, s # newest, loads[s].live
    PROVE  Overlaps
BY DEF PageInv, CallsOfPage, Overlaps

\* Load s has settled, and no new one has begun.
LEMMA Settling ==
    ASSUME PageInv, NEW s \in InFlight, loads' = [loads EXCEPT ![s] = None],
           UNCHANGED <<page, query, saving, version, own, outdated>>,
           newest' = IF newest = s THEN None ELSE newest,
           newest # s /\ newest # None => loading' \in {loading, FALSE}
    PROVE  /\ loads' \in [Loads -> Load \cup {None}] /\ newest' \in InFlight' \cup {None}
           /\ NewestAsks' /\ CallsOfPage'
<1>1. loads \in [Loads -> Load \cup {None}] /\ newest \in InFlight \cup {None}
    BY DEF PageInv, PageTypes, PageTypeOK
<1>2. \A t \in InFlight' : t \in InFlight /\ t # s /\ loads'[t] = loads[t]
    BY <1>1 DEF InFlight
<1>3. \A t \in InFlight : t # s => t \in InFlight' /\ loads'[t] = loads[t]
    BY <1>1 DEF InFlight
<1>4. newest' # None => newest' = newest /\ newest \in InFlight /\ newest # s
    BY <1>1
<1>5. NewestAsks'
    BY <1>3, <1>4 DEF PageInv, NewestAsks, Writes, Overlaps, OneAtATime
<1>6. "guarded" \in page => \A t \in InFlight' : loads'[t].live => t = newest'
    BY <1>2 DEF PageInv, CallsOfPage
<1>7. OneAtATime => InFlight' = {}
    BY <1>2 DEF PageInv, CallsOfPage
<1>8. CallsOfPage'
    BY <1>6, <1>7 DEF PageInv, CallsOfPage, WriteOK, Unsettled, OneAtATime, Writes
<1>9. QED
    BY <1>1, <1>3, <1>4, <1>5, <1>8

LEMMA PageKeeps ==
    ASSUME PageInv, [PageNext]_pageVars
    PROVE  PageInv'
<1>. USE PagesAssumption, NoneAssumption
<1>a. PageTypes /\ PageTypeOK /\ HabitsOfPages /\ NewestAsks /\ CallsOfPage
    BY DEF PageInv, PageTypes
<1>b. /\ page \in Pages /\ query \in Query /\ query.filter \in Filters /\ query.page \in 1 .. MaxPage
      /\ loads \in [Loads -> Load \cup {None}] /\ newest \in InFlight \cup {None}
      /\ shown \in Rows \cup {None} /\ saving \in [Handlers -> Write \cup {None}]
      /\ version \in 0 .. MaxWrites /\ version \in Nat /\ own \in Nat /\ own <= version
      /\ loading \in BOOLEAN /\ failed \in BOOLEAN /\ overtaken \in BOOLEAN /\ outdated \in BOOLEAN
    BY <1>a DEF PageTypes, PageTypeOK, Query
<1>c. \A q \in Query, p \in 1 .. MaxPage :
          [q EXCEPT !.page = p] \in Query /\ [q EXCEPT !.page = p].page = p
    BY DEF Query
<1>d. ASSUME UNCHANGED page, query' \in Query, loads' \in [Loads -> Load \cup {None}],
             newest' \in InFlight' \cup {None}, shown' \in Rows \cup {None},
             saving' \in [Handlers -> Write \cup {None}], version' \in 0 .. MaxWrites, own' \in Nat,
             own' <= version', loading' \in BOOLEAN, failed' \in BOOLEAN,
             overtaken' \in BOOLEAN, outdated' \in BOOLEAN,
             NewestAsks', CallsOfPage', newest' = None => Excused'
      PROVE  PageInv'
    <2>1. PageTypeOK'
        BY <1>b, <1>d DEF PageTypeOK
    <2>2. PageTypes'
        BY <1>d, <2>1 DEF PageTypes
    <2>3. HabitsOfPages'
        BY <1>a, <1>d DEF HabitsOfPages, Writes
    <2>4. QED
        BY <1>d, <2>2, <2>3 DEF PageInv
<1>e. \A s \in InFlight : s \in Loads /\ s # None /\ loads[s] \in Load /\ loads[s] # None
    BY <1>b DEF InFlight
<1>f. \A w \in Unsettled : w \in Handlers /\ saving[w] \in Write /\ WriteOK(w)
    BY <1>a, <1>b DEF Unsettled, CallsOfPage
<1>g. UNCHANGED saving => UNCHANGED Unsettled
    BY DEF Unsettled
\* The user asks for q.
<1>1. ASSUME NEW s \in Loads, NEW q \in Query, Ask(s, q), "waits" \notin page,
             q = query \/ "filters" \in page
      PROVE  PageInv'
    <2>1. /\ query' = q /\ loads' = OnceAsked(s, q) /\ newest' = s /\ loading' = TRUE
          /\ outdated' = FALSE
          /\ UNCHANGED <<page, shown, failed, overtaken, saving, version, own>>
        BY <1>1 DEF Ask
    <2>2. /\ loads' \in [Loads -> Load \cup {None}] /\ newest' \in InFlight' \cup {None}
          /\ newest' # None /\ NewestAsks' /\ CallsOfPage'
        <3>1. ~OneAtATime /\ Unsettled' = Unsettled /\ own' = own /\ own' >= own
            BY <1>1, <1>b, <1>g, <2>1 DEF OneAtATime
        <3>2. QED
            BY <1>1, <2>1, <3>1, Asking
    <2>3. QED
        BY <1>b, <1>d, <2>1, <2>2
<1>2. ASSUME NEW s \in Loads, NEW f \in Filters, ChangeFilter(s, f)
      PROVE  PageInv'
    <2>1. PICK q : q = [filter |-> f, page |-> 1]
        OBVIOUS
    <2>2. q \in Query
        BY <2>1 DEF Query
    <2>3. Ask(s, q) /\ "filters" \in page
        BY <1>2, <2>1 DEF ChangeFilter
    <2>4. QED
        BY <1>1, <1>a, <2>2, <2>3 DEF HabitsOfPages
<1>3. ASSUME NEW s \in Loads, NEW p \in 1 .. MaxPage, TurnPage(s, p)
      PROVE  PageInv'
    <2>1. Ask(s, [query EXCEPT !.page = p]) /\ "turns" \in page
        BY <1>3 DEF TurnPage
    <2>2. QED
        BY <1>1, <1>a, <1>b, <1>c, <2>1 DEF HabitsOfPages
<1>4. ASSUME NEW s \in Loads, Refresh(s)
      PROVE  PageInv'
    <2>1. Ask(s, query) /\ "refreshes" \in page
        BY <1>4 DEF Refresh
    <2>2. QED
        BY <1>1, <1>a, <1>b, <2>1 DEF HabitsOfPages
<1>5. ASSUME NEW w \in Handlers, NEW habit \in Writes, Submit(w, habit)
      PROVE  PageInv'
    <2>1. PICK c : c = [q |-> query, rows |-> shown, then |-> habit, at |-> "asked", v |-> 0]
        OBVIOUS
    <2>2. /\ saving' = [saving EXCEPT ![w] = c] /\ ("waits" \in page => ~loading)
          /\ "single" \in page => Unsettled = {}
          /\ UNCHANGED <<page, query, loads, newest, loading, shown, failed, overtaken, outdated,
                         version, own>>
        BY <1>5, <2>1 DEF Submit, Act, web
    <2>3. c \in Write /\ c.q = query /\ c.then = habit /\ c.v = 0 /\ c.at = "asked"
        <3>1. 0 \in 0 .. MaxWrites
            OBVIOUS
        <3>2. QED
            BY <1>b, <2>1, <3>1 DEF Write, Writes
    <2>4. /\ saving' \in [Handlers -> Write \cup {None}] /\ saving'[w] = c
          /\ \A x \in Unsettled' : x = w \/ (x \in Unsettled /\ saving'[x] = saving[x])
        BY <1>b, <2>2, <2>3 DEF Unsettled
    <2>5. InFlight' = InFlight /\ (OneAtATime => InFlight = {})
        BY <1>a, <2>2 DEF CallsOfPage, InFlight, OneAtATime
    <2>6. CallsOfPage'
        <3>1. ASSUME NEW x \in Unsettled'
              PROVE  WriteOK(x)'
            BY <1>b, <1>f, <2>2, <2>3, <2>4 DEF WriteOK, Writes
        <3>2. "single" \in page => \A x, y \in Unsettled' : x = y
            BY <2>2, <2>4
        <3>3. "guarded" \in page => \A s \in InFlight' : loads'[s].live => s = newest'
            BY <1>a, <2>2, <2>5 DEF CallsOfPage
        <3>4. OneAtATime' => InFlight' = {}
            BY <2>2, <2>5 DEF OneAtATime, Writes
        <3>5. QED
            BY <2>2, <3>1, <3>2, <3>3, <3>4 DEF CallsOfPage
    <2>7. NewestAsks' /\ (newest' = None => Excused')
        BY <2>2 DEF PageInv, NewestAsks, Excused, Overlaps, OneAtATime, Writes
    <2>8. QED
        BY <1>b, <1>d, <2>2, <2>4, <2>5, <2>6, <2>7
<1>6. ASSUME NEW s \in Loads, Serve(s)
      PROVE  PageInv'
    <2>1. PICK a : a = [loads[s] EXCEPT !.at = "served", !.v = version]
        OBVIOUS
    <2>2. /\ loads[s] # None /\ loads[s] \in Load
          /\ UNCHANGED <<page, query, newest, loading, shown, failed, overtaken, outdated,
                         saving, version, own>>
        BY <1>6, <1>b DEF Serve
    <2>3. /\ a \in Load /\ a # None /\ a.q = loads[s].q /\ a.live = loads[s].live
          /\ a.v = version
        BY <1>b, <2>1, <2>2 DEF Load
    <2>4. loads' = [loads EXCEPT ![s] = a]
        BY <1>6, <1>b, <2>1 DEF Serve
    <2>5. /\ loads' \in [Loads -> Load \cup {None}] /\ InFlight' = InFlight
          /\ \A t \in InFlight : loads'[t] = IF t = s THEN a ELSE loads[t]
        BY <1>b, <2>2, <2>3, <2>4 DEF InFlight
    <2>6. NewestAsks'
        BY <1>a, <1>b, <2>2, <2>3, <2>5 DEF NewestAsks, Overlaps, OneAtATime, Writes
    <2>7. CallsOfPage'
        BY <1>a, <1>g, <2>2, <2>3, <2>5 DEF CallsOfPage, WriteOK, OneAtATime, Writes
    <2>8. newest' = None => Excused'
        BY <2>2 DEF PageInv, Excused, Overlaps, OneAtATime, Writes
    <2>9. QED
        BY <1>b, <1>d, <2>2, <2>5, <2>6, <2>7, <2>8
<1>7. ASSUME version' \in 0 .. MaxWrites, version <= version',
             saving' \in [Handlers -> Write \cup {None}], Unsettled' \subseteq Unsettled,
             \A w \in Unsettled' :
                 /\ saving'[w].then = saving[w].then /\ saving'[w].q = saving[w].q
                 /\ saving'[w].v <= version'
                 /\ ("single" \in page /\ saving'[w].at = "served") => saving'[w].v >= own,
             UNCHANGED <<page, query, loads, newest, loading, shown, failed, overtaken, outdated, own>>
      PROVE  PageInv'
    <2>1. InFlight' = InFlight
        BY <1>7 DEF InFlight
    <2>2. NewestAsks' /\ (newest' = None => Excused')
        BY <1>7 DEF PageInv, NewestAsks, Excused, Overlaps, OneAtATime, Writes
    <2>3. CallsOfPage'
        <3>1. \A w \in Unsettled' : WriteOK(w)'
            BY <1>7, <1>f DEF WriteOK, Writes
        <3>2. "single" \in page => \A w, x \in Unsettled' : w = x
            BY <1>a, <1>7 DEF CallsOfPage
        <3>3. QED
            BY <1>a, <1>7, <2>1, <3>1, <3>2 DEF CallsOfPage, OneAtATime, Writes
    <2>4. own' <= version'
        BY <1>b, <1>7
    <2>5. QED
        BY <1>b, <1>d, <1>7, <2>1, <2>2, <2>3, <2>4
<1>8. ASSUME NEW w \in Handlers, ServeWrite(w)
      PROVE  PageInv'
    <2>1. PICK c : c = [saving[w] EXCEPT !.at = "served", !.v = version']
        OBVIOUS
    <2>2. /\ w \in Unsettled /\ version < MaxWrites /\ version' = version + 1
          /\ saving' = [saving EXCEPT ![w] = c]
          /\ UNCHANGED <<page, query, loads, newest, loading, shown, failed, overtaken, outdated, own>>
        BY <1>b, <1>8, <2>1 DEF ServeWrite, Unsettled, web
    <2>3. PICK n \in 0 .. MaxWrites : n = version'
        BY <1>b, <2>2
    <2>4. c \in Write /\ c.then = saving[w].then /\ c.q = saving[w].q /\ c.v = n
        BY <1>f, <2>1, <2>2, <2>3 DEF Write
    <2>5. /\ saving' \in [Handlers -> Write \cup {None}] /\ saving'[w] = c
          /\ \A x \in Handlers : x # w => saving'[x] = saving[x]
        BY <1>b, <2>2, <2>4
    <2>6. \A x \in Unsettled' : x \in Unsettled /\ (x # w => saving'[x] = saving[x])
        BY <2>2, <2>5 DEF Unsettled
    <2>7. \A x \in Unsettled' :
              /\ saving'[x].then = saving[x].then /\ saving'[x].q = saving[x].q
              /\ saving'[x].v <= version'
              /\ ("single" \in page /\ saving'[x].at = "served") => saving'[x].v >= own
        <3>1. n <= version' /\ n >= own
            BY <1>b, <2>2, <2>3
        <3>2. \A x \in Unsettled' : x # w => saving[x].v <= version'
            BY <1>b, <1>f, <2>2, <2>6 DEF WriteOK, Write
        <3>3. QED
            BY <1>f, <2>4, <2>5, <2>6, <3>1, <3>2 DEF WriteOK
    <2>8. QED
        BY <1>b, <1>7, <2>2, <2>3, <2>5, <2>6, <2>7
<1>9. CASE OtherWrite
    <2>1. /\ version' \in 0 .. MaxWrites /\ version <= version'
          /\ UNCHANGED <<page, query, loads, newest, loading, shown, failed, overtaken, outdated,
                         saving, own>>
        BY <1>9, <1>b DEF OtherWrite, web
    <2>2. \A w \in Unsettled : saving[w].v <= version'
        BY <1>b, <1>f, <2>1 DEF WriteOK, Write
    <2>3. QED
        BY <1>b, <1>f, <1>g, <1>7, <2>1, <2>2 DEF WriteOK
<1>10. ASSUME NEW w \in Handlers, WriteFails(w)
       PROVE  PageInv'
    <2>1. /\ saving' = [saving EXCEPT ![w] = None]
          /\ UNCHANGED <<page, query, loads, newest, loading, shown, failed, overtaken, outdated,
                         version, own>>
        BY <1>10 DEF WriteFails, web
    <2>2. /\ saving' \in [Handlers -> Write \cup {None}]
          /\ \A x \in Unsettled' : x \in Unsettled /\ saving'[x] = saving[x]
        BY <1>b, <2>1 DEF Unsettled
    <2>3. QED
        BY <1>b, <1>f, <1>7, <2>1, <2>2 DEF WriteOK
<1>11. ASSUME NEW s \in Loads, Answer(s)
       PROVE  PageInv'
    <2>1. /\ s \in InFlight /\ loads[s].at = "served" /\ loads[s].live
          /\ shown' = [q |-> loads[s].q, v |-> loads[s].v]
          /\ UNCHANGED <<page, outdated, saving, version, own>>
        BY <1>11 DEF Answer, InFlight
    <2>2. PICK r : r = [q |-> loads[s].q, v |-> loads[s].v]
        OBVIOUS
    <2>3. /\ r \in Rows /\ r # None /\ r.q = loads[s].q /\ r.v = loads[s].v /\ shown' = r
          /\ loads[s].q \in Query /\ loads[s].q.page \in 1 .. MaxPage /\ loads[s].v \in Nat
        BY <1>e, <2>1, <2>2 DEF Load, Rows, Query
    <2>4. CASE Echoes(s)
        <3>1. PICK q \in Query : q = [query EXCEPT !.page = loads[s].q.page]
            BY <1>b, <1>c, <2>3
        <3>2. /\ query' = q /\ loads' = OnceAsked(s, q) /\ newest' = s /\ loading' = TRUE
              /\ UNCHANGED <<failed, overtaken>> /\ "echoes" \in page
            BY <1>11, <2>4, <3>1 DEF Answer, Echoes
        <3>3. ~OneAtATime /\ Unsettled = {} /\ Unsettled' = {}
            BY <1>a, <1>f, <1>g, <2>1, <3>2 DEF HabitsOfPages, WriteOK, OneAtATime
        <3>6. own' = own /\ own' >= own
            BY <1>b, <2>1
        <3>4. /\ loads' \in [Loads -> Load \cup {None}] /\ newest' \in InFlight' \cup {None}
              /\ newest' # None /\ NewestAsks' /\ CallsOfPage'
            BY <2>1, <3>2, <3>3, <3>6, Asking
        <3>5. QED
            BY <1>b, <1>d, <2>1, <2>3, <3>2, <3>4
    <2>5. CASE ~Echoes(s)
        <3>1. /\ loads' = [loads EXCEPT ![s] = None] /\ loading' = FALSE /\ UNCHANGED query
              /\ Settle(s, TRUE, FALSE)
            BY <1>11, <2>5 DEF Answer
        <3>2. PICK late \in BOOLEAN : late = ("patches" \in page /\ loads[s].v < own)
            OBVIOUS
        <3>3. /\ newest' = IF newest = s THEN None ELSE newest
              /\ failed' = IF newest = s THEN FALSE ELSE failed
              /\ overtaken' = IF newest = s THEN late ELSE overtaken \/ newest = None
            BY <3>1, <3>2 DEF Settle
        <3>4. /\ loads' \in [Loads -> Load \cup {None}] /\ newest' \in InFlight' \cup {None}
              /\ NewestAsks' /\ CallsOfPage'
            BY <2>1, <3>1, <3>3, Settling
        <3>5. ASSUME newest' = None
              PROVE  Excused'
            <4>1. CASE newest = s
                <5>1. /\ loads[s].q = query \/ (outdated /\ "filters" \in page /\ Writes # {})
                      /\ loads[s].v < own =>
                             "patches" \in page /\ Overlaps
                    BY <1>a, <1>e, <2>1, <4>1 DEF NewestAsks
                <5>2. CASE outdated /\ "filters" \in page /\ Writes # {}
                    BY <2>1, <5>2 DEF Excused, Writes
                <5>3. CASE loads[s].q = query /\ loads[s].v >= own
                    BY <2>1, <2>3, <3>1, <5>3 DEF Excused
                <5>4. CASE loads[s].v < own
                    BY <2>1, <3>2, <3>3, <4>1, <5>1, <5>4 DEF Excused, Overlaps, OneAtATime, Writes
                <5>5. QED
                    BY <1>b, <2>3, <5>1, <5>2, <5>3, <5>4
            <4>2. CASE newest # s
                <5>1. newest = None /\ Overlaps
                    BY <2>1, <3>3, <3>5, <4>2, LateElsewhere
                <5>2. overtaken'
                    BY <3>3, <4>2, <5>1
                <5>3. QED
                    BY <2>1, <5>1, <5>2 DEF Excused, Overlaps, OneAtATime, Writes
            <4>3. QED
                BY <4>1, <4>2
        <3>6. failed' \in BOOLEAN /\ overtaken' \in BOOLEAN
            BY <1>b, <3>2, <3>3
        <3>7. QED
            BY <1>b, <1>d, <2>1, <2>3, <3>1, <3>4, <3>5, <3>6
    <2>6. QED
        BY <2>4, <2>5
<1>12. ASSUME NEW s \in Loads, Fail(s)
       PROVE  PageInv'
    <2>1. /\ s \in InFlight /\ loads[s].live
          /\ shown' = IF "clears" \in page THEN None ELSE shown
          /\ loads' = [loads EXCEPT ![s] = None] /\ loading' = FALSE
          /\ UNCHANGED <<page, query, outdated, saving, version, own>>
        BY <1>12 DEF Fail, InFlight
    <2>2. PICK empties \in BOOLEAN : empties <=> "clears" \in page
        OBVIOUS
    <2>3. /\ newest' = IF newest = s THEN None ELSE newest
          /\ failed' = IF newest = s THEN TRUE ELSE failed
          /\ overtaken' = IF newest = s THEN FALSE
                          ELSE overtaken \/ (newest = None /\ empties)
        BY <1>12, <2>2 DEF Fail, Settle
    <2>4. /\ loads' \in [Loads -> Load \cup {None}] /\ newest' \in InFlight' \cup {None}
          /\ NewestAsks' /\ CallsOfPage'
        BY <2>1, <2>3, Settling
    <2>5. ASSUME newest' = None
          PROVE  Excused'
        <3>1. CASE newest = s
            BY <2>1, <2>3, <3>1 DEF Excused
        <3>2. CASE newest # s /\ empties
            <4>1. newest = None /\ Overlaps
                BY <2>1, <2>3, <2>5, <3>2, LateElsewhere
            <4>2. overtaken'
                BY <2>3, <3>2, <4>1
            <4>3. QED
                BY <2>1, <4>1, <4>2 DEF Excused, Overlaps, OneAtATime, Writes
        <3>3. CASE newest # s /\ ~empties
            <4>1. /\ newest = None /\ failed' = failed /\ shown' = shown
                  /\ overtaken => overtaken'
                BY <2>1, <2>2, <2>3, <2>5, <3>3
            <4>2. Excused
                BY <4>1 DEF PageInv
            <4>3. QED
                BY <2>1, <4>1, <4>2 DEF Excused, Overlaps, OneAtATime, Writes
        <3>4. QED
            BY <3>1, <3>2, <3>3
    <2>6. failed' \in BOOLEAN /\ overtaken' \in BOOLEAN
        BY <1>b, <2>2, <2>3
    <2>7. QED
        BY <1>b, <1>d, <2>1, <2>4, <2>5, <2>6
<1>13. ASSUME NEW s \in Loads, Ignored(s)
       PROVE  PageInv'
    <2>1. /\ s \in InFlight /\ ~loads[s].live
          /\ loads' = [loads EXCEPT ![s] = None]
          /\ UNCHANGED <<page, query, newest, loading, shown, failed, overtaken, outdated,
                         saving, version, own>>
        BY <1>13 DEF Ignored, InFlight
    <2>2. newest # s
        BY <1>a, <1>e, <2>1 DEF NewestAsks
    <2>3. /\ loads' \in [Loads -> Load \cup {None}] /\ newest' \in InFlight' \cup {None}
          /\ NewestAsks' /\ CallsOfPage'
        BY <2>1, <2>2, Settling
    <2>4. newest' = None => Excused'
        BY <2>1 DEF PageInv, Excused, Overlaps, OneAtATime, Writes
    <2>5. QED
        BY <1>b, <1>d, <2>1, <2>3, <2>4
<1>14. ASSUME NEW w \in Handlers, WriteAnswered(w)
       PROVE  PageInv'
    <2>1. PICK c : c = saving[w]
        OBVIOUS
    <2>2. /\ w \in Unsettled /\ c \in Write /\ c.at = "served"
          /\ own' = Known(w) /\ saving' = [saving EXCEPT ![w] = None]
          /\ UNCHANGED <<page, version>>
        BY <1>14, <1>b, <2>1 DEF WriteAnswered, Unsettled
    <2>3. /\ c.v \in Nat /\ c.v \in 0 .. MaxWrites /\ c.v <= version /\ c.q \in Query
          /\ c.rows \in Rows \cup {None}
          /\ c.then \in Writes /\ (c.q = query \/ "filters" \in page)
          /\ "single" \in page => c.v >= own
        BY <1>f, <2>1, <2>2 DEF Write, WriteOK
    <2>4. /\ saving' \in [Handlers -> Write \cup {None}]
          /\ \A x \in Unsettled' : x \in Unsettled /\ x # w /\ saving'[x] = saving[x]
        BY <1>b, <2>2 DEF Unsettled
    <2>5. own' = IF c.v < own THEN own ELSE c.v
        BY <2>1, <2>2 DEF Known
    <2>6. /\ own' \in Nat /\ own' <= version' /\ version' \in 0 .. MaxWrites
          /\ own' >= own /\ own' >= c.v
        BY <1>b, <2>2, <2>3, <2>5
    <2>7. /\ "guarded" \notin page /\ Writes # {} /\ "echoes" \notin page
          /\ "single" \in page => Unsettled' = {}
          /\ OneAtATime => InFlight = {} /\ Unsettled' = {}
        BY <1>a, <2>2, <2>3, <2>4 DEF HabitsOfPages, CallsOfPage, OneAtATime
    <2>8. ASSUME NEW s \in Loads, Reload(w, s)
          PROVE  PageInv'
        <3>1. PICK past \in BOOLEAN : past = (c.q # query)
            OBVIOUS
        <3>2. /\ loads' = OnceAsked(s, c.q) /\ newest' = s /\ loading' = TRUE
              /\ outdated' = past /\ UNCHANGED <<query, shown, failed, overtaken>>
            BY <2>1, <2>8, <3>1 DEF Reload
        <3>3. c.q = query' \/ (outdated' /\ "filters" \in page /\ Writes # {})
            BY <2>3, <2>7, <3>1, <3>2
        <3>4. /\ loads' \in [Loads -> Load \cup {None}] /\ newest' \in InFlight' \cup {None}
              /\ newest' # None /\ NewestAsks' /\ CallsOfPage'
            BY <2>2, <2>3, <2>4, <2>6, <2>7, <3>2, <3>3, Asking
        <3>5. QED
            BY <1>b, <1>d, <2>2, <2>4, <2>6, <3>2, <3>4
    <2>9. ASSUME Patch(w)
          PROVE  PageInv'
        <3>0. PICK late \in BOOLEAN : late <=> Late(w)
            OBVIOUS
        <3>1. /\ c.then = "patches" /\ shown' \in Patched(w)
              /\ overtaken' = (overtaken \/ late)
              /\ UNCHANGED <<query, loads, newest, loading, failed, outdated>>
            BY <2>1, <2>9, <3>0 DEF Patch
        <3>2. \A v \in 0 .. MaxWrites : shown # None =>
                  LET r == [shown EXCEPT !.v = v] IN r \in Rows /\ r.q = shown.q /\ r.v = v
            BY <1>b DEF Rows
        <3>3. own' \in 0 .. MaxWrites /\ own' = Known(w)
            BY <1>b, <2>2, <2>6
        <3>4. "patches" \in page
            BY <2>3, <3>1 DEF Writes
        <3>5. InFlight' = InFlight
            BY <3>1 DEF InFlight
        <3>6. shown' \in Rows \cup {None}
            BY <1>b, <2>1, <2>3, <3>1, <3>2, <3>3 DEF Patched
        <3>7. ~late => /\ shown' = None <=> shown = None
                       /\ shown # None => shown'.q = shown.q /\ shown'.v = own'
            <4>1. ASSUME ~late
                  PROVE  /\ shown' = None <=> shown = None
                         /\ shown # None => shown'.q = shown.q /\ shown'.v = own'
                <5>1. own' = c.v /\ ~("rebuilds" \in page /\ saving[w].rows # shown)
                    BY <1>b, <2>1, <2>3, <2>5, <3>0, <4>1 DEF Late
                <5>2. Patched(w) = IF shown = None THEN {None}
                                   ELSE {[shown EXCEPT !.v = v] : v \in {c.v, own'}}
                    BY <2>1, <3>3, <5>1 DEF Patched
                <5>3. CASE shown = None
                    BY <3>1, <5>2, <5>3
                <5>4. CASE shown # None
                    <6>1. shown' = [shown EXCEPT !.v = own']
                        BY <3>1, <5>1, <5>2, <5>4
                    <6>2. QED
                        BY <3>2, <3>3, <5>4, <6>1
                <5>5. QED
                    BY <5>3, <5>4
            <4>2. QED
                BY <4>1
        <3>8. late => Overlaps
            <4>1. late => "single" \notin page
                BY <1>a, <1>b, <2>1, <2>3, <3>0 DEF Late, HabitsOfPages
            <4>2. QED
                BY <2>7, <4>1 DEF Overlaps, OneAtATime
        <3>9. NewestAsks'
            <4>1. newest # None => Overlaps
                BY <1>b, <2>7 DEF Overlaps
            <4>2. QED
                BY <1>a, <2>2, <3>1, <3>4, <4>1 DEF NewestAsks, Overlaps, OneAtATime, Writes
        <3>10. CallsOfPage'
            <4>1. \A x \in Unsettled' : WriteOK(x)'
                BY <1>f, <2>2, <2>4, <2>7, <3>1 DEF WriteOK, Writes
            <4>2. QED
                BY <1>a, <2>2, <2>4, <2>7, <3>1, <3>5, <4>1 DEF CallsOfPage, OneAtATime, Writes
        <3>11. ASSUME newest' = None
               PROVE  Excused'
            <4>1. Excused
                BY <3>1, <3>11 DEF PageInv
            <4>2. CASE late
                BY <2>2, <3>1, <3>8, <4>2 DEF Excused, Overlaps, OneAtATime, Writes
            <4>3. CASE ~late /\ shown # None /\ shown.q = query
                BY <2>2, <2>6, <3>1, <3>7, <4>3 DEF Excused
            <4>4. CASE ~late /\ ~(shown # None /\ shown.q = query)
                BY <2>2, <3>1, <3>7, <4>1, <4>4 DEF Excused, Overlaps, OneAtATime, Writes
            <4>5. QED
                BY <4>2, <4>3, <4>4
        <3>12. overtaken' \in BOOLEAN
            BY <3>1
        <3>13. QED
            BY <1>b, <1>d, <2>2, <2>4, <2>6, <3>1, <3>5, <3>6, <3>9, <3>10, <3>11, <3>12
    <2>10. ASSUME NEW s \in Loads, NEW t \in Loads, Reset(w, s, t)
          PROVE  PageInv'
        <3>1. PICK past \in BOOLEAN : past = (c.q # query)
            OBVIOUS
        <3>2. PICK q \in Query : q = [query EXCEPT !.page = 1]
            <4>1. 1 \in 1 .. MaxPage
                OBVIOUS
            <4>2. QED
                BY <1>b, <1>c, <4>1
        <3>3. /\ c.then = "resets" /\ query' = q /\ loading' = TRUE
              /\ loads[s] = None /\ loads[t] = None
              /\ UNCHANGED <<shown, failed, overtaken>>
            BY <2>1, <2>10, <3>2 DEF Reset, FreeLoad
        <3>4. "filters" \in page /\ ~OneAtATime
            BY <1>a, <2>3, <3>3 DEF HabitsOfPages, OneAtATime, Writes
        <3>5. CASE query.page = 1
            <4>1. q = query
                BY <1>b, <3>2, <3>5 DEF Query
            <4>2. loads' = OnceAsked(s, c.q) /\ newest' = s /\ outdated' = past
                BY <2>1, <2>10, <3>1, <3>5 DEF Reset
            <4>3. c.q = query' \/ (outdated' /\ "filters" \in page /\ Writes # {})
                BY <2>3, <2>7, <3>1, <3>3, <3>4, <4>1, <4>2
            <4>4. /\ loads' \in [Loads -> Load \cup {None}] /\ newest' \in InFlight' \cup {None}
                  /\ newest' # None /\ NewestAsks' /\ CallsOfPage'
                BY <2>2, <2>3, <2>4, <2>6, <2>7, <3>3, <3>4, <4>2, <4>3, Asking
            <4>5. QED
                BY <1>b, <1>d, <2>2, <2>4, <2>6, <3>3, <4>2, <4>4
        <3>6. CASE query.page # 1
            <4>1. PICK a : a = [q |-> q, at |-> "asked", v |-> 0, live |-> TRUE]
                OBVIOUS
            <4>2. a \in Load
                <5>1. 0 \in 0 .. MaxWrites
                    OBVIOUS
                <5>2. QED
                    BY <4>1, <5>1 DEF Load
            <4>3. a # None /\ a.q = q /\ a.at = "asked" /\ a.live
                BY <4>1, <4>2
            <4>4. /\ loads' = [OnceAsked(s, c.q) EXCEPT ![t] = a]
                  /\ newest' = t /\ outdated' = FALSE
                BY <2>1, <2>10, <3>2, <3>3, <3>6, <4>1 DEF Reset
            <4>5. loads' \in [Loads -> Load \cup {None}] /\ loads'[t] = a
                BY <1>b, <2>3, <4>2, <4>4, AskedLoads
            <4>6. t # None /\ t \in InFlight'
                BY <4>3, <4>5 DEF InFlight
            <4>7. NewestAsks'
                BY <3>3, <4>3, <4>4, <4>5 DEF NewestAsks
            <4>8. CallsOfPage'
                <5>1. \A x \in Unsettled' : WriteOK(x)'
                    BY <1>f, <2>2, <2>4, <2>7, <3>4 DEF WriteOK, Writes
                <5>2. QED
                    BY <1>a, <2>2, <2>4, <2>7, <3>4, <5>1 DEF CallsOfPage, OneAtATime, Writes
            <4>9. QED
                BY <1>b, <1>d, <2>2, <2>4, <2>6, <3>3, <4>4, <4>5, <4>6, <4>7, <4>8
        <3>7. QED
            BY <3>5, <3>6
    <2>11. QED
        BY <1>14, <2>8, <2>9, <2>10 DEF WriteAnswered
<1>15. CASE UNCHANGED pageVars
    <2>1. /\ UNCHANGED <<page, query, loads, newest, loading, shown, failed, overtaken, outdated,
                          saving, version, own>>
          /\ version <= version
        BY <1>15, <1>b DEF pageVars, web
    <2>2. QED
        BY <1>b, <1>f, <1>g, <1>7, <2>1 DEF WriteOK
<1>16. QED
    BY <1>2, <1>3, <1>4, <1>5, <1>6, <1>8, <1>9, <1>10, <1>11, <1>12, <1>13, <1>14, <1>15
    DEF PageNext, LoadStep, SaveStep

\* A page at rest shows what its filters and page number say, or an exception.
THEOREM PagesShowWhatIsAsked == TabSpec => []ShownIsAsked
<1>1. TabInit => PageInv
    BY PageStarts DEF TabInit
<1>2. PageInv /\ [TabNext]_tabVars => PageInv'
    BY PartsStep, PageKeeps
<1>3. PageInv => ShownIsAsked
    <2>. SUFFICES ASSUME PageInv PROVE ShownIsAsked
        OBVIOUS
    <2>1. PageTypeOK /\ newest \in InFlight \cup {None}
        BY DEF PageInv, PageTypes, PageTypeOK
    <2>2. Quiet => newest = None
        BY <2>1 DEF Quiet
    <2>3. Quiet => Excused
        BY <2>2 DEF PageInv
    <2>4. QED
        BY <2>1, <2>3 DEF Excused, Overlaps, OneAtATime, ShownIsAsked
<1>4. QED
    BY <1>1, <1>2, <1>3, PTL DEF TabSpec

=============================================================================
