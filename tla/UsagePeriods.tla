---------------------------- MODULE UsagePeriods ----------------------------
(***************************************************************************)
(* The accounting periods of PeriodResolverService: the key and the first  *)
(* day of the day, week, month or year a date falls in.  A date is the     *)
(* number of days since Monday 1 January 2024 in the tenant's time zone.   *)
(***************************************************************************)
EXTENDS Integers, Sequences

Period == {"daily", "weekly", "monthly", "yearly"}

FirstYear == 2024
LastYear  == 2040    \* bound: the last year of the calendar
Years     == FirstYear .. LastYear

-----------------------------------------------------------------------------
(* The Gregorian calendar. *)

IsLeap(y) == y % 4 = 0 /\ (y % 100 # 0 \/ y % 400 = 0)

\* The date of 1 January.
YearStart[y \in FirstYear .. LastYear + 1] ==
    IF y = FirstYear THEN 0
    ELSE YearStart[y - 1] + IF IsLeap(y - 1) THEN 366 ELSE 365

\* The dates whose week has its Thursday before the end of the calendar.
Calendar == 0 .. YearStart[LastYear + 1] - 4

YearOf(d) == CHOOSE y \in Years : YearStart[y] <= d /\ d < YearStart[y + 1]

\* Days of a year before each month, and before the next year.
DaysBefore(y) ==
    IF IsLeap(y) THEN <<0, 31, 60, 91, 121, 152, 182, 213, 244, 274, 305, 335, 366>>
                 ELSE <<0, 31, 59, 90, 120, 151, 181, 212, 243, 273, 304, 334, 365>>

MonthOf(d) ==
    LET y == YearOf(d)
    IN  CHOOSE m \in 1 .. 12 : /\ DaysBefore(y)[m] <= d - YearStart[y]
                               /\ d - YearStart[y] < DaysBefore(y)[m + 1]

\* A date from its parts.
Date(y, m, day) == YearStart[y] + DaysBefore(y)[m] + day - 1

\* Weeks run from Monday to Sunday; date 0 is a Monday.
WeekStart(d) == d - (d % 7)

\* ISO 8601: a week belongs to the year of its Thursday.
ISOWeek(d) ==
    LET thursday == WeekStart(d) + 3
    IN  1 + (thursday - YearStart[YearOf(thursday)]) \div 7

-----------------------------------------------------------------------------
(* resolve. *)

\* The first day of the period a date falls in.
PeriodStart(period, d) ==
    CASE period = "daily"   -> d
      [] period = "weekly"  -> WeekStart(d)
      [] period = "monthly" -> Date(YearOf(d), MonthOf(d), 1)
      [] period = "yearly"  -> YearStart[YearOf(d)]

\* Mutated form: the month written as mm, the minutes.
MutantPeriodKey(period, d) ==
    CASE period = "daily"   -> <<YearOf(d), MonthOf(d), d - Date(YearOf(d), MonthOf(d), 1)>>
      [] period = "weekly"  -> <<YearOf(d), ISOWeek(d)>>
      [] period = "monthly" -> <<YearOf(d), 0>>
      [] period = "yearly"  -> <<YearOf(d)>>

\* The key its counter is stored under: yyyy-MM-dd, yyyy-'W'II (the calendar
\* year with the ISO week), yyyy-MM, yyyy.
PeriodKey(period, d) ==
    CASE period = "daily"   -> <<YearOf(d), MonthOf(d), d - Date(YearOf(d), MonthOf(d), 1)>>
      [] period = "weekly"  -> <<YearOf(d), ISOWeek(d)>>
      [] period = "monthly" -> <<YearOf(d), MonthOf(d)>>
      [] period = "yearly"  -> <<YearOf(d)>>

=============================================================================
