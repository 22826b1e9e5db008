---------------------------- MODULE TrendPeriods ----------------------------
(***************************************************************************)
(* The days that a period of the statistics' trends stands for.  The       *)
(* server labels a day with its date, its ISO week or its month; the page  *)
(* computes from the label alone the first and the last day of the period, *)
(* and from these whether all of it has been counted.  Days are numbered   *)
(* from a Monday, the first of January 2018.                               *)
(***************************************************************************)
EXTENDS Integers

CONSTANTS
  LastYear,    \* bounds the years, from 2018
  Near,        \* bounds the days: so many before and after a year begins
  None

VARIABLES
  unit,     \* granularity
  day,      \* a day with events
  from, to, \* the dates that are selected, None for no limit
  today

periodVars == <<unit, day, from, to, today>>

\* The leap years before a year; the first day of a year, and of a month of it.
Leaps(y) == (y - 1) \div 4 - (y - 1) \div 100 + (y - 1) \div 400

Jan1(y) == 365 * (y - 2018) + Leaps(y) - Leaps(2018)

Length(y, m) == IF m = 2 THEN Jan1(y + 1) - Jan1(y) - 337 ELSE IF m \in {4, 6, 9, 11} THEN 30 ELSE 31

MonthStart(y, m) ==
  LET start[k \in 1..12] == IF k = 1 THEN Jan1(y) ELSE start[k - 1] + Length(y, k - 1) IN start[m]

\* new Date(y, m, d): the months begin with 0, and d may leave the month.
Date(y, m, d) ==
  LET year  == y + (m \div 12)
      month == (m % 12) + 1
  IN MonthStart(year, month) + d - 1

Weekday(x) == (x % 7) + 1    \* getDay() || 7
YearOf(x) == CHOOSE y \in (2018 + (x \div 366))..(2018 + (x \div 365)) : Jan1(y) <= x /\ x < Jan1(y + 1)

\* The label that PostgreSQL gives a day; an ISO week belongs to the year that
\* its Thursday is in.
Label(u, x) ==
  LET thursday == x - Weekday(x) + 4
      y == YearOf(IF u = "week" THEN thursday ELSE x)
  IN CASE u = "week"  -> <<y, (thursday - Jan1(y)) \div 7 + 1>>
       [] u = "month" -> <<y, CHOOSE m \in 1..12 : /\ MonthStart(y, m) <= x
                                                   /\ x < MonthStart(y, m) + Length(y, m)>>
       [] u = "day"   -> <<y, x - Jan1(y) + 1>>

\* Mutant: the first week is the one with the first of January.
WeekOfJan1(y, w) == Date(y, 0, 1 - Weekday(Date(y, 0, 1)) + 1 + (w - 1) * 7)

\* trendPeriodBounds
WeekStart(y, w) == Date(y, 0, 4 - Weekday(Date(y, 0, 4)) + 1 + (w - 1) * 7)

Bounds(u, label) ==
  LET y == label[1]
      k == label[2]
  IN CASE u = "day"   -> [start |-> Date(y, 0, k), end |-> Date(y, 0, k)]
       [] u = "month" -> [start |-> Date(y, k - 1, 1), end |-> Date(y, k, 0)]
       [] u = "week"  -> [start |-> WeekStart(y, k), end |-> WeekStart(y, k) + 6]

\* isPartialTrendPeriod
Partial(bounds) ==
  \/ from # None /\ bounds.start < from
  \/ to # None /\ bounds.end > to
  \/ bounds.end >= today

-----------------------------------------------------------------------------
PeriodsTypeOK ==
  /\ unit \in {"day", "week", "month"}
  /\ day \in Int /\ today \in Int
  /\ from \in Int \cup {None} /\ to \in Int \cup {None}

\* Days near the turn of a year.
PeriodsInit ==
  /\ unit \in {"day", "week", "month"}
  /\ \E y \in 2019..LastYear, k \in -Near..Near : day = Jan1(y) + k
  /\ from = None /\ to = None /\ today = day

SelectUnit(u) == unit' = u /\ UNCHANGED <<day, from, to, today>>
SelectDates(f, t) ==
  /\ f # None /\ t # None => f <= t
  /\ from' = f /\ to' = t /\ UNCHANGED <<unit, day, today>>
Overnight(n) == today = day /\ today' = today + n /\ UNCHANGED <<unit, day, from, to>>

PeriodsNext ==
  \/ \E u \in {"day", "week", "month"} : SelectUnit(u)
  \/ \E f \in {None, day}, t \in {None, day} : SelectDates(f, t)
  \/ \E n \in {1, 31} : Overnight(n)

PeriodsSpec == PeriodsInit /\ [][PeriodsNext]_periodVars

-----------------------------------------------------------------------------
(* Properties.                                                             *)

\* The days between the bounds are those that the server labels alike, in every
\* week that two years share; and a period is compared with the one before
\* only if each of its days is selected and over.
PeriodsAreWhole ==
  LET label  == Label(unit, day)
      bounds == Bounds(unit, label)
      alike  == {x \in (day - 31)..(day + 31) : x >= 0 /\ Label(unit, x) = label}
  IN /\ bounds.start..bounds.end = alike
     /\ Partial(bounds) <=> \E x \in alike : \/ from # None /\ x < from
                                             \/ to # None /\ x > to
                                             \/ x >= today
=============================================================================
