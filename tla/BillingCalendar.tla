--------------------------- MODULE BillingCalendar ---------------------------
(***************************************************************************)
(* calculateNextBillingDate, the date a subscription is next billed on.    *)
(* Date.setDate, setMonth and setFullYear carry what does not fit a month  *)
(* over into the next one.  Dates have no time of day.                     *)
(***************************************************************************)
EXTENDS Integers

CONSTANTS FirstYear, LastYear,  \* the dates considered; bound
          Count                 \* intervalCount, at least 1 by the DTO

ASSUME CalendarAssumption == /\ FirstYear \in Nat /\ LastYear \in Nat
                             /\ Count \subseteq Nat \ {0}

Leap(y) == (y % 4 = 0 /\ y % 100 # 0) \/ y % 400 = 0
DaysIn(y, m) == CASE m = 2 -> IF Leap(y) THEN 29 ELSE 28
                  [] m \in {4, 6, 9, 11} -> 30
                  [] OTHER -> 31

Date == {t \in [y : FirstYear..LastYear, m : 1..12, d : 1..31] : t.d <= DaysIn(t.y, t.m)}

\* Month m of year y for any m >= 1.
Month(y, m) == [y |-> y + ((m - 1) \div 12), m |-> ((m - 1) % 12) + 1]

\* Mutant: nothing is carried over.
CarryNothing(y, m, d) == [y |-> Month(y, m).y, m |-> Month(y, m).m, d |-> d]

\* The date a Date constructor or setter makes of a day that may not fit.
Carry(y, m, d) ==
    LET a == Month(y, m)
        b == Month(y, m + 1)
    IN  IF d <= DaysIn(a.y, a.m) THEN [y |-> a.y, m |-> a.m, d |-> d]
        ELSE [y |-> b.y, m |-> b.m, d |-> d - DaysIn(a.y, a.m)]

DayAfter(t) == Carry(t.y, t.m, t.d + 1)

addDays(t, days) ==
    LET date[k \in 0..days] == IF k = 0 THEN t ELSE DayAfter(date[k - 1])
    IN  date[days]

\* Mutant: a day that does not fit is cut to the month's last one, years are
\* months and weeks days.
NextBillingDateClamped(t, i, n) ==
    LET a == Month(t.y, t.m + n)
        cut == IF t.d > DaysIn(a.y, a.m) THEN DaysIn(a.y, a.m) ELSE t.d
    IN  IF i = "monthly" THEN [y |-> a.y, m |-> a.m, d |-> cut] ELSE addDays(t, n)

calculateNextBillingDate(t, i, n) ==
    CASE i = "daily" -> addDays(t, n)
      [] i = "weekly" -> addDays(t, n * 7)
      [] i = "monthly" -> Carry(t.y, t.m + n, t.d)
      [] i = "yearly" -> Carry(t.y + n, t.m, t.d)
-----------------------------------------------------------------------------
\* Days since 1 March of year 0, by the usual closed formula: the reference.
DayNumber(t) ==
    LET y == IF t.m > 2 THEN t.y ELSE t.y - 1
        m == (t.m + 9) % 12
    IN  365 * y + (y \div 4) - (y \div 100) + (y \div 400) + (((153 * m) + 2) \div 5) + t.d

Elapsed(t, i, n) == DayNumber(calculateNextBillingDate(t, i, n)) - DayNumber(t)

\* A daily or weekly period has count or 7 * count days across month ends and
\* leap days, and a period of one month lasts as many days as the month it
\* starts in: a short month carries over, it does not shorten.
EveryPeriodLength ==
    \A t \in Date :
        /\ Elapsed(t, "monthly", 1) = DaysIn(t.y, t.m)
        /\ \A n \in Count : Elapsed(t, "daily", n) = n /\ Elapsed(t, "weekly", n) = 7 * n
=============================================================================
