----------------------------- MODULE BillingRows -----------------------------
(***************************************************************************)
(* The billing rows of one subscription, by date.  A period starts when    *)
(* the hourly run bills it, not where the last one ended: on the day the   *)
(* last one ended when the run is punctual, later when the subscription    *)
(* was stopped or runs failed, and a second time when two replicas' runs   *)
(* overlap.  Who runs when is SubscriptionBilling's.                       *)
(***************************************************************************)
EXTENDS Absent, BillingCalendar

CONSTANTS Late,      \* days a period may start late: any number in the code
          Punctual   \* rows in a row that are not late; bound

ASSUME LateAssumption == Late \subseteq Nat /\ Punctual \in Nat

Interval == {"daily", "weekly", "monthly", "yearly"}

VARIABLES
    terms,     \* interval and intervalCount of the subscription
    billing,   \* the row with the latest billingPeriodEnd, or None
    \* History.
    since,     \* the start of the first row of those that were punctual
    punctual,  \* how many of them there are
    doubled    \* an overlapping run wrote the row

rowHistory == <<since, punctual, doubled>>
rowVars == <<terms, billing, rowHistory>>

\* Mutant: the run takes a period for over that has only begun.
OverFromStart == billing.start

\* A run finds a subscription due once its last period is over.
OverFrom == billing.end

RowsInit ==
    /\ terms \in [interval : Interval, count : Count]
    /\ billing = None /\ since = None
    /\ punctual = 0 /\ doubled = FALSE

RowFrom(t) ==
    [start |-> t, end |-> calculateNextBillingDate(t, terms.interval, terms.count)]

\* The run at hand writes a row that starts today.
Bill(t) ==
    /\ billing' = RowFrom(t) /\ UNCHANGED terms
    /\ t.y <= LastYear

First ==
    /\ billing = None
    /\ \E t \in Date : Bill(t) /\ since' = t
    /\ UNCHANGED <<punctual, doubled>>

Renew ==
    /\ billing # None
    /\ \E k \in Late :
          LET t == addDays(OverFrom, k) IN
          /\ Bill(t)
          /\ IF t = billing.end THEN /\ punctual < Punctual
                                     /\ punctual' = punctual + 1 /\ UNCHANGED since
             ELSE punctual' = 0 /\ since' = t
    /\ doubled' = FALSE

\* A run of another replica found the same period over and writes its row too,
\* that day or, around midnight, the next; the later end counts from now on.
RenewAgain ==
    /\ billing # None
    /\ \E k \in {0, 1} :
          LET t == addDays(billing.start, k) IN
          /\ Bill(t) /\ DayNumber(billing.end) <= DayNumber(RowFrom(t).end)
          /\ since' = t
    /\ punctual' = 0 /\ doubled' = TRUE

RowsNext == First \/ Renew \/ RenewAgain

RowsSpec == RowsInit /\ [][RowsNext]_rowVars
-----------------------------------------------------------------------------
MonthNumber(t) == 12 * t.y + t.m
Apart(a, b, i, n) ==
    CASE i = "daily" -> DayNumber(b) - DayNumber(a) >= n
      [] i = "weekly" -> DayNumber(b) - DayNumber(a) >= 7 * n
      [] i = "monthly" -> MonthNumber(b) - MonthNumber(a) >= n
      [] i = "yearly" -> b.y - a.y >= n

\* subscription.task.ts, subscription.service.ts: however late its runs are and
\* however days are carried over, a subscription is never billed twice within
\* count days, weeks, calendar months or calendar years, unless two runs
\* overlapped.
RowsKeepApart ==
    [][billing # None /\ billing' # billing /\ ~doubled'
           => Apart(billing.start, billing'.start, terms.interval, terms.count)]_rowVars

SameDay(a, b) == a.m = b.m /\ a.d = b.d
LeapDay(t) == t.m = 2 /\ t.d = 29
Moved(t) == t.m = 3 /\ t.d = 1

\* A row pays for count days or weeks, or as many days as the month has.
PeriodKept ==
    LET days == DayNumber(billing.end) - DayNumber(billing.start) IN
    /\ terms.interval = "daily" => days = terms.count
    /\ terms.interval = "weekly" => days = 7 * terms.count
    /\ terms.interval = "monthly" /\ terms.count = 1 =>
           days = DaysIn(billing.start.y, billing.start.m)

MonthlyDayKept ==
    /\ billing.start.d = since.d \/ (since.d > 28 /\ billing.start.d \in 1..3)
    /\ billing.end.d = billing.start.d \/ (billing.start.d > 28 /\ billing.end.d \in 1..3)

YearlyDayKept ==
    /\ SameDay(billing.start, since) \/ (LeapDay(since) /\ Moved(billing.start))
    /\ SameDay(billing.end, billing.start) \/ (LeapDay(billing.start) /\ Moved(billing.end))

\* subscription.service.ts: a row's dates are a period of its terms apart, across
\* month ends and leap days.  As long as runs are punctual, a monthly
\* subscription keeps the day it was billed on, but loses one after the 28th to
\* a short month, for one of the first three and for good; a yearly one keeps
\* its date, but loses 29 February to 1 March for good.
BillingDatesKept ==
    billing # None =>
        /\ PeriodKept
        /\ terms.interval = "monthly" => MonthlyDayKept
        /\ terms.interval = "yearly" => YearlyDayKept
=============================================================================
