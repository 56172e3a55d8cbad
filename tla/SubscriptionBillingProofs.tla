----------------------- MODULE SubscriptionBillingProofs -----------------------
(***************************************************************************)
(* Proofs about SubscriptionBilling, for any replicas, subscriptions and   *)
(* length of a period, and about BillingCalendar and BillingRows, for any  *)
(* years, counts and delays.                                               *)
(***************************************************************************)
EXTENDS SubscriptionBilling, BillingRows, WellFoundedInduction, TLAPS

-----------------------------------------------------------------------------
(* The inductive invariant.                                                 *)

\* A run has a subscription in hand exactly where it bills one.
InHand(rep) == run[rep].at \in {"pay", "row"} <=> run[rep].s \in Subscription

\* Only one run bills a subscription that is not contested.
OneBills(s) == s \notin contested => \A a, b \in Paying(s) : a = b

\* Unless something went wrong, what was charged is covered, or the run that
\* charged is about to save the row; and whoever is about to charge found the
\* period over and not paid for.
PaidFor(s) ==
    s \notin contested \cup unrecorded =>
        /\ charged[s] <= covered[s] \/ \E rep \in Paying(s) : run[rep].at = "row"
        /\ \A rep \in Paying(s) : run[rep].at = "pay" => charged[s] = 0

BInv == /\ TypeOK
        /\ \A rep \in Replica : InHand(rep)
        /\ \A s \in Subscription : OneBills(s) /\ PaidFor(s)

-----------------------------------------------------------------------------
\* The invariant holds initially.
LEMMA BillingStarts == Init => BInv
<1> SUFFICES ASSUME Init PROVE BInv
  OBVIOUS
<1>1. NoRun \in Run /\ NoRun.at = "idle" /\ NoRun.s = None
  BY DEF NoRun, Run
<1>2. TypeOK
  BY <1>1, LengthAssumption DEF Init, TypeOK, SubscriptionRow, SubscriptionPayment
<1>3. \A rep \in Replica : InHand(rep)
  BY <1>1, NoneAssumption DEF Init, InHand
<1>4. \A s \in Subscription : OneBills(s) /\ PaidFor(s)
  BY <1>1 DEF Init, OneBills, PaidFor, Paying
<1> QED  BY <1>2, <1>3, <1>4 DEF BInv

\* What is left of a period, paid or covered, is at most the period.
LEMMA Hours ==
    ASSUME TypeOK, NEW s \in Subscription
    PROVE  /\ charged[s] \in Nat /\ covered[s] \in Nat /\ charged[s] <= Length /\ Length \in Nat
           /\ charged[s] \in 0..Length /\ covered[s] \in 0..Length
BY LengthAssumption DEF TypeOK, SubscriptionPayment

\* What a run without a subscription in hand is.
LEMMA Continues ==
    ASSUME NEW r \in Run, NEW s
    PROVE  /\ Continue(r, s) \in Run /\ Continue(r, s).at \in {"idle", "last"}
           /\ Continue(r, s).s = None
           /\ NoRun \in Run /\ NoRun.at = "idle" /\ NoRun.s = None
BY DEF Continue, NoRun, Run

\* A run goes on to r, having nothing in hand then, and nothing else changes but
\* the row of the subscription it had in hand or the record that it has none.
LEMMA ReleaseKeeps ==
    ASSUME BInv, NEW rep \in Replica, NEW r \in Run, RunGoes(rep, r),
           r.at \in {"idle", "last"}, r.s = None,
           hourly' \subseteq Replica, UNCHANGED <<subscription, charged, contested>>,
           \/ covered' = covered /\ unrecorded' = unrecorded /\ run[rep].at # "row"
           \/ /\ run[rep].at = "row" /\ covered' = covered
              /\ unrecorded' = unrecorded \cup {run[rep].s}
           \/ /\ run[rep].at = "row" /\ unrecorded' = unrecorded
              /\ covered' = [covered EXCEPT ![run[rep].s] = Length]
    PROVE  BInv'
<1> USE DEF BInv
<1>1. /\ run' = [run EXCEPT ![rep] = r] /\ run'[rep] = r /\ run' \in [Replica -> Run]
      /\ \A q \in Replica \ {rep} : run'[q] = run[q]
  BY DEF RunGoes, TypeOK
<1>2. run[rep].at = "row" => run[rep].s \in Subscription
  BY DEF InHand
<1>3. TypeOK'
  BY <1>1, <1>2, LengthAssumption DEF TypeOK, SubscriptionPayment
<1>4. \A s \in Subscription : Paying(s)' = Paying(s) \ {rep}
  BY <1>1 DEF Paying
<1>5. \A q \in Replica : InHand(q)'
  BY <1>1, NoneAssumption DEF InHand
<1>6. ASSUME NEW s \in Subscription PROVE OneBills(s)'
  BY <1>4 DEF OneBills
<1>7. ASSUME NEW s \in Subscription PROVE PaidFor(s)'
  <2> SUFFICES ASSUME s \notin contested, s \notin unrecorded'
               PROVE  /\ charged[s] <= covered'[s] \/ \E q \in Paying(s)' : run'[q].at = "row"
                      /\ \A q \in Paying(s)' : run'[q].at = "pay" => charged[s] = 0
    BY DEF PaidFor
  <2>1. s \notin unrecorded
    OBVIOUS
  <2>2. \A q \in Paying(s)' : q \in Paying(s) /\ run'[q] = run[q]
    BY <1>1, <1>4 DEF Paying
  <2>3. \A q \in Paying(s)' : run'[q].at = "pay" => charged[s] = 0
    BY <2>1, <2>2 DEF PaidFor
  <2>4. CASE \E q \in Paying(s) \ {rep} : run[q].at = "row"
    BY <1>1, <1>4, <2>3, <2>4 DEF Paying
  <2>5. CASE charged[s] <= covered[s] /\ covered'[s] = covered[s]
    BY <2>3, <2>5
  <2>6. CASE covered'[s] # covered[s]
    <3>1. covered'[s] = Length
      BY <1>2, <2>6 DEF TypeOK
    <3> QED  BY <2>3, <3>1, Hours
  <2>7. CASE rep \in Paying(s) /\ run[rep].at = "row"
    <3>1. run[rep].s = s
      BY <2>7 DEF Paying
    <3>2. covered'[s] = Length
      BY <2>7, <3>1 DEF TypeOK
    <3> QED  BY <2>3, <3>2, Hours
  <2> QED  BY <2>1, <2>4, <2>5, <2>6, <2>7 DEF PaidFor
<1> QED  BY <1>3, <1>5, <1>6, <1>7

\* A run finds a subscription due and takes it in hand.
LEMMA DueKeeps ==
    ASSUME BInv, NEW rep \in Replica, NEW s \in Subscription, FindLastPayment(rep, s), Due(s)
    PROVE  BInv'
<1> USE DEF BInv
<1> DEFINE r == [run[rep] EXCEPT !.at = "pay", !.s = s]
<1>1. /\ run[rep].at = "last" /\ run' = [run EXCEPT ![rep] = r]
      /\ contested' = IF Paying(s) = {} THEN contested ELSE contested \cup {s}
      /\ UNCHANGED <<subscription, covered, hourly, charged, unrecorded>>
  BY DEF FindLastPayment, RunGoes
<1>2. r \in Run /\ r.at = "pay" /\ r.s = s
  BY DEF TypeOK, Run
<1> HIDE DEF r
<1>3. /\ run'[rep] = r /\ run' \in [Replica -> Run]
      /\ \A q \in Replica \ {rep} : run'[q] = run[q]
  BY <1>1, <1>2 DEF TypeOK
<1>4. TypeOK'
  BY <1>1, <1>3 DEF TypeOK
<1>5. /\ Paying(s)' = Paying(s) \cup {rep}
      /\ \A u \in Subscription \ {s} : Paying(u)' = Paying(u)
      /\ \A u \in Subscription : rep \notin Paying(u)
  BY <1>1, <1>2, <1>3 DEF Paying
<1>6. \A q \in Replica : InHand(q)'
  BY <1>2, <1>3 DEF InHand
<1>7. ASSUME NEW u \in Subscription PROVE OneBills(u)'
  <2>1. CASE u = s
    BY <1>1, <1>5, <2>1 DEF OneBills
  <2>2. CASE u # s
    BY <1>1, <1>5, <2>2 DEF OneBills
  <2> QED  BY <2>1, <2>2
<1>8. ASSUME NEW u \in Subscription PROVE PaidFor(u)'
  <2>1. PaidFor(u) /\ \A q \in Paying(u) : run'[q] = run[q]
    BY <1>3, <1>5 DEF Paying
  <2>2. CASE u # s
    BY <1>1, <1>5, <2>1, <2>2 DEF PaidFor
  <2>3. CASE u = s
    <3> SUFFICES ASSUME Paying(s) = {}, s \notin contested \cup unrecorded
                 PROVE  PaidFor(s)'
      BY <1>1, <2>3 DEF PaidFor
    <3>1. charged[s] <= covered[s] /\ covered[s] = 0
      BY <2>1, <2>3 DEF PaidFor, Due
    <3>2. charged[s] = 0
      BY <3>1, Hours
    <3> QED  BY <1>1, <3>1, <3>2 DEF PaidFor
  <2> QED  BY <2>2, <2>3
<1> QED  BY <1>4, <1>6, <1>7, <1>8

\* A run looks at a subscription and bills it or goes on.
LEMMA FindKeeps ==
    ASSUME BInv, NEW rep \in Replica, NEW s \in Subscription, FindLastPayment(rep, s)
    PROVE  BInv'
<1>1. CASE Due(s)
  BY <1>1, DueKeeps
<1>2. CASE ~Due(s)
  <2>1. run[rep] \in Run /\ hourly \subseteq Replica
    BY DEF BInv, TypeOK
  <2>2. /\ RunGoes(rep, Continue(run[rep], s)) /\ run[rep].at = "last"
        /\ UNCHANGED <<subscription, covered, hourly, charged, contested, unrecorded>>
    BY <1>2 DEF FindLastPayment
  <2> QED  BY <2>1, <2>2, Continues, ReleaseKeeps
<1> QED  BY <1>1, <1>2

\* The charge: whoever makes it has an unpaid period before it.
LEMMA ChargeKeeps ==
    ASSUME BInv, NEW rep \in Replica, CreatePayment(rep)
    PROVE  BInv'
<1> USE DEF BInv
<1> DEFINE r == [run[rep] EXCEPT !.at = "row"]
           s == run[rep].s
<1>1. /\ run[rep].at = "pay" /\ run' = [run EXCEPT ![rep] = r]
      /\ charged' = [charged EXCEPT ![s] = Length]
      /\ UNCHANGED <<subscription, covered, hourly, contested, unrecorded>>
  BY DEF CreatePayment, RunGoes
<1>2. r \in Run /\ r.at = "row" /\ r.s = s /\ s \in Subscription
  BY <1>1 DEF TypeOK, Run, InHand
<1> HIDE DEF r, s
<1>3. /\ run'[rep] = r /\ run' \in [Replica -> Run]
      /\ \A q \in Replica \ {rep} : run'[q] = run[q]
  BY <1>1, <1>2 DEF TypeOK
<1>4. TypeOK'
  BY <1>1, <1>2, <1>3, LengthAssumption DEF TypeOK, SubscriptionPayment
<1>5. /\ \A u \in Subscription : Paying(u)' = Paying(u)
      /\ rep \in Paying(s)
      /\ \A u \in Subscription \ {s} : rep \notin Paying(u)
  BY <1>1, <1>2, <1>3 DEF Paying, s
<1>6. \A q \in Replica : InHand(q)'
  BY <1>2, <1>3 DEF InHand
<1>7. ASSUME NEW u \in Subscription PROVE OneBills(u)'
  BY <1>1, <1>5 DEF OneBills
<1>8. ASSUME NEW u \in Subscription PROVE PaidFor(u)'
  <2>1. CASE u # s
    <3>1. PaidFor(u) /\ charged'[u] = charged[u] /\ \A q \in Paying(u) : run'[q] = run[q]
      BY <1>1, <1>3, <1>5, <2>1 DEF TypeOK, Paying
    <3> QED  BY <1>1, <1>5, <3>1 DEF PaidFor
  <2>2. CASE u = s
    BY <1>1, <1>2, <1>3, <1>5, <2>2 DEF PaidFor, OneBills
  <2> QED  BY <2>1, <2>2
<1> QED  BY <1>4, <1>6, <1>7, <1>8

\* An hour passes, when no run is under way.
LEMMA HourKeeps ==
    ASSUME BInv, Hour
    PROVE  BInv'
<1> USE DEF BInv
<1>1. /\ \A rep \in Replica : run[rep].at = "idle"
      /\ covered' = Less(covered) /\ charged' = Less(charged) /\ hourly' = {}
      /\ UNCHANGED <<subscription, run, contested, unrecorded>>
  BY DEF Hour
<1>2. ASSUME NEW s \in Subscription
      PROVE  /\ covered'[s] \in 0..Length /\ charged'[s] \in 0..Length
             /\ charged[s] <= covered[s] => charged'[s] <= covered'[s]
  BY <1>1, Hours DEF Less
<1>3. TypeOK'
  BY <1>1, <1>2 DEF TypeOK, Less, SubscriptionPayment
<1>4. \A rep \in Replica : InHand(rep)'
  BY <1>1 DEF InHand
<1>5. \A s \in Subscription : Paying(s) = {} /\ Paying(s)' = {}
  BY <1>1 DEF Paying
<1>6. \A s \in Subscription : OneBills(s)' /\ PaidFor(s)'
  BY <1>1, <1>2, <1>5 DEF OneBills, PaidFor
<1> QED  BY <1>3, <1>4, <1>6

\* A subscription is created or changed, or nothing happens.
LEMMA SubscriptionKeeps ==
    ASSUME BInv, \/ \E s \in Subscription : Create(s) \/ UpdateStatus(s)
                 \/ UNCHANGED vars
    PROVE  BInv'
<1> USE DEF BInv
<1>1. /\ UNCHANGED <<covered, hourly, run, charged, contested, unrecorded>>
      /\ subscription' \in [Subscription -> SubscriptionRow]
  BY DEF Create, UpdateStatus, vars, history, TypeOK, SubscriptionRow
<1>2. TypeOK'
  BY <1>1 DEF TypeOK
<1>3. \A rep \in Replica : InHand(rep)'
  BY <1>1 DEF InHand
<1>4. \A s \in Subscription : OneBills(s)' /\ PaidFor(s)'
  BY <1>1 DEF OneBills, PaidFor, Paying
<1> QED  BY <1>2, <1>3, <1>4

\* Every step keeps the invariant.
LEMMA BillingStep == BInv /\ [Next]_vars => BInv'
<1> SUFFICES ASSUME BInv, [Next]_vars PROVE BInv'
  OBVIOUS
<1>1. \A rep \in Replica : run[rep] \in Run /\ hourly \subseteq Replica
  BY DEF BInv, TypeOK
<1>2. ASSUME NEW rep \in Replica, ProcessSubscriptionPayments(rep) PROVE BInv'
  <2> DEFINE active == {s \in Subscription : subscription[s] = "active"}
             r == IF active = {} THEN NoRun ELSE [NoRun EXCEPT !.at = "last", !.todo = active]
  <2>1. r \in Run /\ r.at \in {"idle", "last"} /\ r.s = None
    BY DEF NoRun, Run
  <2>2. /\ RunGoes(rep, r) /\ run[rep].at = "idle" /\ hourly' = hourly \cup {rep}
        /\ UNCHANGED <<subscription, covered, charged, contested, unrecorded>>
    BY <1>2 DEF ProcessSubscriptionPayments, history
  <2> HIDE DEF r
  <2> QED  BY <1>1, <2>1, <2>2, ReleaseKeeps
<1>3. ASSUME NEW rep \in Replica, SaveBillingRow(rep) PROVE BInv'
  BY <1>1, <1>3, Continues, ReleaseKeeps DEF SaveBillingRow, history
<1>4. ASSUME NEW rep \in Replica, RunFails(rep) PROVE BInv'
  BY <1>1, <1>4, Continues, ReleaseKeeps DEF RunFails
<1> QED
  BY <1>2, <1>3, <1>4, SubscriptionKeeps, HourKeeps, FindKeeps, ChargeKeeps DEF Next

\* So it always holds.
LEMMA BInvHolds == Spec => []BInv
BY BillingStarts, BillingStep, PTL DEF Spec

-----------------------------------------------------------------------------
(* The calendar: first what the day numbers of DayNumber, the reference,    *)
(* have to do with months and leap years, then what the dates are that      *)
(* addDays and calculateNextBillingDate reach, step by step.                *)

\* Every date, of whatever year.
AnyDate == {t \in [y : Nat, m : 1..12, d : 1..31] : t.d <= DaysIn(t.y, t.m)}

\* Induction on k, for a set instead of a predicate.
LEMMA EveryStep ==
    ASSUME NEW N \in Nat, NEW S, 0 \in S, \A k \in 1..N : k - 1 \in S => k \in S
    PROVE  0..N \subseteq S
<1> DEFINE R == OpToRel(<, Nat)
           bad == (0..N) \ S
<1>1. IsWellFoundedOn(R, Nat)
  BY NatLessThanWellFounded
<1>2. \A x, y \in Nat : x < y => <<x, y>> \in R
  BY DEF OpToRel
<1> HIDE DEF R
<1> SUFFICES ASSUME bad # {} PROVE FALSE
  OBVIOUS
<1>3. bad \subseteq Nat
  OBVIOUS
<1>4. PICK k \in bad : \A j \in bad : ~(<<j, k>> \in R)
  <2> HIDE DEF bad
  <2> QED  BY <1>1, <1>3, WFMin, Zenon
<1>5. k \in 1..N /\ k - 1 \in Nat /\ k - 1 < k
  BY <1>3
<1>6. k - 1 \notin bad
  BY <1>2, <1>3, <1>4, <1>5
<1> QED  BY <1>5, <1>6

\* A step made k times from t, for every k up to N, as a function of k.
Iterates(f, t, G, N) == f = [k \in 0..N |-> IF k = 0 THEN t ELSE G[f[k - 1]]]

\* There is such a function, so that a date defined by recursion is what its
\* equation says.
LEMMA IteratesExist ==
    ASSUME NEW N \in Nat, NEW X, NEW t \in X, NEW G \in [X -> X]
    PROVE  \E f \in [0..N -> X] : Iterates(f, t, G, N)
<1> DEFINE S == {n \in 0..N : \E f \in [0..n -> X] : Iterates(f, t, G, n)}
<1>1. 0 \in S
  <2> DEFINE f == [k \in 0..0 |-> t]
  <2>1. f \in [0..0 -> X] /\ Iterates(f, t, G, 0)
    BY DEF Iterates
  <2> QED  BY <2>1
<1>2. ASSUME NEW n \in 1..N, n - 1 \in S PROVE n \in S
  <2>1. PICK f \in [0..n - 1 -> X] : Iterates(f, t, G, n - 1)
    BY <1>2
  <2> DEFINE g == [k \in 0..n |-> IF k = 0 THEN t ELSE G[f[k - 1]]]
  <2>2. \A k \in 0..n : k # 0 => k - 1 \in 0..n - 1
    OBVIOUS
  <2>3. g \in [0..n -> X]
    BY <2>2
  <2>4. \A k \in 0..n - 1 : g[k] = f[k]
    BY <2>1 DEF Iterates
  <2>5. g = [k \in 0..n |-> IF k = 0 THEN t ELSE G[g[k - 1]]]
    BY <2>2, <2>4
  <2> HIDE DEF g
  <2> QED  BY <2>3, <2>5 DEF Iterates
<1>3. N \in S
  <2> HIDE DEF S
  <2>1. 0..N \subseteq S
    BY <1>1, <1>2, EveryStep
  <2> QED  BY <2>1
<1> QED  BY <1>3

\* A month count, however large, names a month of the year.
LEMMA MonthOf ==
    ASSUME NEW y \in Nat, NEW m \in Nat \ {0}
    PROVE  Month(y, m).y \in Nat /\ Month(y, m).m \in 1..12
BY DEF Month

\* A month of the year is itself, and the one after December is January.
LEMMA MonthSame ==
    ASSUME NEW y \in Nat, NEW m \in 1..12
    PROVE  /\ Month(y, m).y = y /\ Month(y, m).m = m
           /\ Month(y, m + 1).y = IF m = 12 THEN y + 1 ELSE y
           /\ Month(y, m + 1).m = IF m = 12 THEN 1 ELSE m + 1
BY DEF Month

\* Months are counted through from year to year.
LEMMA MonthNumbers ==
    ASSUME NEW y \in Nat, NEW m \in Nat \ {0}
    PROVE  12 * Month(y, m).y + Month(y, m).m = 12 * y + m
<1>1. (m - 1) \div 12 \in Int /\ (m - 1) % 12 \in Int
      /\ 12 * ((m - 1) \div 12) + ((m - 1) % 12) = m - 1
  OBVIOUS
<1>2. /\ Month(y, m).y = y + ((m - 1) \div 12)
      /\ Month(y, m).m = ((m - 1) % 12) + 1
  BY DEF Month
<1> QED  BY <1>1, <1>2

\* A month has 28 to 31 days.
LEMMA DaysOf ==
    ASSUME NEW y \in Nat, NEW m \in 1..12
    PROVE  DaysIn(y, m) \in 28..31
BY DEF DaysIn

\* A month that is too short is followed by one that is not.
LEMMA Overflow ==
    ASSUME NEW y \in Nat, NEW m \in Nat \ {0}, NEW d \in 1..31
    PROVE  LET a == Month(y, m) b == Month(y, m + 1) IN
           /\ a.y \in Nat /\ a.m \in 1..12 /\ b.y \in Nat /\ b.m \in 1..12
           /\ Carry(y, m, d) \in AnyDate
           /\ d <= DaysIn(a.y, a.m) => Carry(y, m, d) = [y |-> a.y, m |-> a.m, d |-> d]
           /\ d > DaysIn(a.y, a.m) =>
                 /\ Carry(y, m, d) = [y |-> b.y, m |-> b.m, d |-> d - DaysIn(a.y, a.m)]
                 /\ d - DaysIn(a.y, a.m) \in 1..3 /\ d > 28
           /\ MonthNumber(Carry(y, m, d)) >= 12 * y + m
<1> DEFINE a == Month(y, m)
           b == Month(y, m + 1)
<1>1. a.y \in Nat /\ a.m \in 1..12 /\ b.y \in Nat /\ b.m \in 1..12
  BY MonthOf
<1>2. DaysIn(a.y, a.m) \in 28..31 /\ DaysIn(b.y, b.m) \in 28..31
  BY <1>1, DaysOf
<1>3. Carry(y, m, d) = IF d <= DaysIn(a.y, a.m) THEN [y |-> a.y, m |-> a.m, d |-> d]
                       ELSE [y |-> b.y, m |-> b.m, d |-> d - DaysIn(a.y, a.m)]
  BY DEF Carry
<1>3a. 12 * a.y + a.m = 12 * y + m /\ 12 * b.y + b.m = 12 * y + (m + 1)
  <2>1. m + 1 \in Nat \ {0}
    OBVIOUS
  <2> QED  BY <2>1, MonthNumbers
<1> HIDE DEF a, b
<1>4. CASE d <= DaysIn(a.y, a.m)
  <2>1. Carry(y, m, d) = [y |-> a.y, m |-> a.m, d |-> d]
    BY <1>3, <1>4
  <2>2. Carry(y, m, d) \in AnyDate
    BY <1>1, <1>4, <2>1 DEF AnyDate
  <2>3. MonthNumber(Carry(y, m, d)) >= 12 * y + m
    BY <1>1, <1>3a, <2>1 DEF MonthNumber
  <2> QED  BY <1>1, <1>2, <1>4, <2>1, <2>2, <2>3 DEF a, b
<1>5. CASE d > DaysIn(a.y, a.m)
  <2>1. d - DaysIn(a.y, a.m) \in 1..3 /\ d > 28
    BY <1>2, <1>5
  <2>2. Carry(y, m, d) = [y |-> b.y, m |-> b.m, d |-> d - DaysIn(a.y, a.m)]
    BY <1>2, <1>3, <1>5
  <2>3. Carry(y, m, d) \in AnyDate
    BY <1>1, <1>2, <2>1, <2>2 DEF AnyDate
  <2>4. MonthNumber(Carry(y, m, d)) >= 12 * y + m
    BY <1>1, <1>3a, <2>2 DEF MonthNumber
  <2> QED  BY <1>1, <1>2, <1>5, <2>1, <2>2, <2>3, <2>4 DEF a, b
<1> QED  BY <1>2, <1>4, <1>5

\* The number of the day before a month's first.
Zeroth(y, m) == DayNumber([y |-> y, m |-> m, d |-> 0])

\* A day number is the number of the day before the month and the day.
LEMMA DayInMonth ==
    ASSUME NEW y \in Nat, NEW m \in 1..12, NEW d \in Int
    PROVE  /\ Zeroth(y, m) \in Int
           /\ DayNumber([y |-> y, m |-> m, d |-> d]) = Zeroth(y, m) + d
<1>1. (m + 9) % 12 \in Int /\ ((153 * ((m + 9) % 12)) + 2) \div 5 \in Int
  OBVIOUS
<1> QED  BY <1>1 DEF DayNumber, Zeroth

\* The leap years up to y.
Leaps(y) == (y \div 4) - (y \div 100) + (y \div 400)

\* A leap year adds one.
LEMMA LeapCount ==
    ASSUME NEW y \in Nat
    PROVE  Leaps(y) \in Int /\ Leaps(y - 1) \in Int
           /\ Leaps(y) = Leaps(y - 1) + IF Leap(y) THEN 1 ELSE 0
<1>1. /\ y % 4 = 0 => (y \div 4) = ((y - 1) \div 4) + 1
      /\ y % 4 # 0 => (y \div 4) = ((y - 1) \div 4)
  OBVIOUS
<1>2. /\ y % 100 = 0 => (y \div 100) = ((y - 1) \div 100) + 1
      /\ y % 100 # 0 => (y \div 100) = ((y - 1) \div 100)
  OBVIOUS
<1>3. /\ y % 400 = 0 => (y \div 400) = ((y - 1) \div 400) + 1
      /\ y % 400 # 0 => (y \div 400) = ((y - 1) \div 400)
  OBVIOUS
<1>4. (y % 400 = 0 => y % 100 = 0) /\ (y % 100 = 0 => y % 4 = 0)
  OBVIOUS
<1> QED  BY <1>1, <1>2, <1>3, <1>4 DEF Leap, Leaps

\* A month is as long by day numbers as DaysIn says, December included.
LEMMA MonthLength ==
    ASSUME NEW y \in Nat, NEW m \in 1..12
    PROVE  LET b == Month(y, m + 1) IN Zeroth(b.y, b.m) = Zeroth(y, m) + DaysIn(y, m)
<1>1. ASSUME NEW n \in Nat
      PROVE  /\ Zeroth(n, 1) = 365 * (n - 1) + Leaps(n - 1) + 306
             /\ Zeroth(n, 2) = 365 * (n - 1) + Leaps(n - 1) + 337
             /\ Zeroth(n, 3) = 365 * n + Leaps(n)
             /\ Zeroth(n, 12) = 365 * n + Leaps(n) + 275
  BY DEF Zeroth, DayNumber, Leaps
<1>2. Leaps(y) \in Int /\ Leaps(y - 1) \in Int /\ Leaps(y) = Leaps(y - 1) + IF Leap(y) THEN 1 ELSE 0
  BY LeapCount
<1>3. CASE m \in 3..11
  <2>1. Month(y, m + 1).y = y /\ Month(y, m + 1).m = m + 1
    <3>1. m # 12
      BY <1>3
    <3>2. /\ Month(y, m + 1).y = IF m = 12 THEN y + 1 ELSE y
          /\ Month(y, m + 1).m = IF m = 12 THEN 1 ELSE m + 1
      BY MonthSame
    <3> QED  BY <3>1, <3>2
  <2>2. /\ Zeroth(y, m) = 365 * y + Leaps(y) + (((153 * (m - 3)) + 2) \div 5)
        /\ Zeroth(y, m + 1) = 365 * y + Leaps(y) + (((153 * (m - 2)) + 2) \div 5)
    <3>1. \A k \in 3..12 : (k + 9) % 12 = k - 3 /\ k > 2
      OBVIOUS
    <3>2. \A k \in 3..12 : Zeroth(y, k) = 365 * y + Leaps(y) + (((153 * (k - 3)) + 2) \div 5)
      BY <3>1 DEF Zeroth, DayNumber, Leaps
    <3>3. m \in 3..12 /\ m + 1 \in 3..12 /\ m + 1 - 3 = m - 2
      BY <1>3
    <3> HIDE DEF Zeroth
    <3> QED  BY <3>2, <3>3
  <2>3. (((153 * (m - 2)) + 2) \div 5) = (((153 * (m - 3)) + 2) \div 5) + DaysIn(y, m)
    <3>1. /\ m \in {4, 6, 9, 11} => (((153 * (m - 2)) + 2) \div 5) = (((153 * (m - 3)) + 2) \div 5) + 30
          /\ m \in {3, 5, 7, 8, 10} => (((153 * (m - 2)) + 2) \div 5) = (((153 * (m - 3)) + 2) \div 5) + 31
      OBVIOUS
    <3>2. m \in {3, 5, 7, 8, 10} \/ m \in {4, 6, 9, 11}
      BY <1>3
    <3> QED  BY <3>1, <3>2 DEF DaysIn
  <2>4. (((153 * (m - 3)) + 2) \div 5) \in Int
    BY <1>3
  <2>5. Zeroth(y, m + 1) = Zeroth(y, m) + DaysIn(y, m)
    BY <1>2, <2>2, <2>3, <2>4, DaysOf
  <2> QED  BY <2>1, <2>5
<1>4. CASE m = 2
  <2>1. Month(y, m + 1).y = y /\ Month(y, m + 1).m = 3
    BY <1>4, MonthSame
  <2> QED  BY <1>1, <1>2, <1>4, <2>1 DEF DaysIn
<1>5. CASE m = 12
  <2>1. Month(y, m + 1).y = y + 1 /\ Month(y, m + 1).m = 1
    BY <1>5, MonthSame
  <2>2. Zeroth(y + 1, 1) = 365 * (y + 1 - 1) + Leaps(y + 1 - 1) + 306
    BY <1>1
  <2>3. y + 1 - 1 = y
    OBVIOUS
  <2>4. Zeroth(y + 1, 1) = 365 * y + Leaps(y) + 306
    BY <2>2, <2>3
  <2> QED  BY <1>1, <1>2, <1>5, <2>1, <2>4 DEF DaysIn
<1>6. CASE m = 1
  <2>1. Month(y, m + 1).y = y /\ Month(y, m + 1).m = 2
    BY <1>6, MonthSame
  <2> QED  BY <1>1, <1>2, <1>6, <2>1 DEF DaysIn
<1> QED  BY <1>3, <1>4, <1>5, <1>6

\* What a date is made of.
LEMMA AnyDateHas ==
    ASSUME NEW t \in AnyDate
    PROVE  /\ t.y \in Nat /\ t.m \in 1..12 /\ t.d \in 1..31 /\ t.d <= DaysIn(t.y, t.m)
           /\ t = [y |-> t.y, m |-> t.m, d |-> t.d]
           /\ DayNumber(t) = Zeroth(t.y, t.m) + t.d
           /\ Zeroth(t.y, t.m) \in Int /\ DayNumber(t) \in Int
<1>1. /\ t.y \in Nat /\ t.m \in 1..12 /\ t.d \in 1..31 /\ t.d <= DaysIn(t.y, t.m)
      /\ t = [y |-> t.y, m |-> t.m, d |-> t.d]
  BY DEF AnyDate
<1>2. /\ Zeroth(t.y, t.m) \in Int
      /\ DayNumber([y |-> t.y, m |-> t.m, d |-> t.d]) = Zeroth(t.y, t.m) + t.d
  BY <1>1, DayInMonth
<1> QED  BY <1>1, <1>2

LEMMA MonthNumberIs ==
    ASSUME NEW u \in AnyDate PROVE MonthNumber(u) \in Int
<1>1. u.y \in Nat /\ u.m \in 1..12
  BY AnyDateHas
<1>2. 12 * u.y \in Int /\ u.m \in Int
  BY <1>1
<1> QED  BY <1>2 DEF MonthNumber

\* The day after a date is a date and has the next number.
LEMMA DayAfterCounts ==
    ASSUME NEW t \in AnyDate
    PROVE  /\ DayAfter(t) \in AnyDate /\ DayNumber(DayAfter(t)) = DayNumber(t) + 1
           /\ MonthNumber(DayAfter(t)) >= MonthNumber(t)
<1> DEFINE y == t.y
           m == t.m
           b == Month(y, m + 1)
           e == t.d + 1
<1>1. /\ y \in Nat /\ m \in 1..12 /\ t.d \in 1..31 /\ t.d <= DaysIn(y, m)
      /\ DayNumber(t) = Zeroth(y, m) + t.d /\ Zeroth(y, m) \in Int
      /\ e \in 2..32 /\ e = t.d + 1
  BY AnyDateHas
<1>2. Month(y, m).y = y /\ Month(y, m).m = m /\ b.y \in Nat /\ b.m \in 1..12
  <2>1. m + 1 \in Nat \ {0} /\ m \in Nat \ {0}
    BY <1>1
  <2> HIDE DEF y, m
  <2> QED  BY <1>1, <2>1, MonthSame, MonthOf
<1>3. DaysIn(y, m) \in 28..31 /\ DaysIn(b.y, b.m) \in 28..31
  BY <1>1, <1>2, DaysOf
<1>4. /\ DayAfter(t) = Carry(y, m, e)
      /\ Carry(y, m, e) = IF e <= DaysIn(y, m) THEN [y |-> y, m |-> m, d |-> e]
                          ELSE [y |-> b.y, m |-> b.m, d |-> e - DaysIn(y, m)]
  <2>1. DayAfter(t) = Carry(y, m, e)
    BY DEF DayAfter
  <2> HIDE DEF y, m, e
  <2>2. Carry(y, m, e) =
            IF e <= DaysIn(Month(y, m).y, Month(y, m).m)
            THEN [y |-> Month(y, m).y, m |-> Month(y, m).m, d |-> e]
            ELSE [y |-> b.y, m |-> b.m, d |-> e - DaysIn(Month(y, m).y, Month(y, m).m)]
    BY DEF Carry
  <2> HIDE DEF b
  <2> QED  BY <1>2, <2>1, <2>2
<1>5. Zeroth(b.y, b.m) = Zeroth(y, m) + DaysIn(y, m)
  BY <1>1, MonthLength
<1>5a. 12 * b.y + b.m = 12 * y + (m + 1)
  <2>1. m + 1 \in Nat \ {0}
    BY <1>1
  <2> HIDE DEF y, m
  <2> QED  BY <1>1, <2>1, MonthNumbers
<1>5b. MonthNumber(t) = 12 * y + m
  BY DEF MonthNumber
<1> HIDE DEF y, m, b, e
<1>6. CASE e <= DaysIn(y, m)
  <2>1. DayAfter(t) = [y |-> y, m |-> m, d |-> e] /\ e \in 1..31
    BY <1>1, <1>3, <1>4, <1>6
  <2>2. DayNumber([y |-> y, m |-> m, d |-> e]) = Zeroth(y, m) + e
    BY <1>1, DayInMonth
  <2>3. DayAfter(t) \in AnyDate
    BY <1>1, <1>6, <2>1 DEF AnyDate
  <2>4. MonthNumber(DayAfter(t)) >= MonthNumber(t)
    BY <1>1, <1>5b, <2>1 DEF MonthNumber
  <2> QED  BY <1>1, <2>1, <2>2, <2>3, <2>4
<1>7. CASE ~(e <= DaysIn(y, m))
  <2>1. DayAfter(t) = [y |-> b.y, m |-> b.m, d |-> 1] /\ t.d = DaysIn(y, m)
    BY <1>1, <1>3, <1>4, <1>7
  <2>2. DayNumber([y |-> b.y, m |-> b.m, d |-> 1]) = Zeroth(b.y, b.m) + 1
    BY <1>2, DayInMonth
  <2>3. DayAfter(t) \in AnyDate
    BY <1>2, <1>3, <2>1 DEF AnyDate
  <2>4. MonthNumber(DayAfter(t)) >= MonthNumber(t)
    BY <1>1, <1>2, <1>5a, <1>5b, <2>1 DEF MonthNumber
  <2> QED  BY <1>1, <1>5, <2>1, <2>2, <2>3, <2>4
<1> QED  BY <1>6, <1>7

\* The same day of the next month, carried over or not, is the days of the
\* month away.
LEMMA MonthCounts ==
    ASSUME NEW t \in AnyDate
    PROVE  DayNumber(Carry(t.y, t.m + 1, t.d)) = DayNumber(t) + DaysIn(t.y, t.m)
<1> DEFINE a == Month(t.y, t.m + 1)
           b == Month(t.y, t.m + 1 + 1)
<1>1. /\ t.y \in Nat /\ t.m \in 1..12 /\ t.d \in 1..31 /\ t.m + 1 \in Nat \ {0}
      /\ DayNumber(t) = Zeroth(t.y, t.m) + t.d /\ Zeroth(t.y, t.m) \in Int
      /\ DaysIn(t.y, t.m) \in 28..31
  BY AnyDateHas, DaysOf
<1>2. /\ a.y \in Nat /\ a.m \in 1..12 /\ b.y \in Nat /\ b.m \in 1..12
      /\ t.d <= DaysIn(a.y, a.m) => Carry(t.y, t.m + 1, t.d) = [y |-> a.y, m |-> a.m, d |-> t.d]
      /\ t.d > DaysIn(a.y, a.m) =>
             Carry(t.y, t.m + 1, t.d) = [y |-> b.y, m |-> b.m, d |-> t.d - DaysIn(a.y, a.m)]
  BY <1>1, Overflow
<1>3. b.y = Month(a.y, a.m + 1).y /\ b.m = Month(a.y, a.m + 1).m
  <2>1. /\ a.y = (IF t.m = 12 THEN t.y + 1 ELSE t.y)
        /\ a.m = (IF t.m = 12 THEN 1 ELSE t.m + 1)
    BY <1>1, MonthSame
  <2>2. CASE t.m = 12
    BY <1>1, <2>1, <2>2 DEF Month
  <2>3. CASE t.m # 12
    <3>1. a.y = t.y /\ a.m = t.m + 1
      BY <2>1, <2>3
    <3> HIDE DEF a
    <3> QED  BY <3>1
  <2> QED  BY <2>2, <2>3
<1>4. Zeroth(a.y, a.m) = Zeroth(t.y, t.m) + DaysIn(t.y, t.m)
  BY <1>1, MonthLength
<1>5. Zeroth(b.y, b.m) = Zeroth(a.y, a.m) + DaysIn(a.y, a.m) /\ DaysIn(a.y, a.m) \in 28..31
  BY <1>2, <1>3, MonthLength, DaysOf
<1> HIDE DEF a, b
<1>6. /\ DayNumber([y |-> a.y, m |-> a.m, d |-> t.d]) = Zeroth(a.y, a.m) + t.d
      /\ DayNumber([y |-> b.y, m |-> b.m, d |-> t.d - DaysIn(a.y, a.m)])
             = Zeroth(b.y, b.m) + (t.d - DaysIn(a.y, a.m))
  <2>1. t.d \in Int /\ t.d - DaysIn(a.y, a.m) \in Int
    BY <1>1, <1>5
  <2> QED  BY <1>2, <2>1, DayInMonth
<1>7. CASE t.d <= DaysIn(a.y, a.m)
  BY <1>1, <1>2, <1>4, <1>6, <1>7
<1>8. CASE t.d > DaysIn(a.y, a.m)
  BY <1>1, <1>2, <1>4, <1>5, <1>6, <1>8
<1> QED  BY <1>1, <1>5, <1>7, <1>8

\* date.utils.ts: addDays(t, n) is a date n days after t, across month ends and
\* leap days, and not in an earlier month.
LEMMA AddDaysCounts ==
    ASSUME NEW t \in AnyDate, NEW n \in Nat
    PROVE  /\ addDays(t, n) \in AnyDate /\ DayNumber(addDays(t, n)) = DayNumber(t) + n
           /\ MonthNumber(addDays(t, n)) >= MonthNumber(t)
<1> DEFINE G == [u \in AnyDate |-> DayAfter(u)]
           dates(g) == g = [k \in 0..n |-> IF k = 0 THEN t ELSE DayAfter(g[k - 1])]
<1>1. G \in [AnyDate -> AnyDate]
  BY DayAfterCounts
<1>2. PICK f \in [0..n -> AnyDate] : Iterates(f, t, G, n)
  <2> HIDE DEF G
  <2> QED  BY <1>1, IteratesExist
<1>3. dates(f)
  <2>1. \A k \in 0..n : k # 0 => k - 1 \in 0..n /\ f[k - 1] \in AnyDate
    OBVIOUS
  <2>2. \A k \in 0..n : k # 0 => G[f[k - 1]] = DayAfter(f[k - 1])
    BY <2>1
  <2> HIDE DEF G
  <2> QED  BY <1>2, <2>2 DEF Iterates
<1>4. PICK g : dates(g) /\ addDays(t, n) = g[n]
  BY <1>3 DEF addDays
<1>4a. \A u \in AnyDate : MonthNumber(u) \in Int
  BY MonthNumberIs
<1> DEFINE S == {k \in 0..n : /\ g[k] \in AnyDate /\ DayNumber(g[k]) = DayNumber(t) + k
                              /\ MonthNumber(g[k]) >= MonthNumber(t)}
<1>5. 0 \in S
  <2>1. g[0] = t /\ DayNumber(t) \in Int /\ MonthNumber(t) \in Int
    BY <1>4, <1>4a, AnyDateHas
  <2> QED  BY <2>1
<1>6. ASSUME NEW k \in 1..n, k - 1 \in S PROVE k \in S
  <2>1. /\ g[k] = DayAfter(g[k - 1]) /\ g[k - 1] \in AnyDate
        /\ DayNumber(g[k - 1]) = DayNumber(t) + (k - 1)
        /\ MonthNumber(g[k - 1]) >= MonthNumber(t)
    BY <1>4, <1>6
  <2>2. /\ g[k] \in AnyDate /\ DayNumber(g[k]) = DayNumber(g[k - 1]) + 1
        /\ MonthNumber(g[k]) >= MonthNumber(g[k - 1])
    BY <2>1, DayAfterCounts
  <2>3. DayNumber(t) \in Int
    BY AnyDateHas
  <2>4. DayNumber(g[k]) = DayNumber(t) + k
    BY <2>1, <2>2, <2>3
  <2>5. MonthNumber(g[k]) >= MonthNumber(t)
    BY <1>4a, <2>1, <2>2
  <2> QED  BY <2>2, <2>4, <2>5
<1>7. n \in S
  <2> HIDE DEF S
  <2> QED  BY <1>5, <1>6, EveryStep
<1> QED  BY <1>4, <1>7

\* What calculateNextBillingDate does, by interval, and that it makes a date.
LEMMA NextDate ==
    ASSUME NEW t \in AnyDate, NEW n \in Nat \ {0}
    PROVE  /\ calculateNextBillingDate(t, "daily", n) = addDays(t, n)
           /\ calculateNextBillingDate(t, "weekly", n) = addDays(t, n * 7)
           /\ calculateNextBillingDate(t, "monthly", n) = Carry(t.y, t.m + n, t.d)
           /\ calculateNextBillingDate(t, "yearly", n) = Carry(t.y + n, t.m, t.d)
           /\ \A i \in Interval : calculateNextBillingDate(t, i, n) \in AnyDate
<1>1. /\ calculateNextBillingDate(t, "daily", n) = addDays(t, n)
      /\ calculateNextBillingDate(t, "weekly", n) = addDays(t, n * 7)
      /\ calculateNextBillingDate(t, "monthly", n) = Carry(t.y, t.m + n, t.d)
      /\ calculateNextBillingDate(t, "yearly", n) = Carry(t.y + n, t.m, t.d)
  BY DEF calculateNextBillingDate
<1>2. t.y \in Nat /\ t.m \in 1..12 /\ t.d \in 1..31
  BY AnyDateHas
<1>3. n \in Nat /\ n * 7 \in Nat /\ t.m + n \in Nat \ {0} /\ t.y + n \in Nat /\ t.m \in Nat \ {0}
  BY <1>2
<1>4. addDays(t, n) \in AnyDate /\ addDays(t, n * 7) \in AnyDate
  BY <1>3, AddDaysCounts
<1>5. Carry(t.y, t.m + n, t.d) \in AnyDate /\ Carry(t.y + n, t.m, t.d) \in AnyDate
  BY <1>2, <1>3, Overflow
<1> QED  BY <1>1, <1>4, <1>5 DEF Interval

\* The dates that TLC enumerates are among them.
LEMMA DatesAre == Date \subseteq AnyDate
<1>1. FirstYear..LastYear \subseteq Nat
  BY CalendarAssumption
<1> QED  BY <1>1 DEF Date, AnyDate

\* The length of a period.
LEMMA PeriodOf ==
    ASSUME NEW t \in AnyDate, NEW n \in Nat \ {0}
    PROVE  /\ Elapsed(t, "daily", n) = n /\ Elapsed(t, "weekly", n) = 7 * n
           /\ Elapsed(t, "monthly", 1) = DaysIn(t.y, t.m)
<1>1. DayNumber(t) \in Int /\ t.y \in Nat /\ t.m \in 1..12
  BY AnyDateHas
<1>2. DaysIn(t.y, t.m) \in Int
  BY <1>1, DaysOf
<1>3. n \in Nat /\ n * 7 \in Nat /\ n * 7 = 7 * n
  OBVIOUS
<1>4. /\ calculateNextBillingDate(t, "daily", n) = addDays(t, n)
      /\ calculateNextBillingDate(t, "weekly", n) = addDays(t, n * 7)
      /\ calculateNextBillingDate(t, "monthly", 1) = Carry(t.y, t.m + 1, t.d)
  BY NextDate
<1>5. /\ DayNumber(addDays(t, n)) = DayNumber(t) + n
      /\ DayNumber(addDays(t, n * 7)) = DayNumber(t) + n * 7
      /\ DayNumber(Carry(t.y, t.m + 1, t.d)) = DayNumber(t) + DaysIn(t.y, t.m)
  BY <1>3, AddDaysCounts, MonthCounts
<1> QED  BY <1>1, <1>2, <1>3, <1>4, <1>5 DEF Elapsed

\* subscription.service.ts: a daily or weekly period has count or 7 * count days
\* and one of a month as many as the month it starts in, from every date of
\* every range of years and for every count.
THEOREM PeriodLengths == EveryPeriodLength
BY DatesAre, CalendarAssumption, PeriodOf DEF EveryPeriodLength

\* A month keeps the day, or carries one after the 28th over to the first three.
LEMMA MonthlyDay ==
    ASSUME NEW t \in AnyDate, NEW n \in Nat \ {0}
    PROVE  LET u == calculateNextBillingDate(t, "monthly", n) IN
           u.d = t.d \/ (u.d \in 1..3 /\ t.d > 28)
<1> DEFINE m == t.m + n
           a == Month(t.y, m)
           b == Month(t.y, m + 1)
           u == Carry(t.y, m, t.d)
<1>1. t.y \in Nat /\ t.d \in 1..31 /\ m \in Nat \ {0} /\ a.y \in Nat /\ a.m \in 1..12
  <2>1. t.y \in Nat /\ t.d \in 1..31 /\ m \in Nat \ {0}
    BY AnyDateHas
  <2> HIDE DEF m
  <2> QED  BY <2>1, MonthOf
<1>2. calculateNextBillingDate(t, "monthly", n) = u
  BY NextDate
<1>3. DaysIn(a.y, a.m) \in 28..31
  BY <1>1, DaysOf
<1> HIDE DEF m
<1>4. /\ t.d <= DaysIn(a.y, a.m) => u = [y |-> a.y, m |-> a.m, d |-> t.d]
      /\ t.d > DaysIn(a.y, a.m) =>
            /\ u = [y |-> b.y, m |-> b.m, d |-> t.d - DaysIn(a.y, a.m)]
            /\ t.d - DaysIn(a.y, a.m) \in 1..3 /\ t.d > 28
  BY <1>1, Overflow
<1> HIDE DEF a, b, u
<1> QED  BY <1>1, <1>2, <1>3, <1>4

\* A year keeps day and month, but for 29 February, which may become 1 March.
LEMMA YearlyDay ==
    ASSUME NEW t \in AnyDate, NEW n \in Nat \ {0}
    PROVE  LET u == calculateNextBillingDate(t, "yearly", n) IN
           (u.m = t.m /\ u.d = t.d) \/ (t.m = 2 /\ t.d = 29 /\ Moved(u))
<1> DEFINE y == t.y + n
           a == Month(y, t.m)
           b == Month(y, t.m + 1)
           u == Carry(y, t.m, t.d)
<1>1. /\ t.m \in 1..12 /\ t.m \in Nat \ {0} /\ t.d \in 1..31
      /\ t.y \in Nat /\ t.d <= DaysIn(t.y, t.m) /\ y \in Nat
  BY AnyDateHas
<1>2. calculateNextBillingDate(t, "yearly", n) = u
  BY NextDate
<1> HIDE DEF y
<1>3. /\ a.y = y /\ a.m = t.m
      /\ b.m = IF t.m = 12 THEN 1 ELSE t.m + 1
  BY <1>1, MonthSame
<1>4. /\ t.d <= DaysIn(a.y, a.m) => u = [y |-> a.y, m |-> a.m, d |-> t.d]
      /\ t.d > DaysIn(a.y, a.m) => u = [y |-> b.y, m |-> b.m, d |-> t.d - DaysIn(a.y, a.m)]
  BY <1>1, Overflow
<1> HIDE DEF a, b, u
<1>5. DaysIn(y, t.m) \in 28..31 /\ DaysIn(t.y, t.m) \in 28..31
  BY <1>1, DaysOf
<1>6. CASE t.d <= DaysIn(y, t.m)
  BY <1>2, <1>3, <1>4, <1>6
<1>7. CASE t.d > DaysIn(y, t.m)
  <2>1. t.m = 2 /\ DaysIn(y, t.m) = 28 /\ DaysIn(t.y, t.m) = 29
    <3>1. DaysIn(y, t.m) # DaysIn(t.y, t.m)
      BY <1>1, <1>5, <1>7
    <3> QED  BY <3>1, <1>1, <1>5, <1>7 DEF DaysIn
  <2>2. t.d = 29
    BY <1>1, <1>7, <2>1
  <2>3. u.m = 3 /\ u.d = 1
    BY <1>3, <1>4, <1>7, <2>1, <2>2
  <2> QED  BY <1>2, <2>1, <2>2, <2>3 DEF Moved
<1> QED  BY <1>1, <1>5, <1>6, <1>7

-----------------------------------------------------------------------------
(* The rows.                                                                *)

\* A row that starts when a period is over, however late, starts a period after
\* the start of that one.
LEMMA PeriodsPass ==
    ASSUME NEW t \in AnyDate, NEW i \in Interval, NEW n \in Nat \ {0}, NEW k \in Nat
    PROVE  LET u == addDays(calculateNextBillingDate(t, i, n), k) IN
           u \in AnyDate /\ Apart(t, u, i, n)
<1> DEFINE e == calculateNextBillingDate(t, i, n)
           u == addDays(e, k)
<1>1. /\ t.y \in Nat /\ t.m \in 1..12 /\ t.d \in 1..31 /\ DayNumber(t) \in Int
      /\ t.m + n \in Nat \ {0} /\ t.y + n \in Nat /\ t.m \in Nat \ {0}
  BY AnyDateHas
<1>2. e \in AnyDate
  BY NextDate
<1>3. /\ u \in AnyDate /\ DayNumber(u) = DayNumber(e) + k /\ MonthNumber(u) >= MonthNumber(e)
  BY <1>2, AddDaysCounts
<1>4. u.y \in Nat /\ u.m \in 1..12 /\ e.y \in Nat /\ e.m \in 1..12 /\ DayNumber(e) \in Int
  BY <1>2, <1>3, AnyDateHas
<1>5. i = "monthly" => MonthNumber(e) >= 12 * t.y + (t.m + n)
  <2>1. MonthNumber(Carry(t.y, t.m + n, t.d)) >= 12 * t.y + (t.m + n)
    <3> DEFINE m == t.m + n
    <3>1. m \in Nat \ {0}
      BY <1>1
    <3> HIDE DEF m
    <3>2. MonthNumber(Carry(t.y, m, t.d)) >= 12 * t.y + m
      BY <1>1, <3>1, Overflow
    <3> QED  BY <3>2 DEF m
  <2> QED  BY <2>1, NextDate
<1>6. i = "yearly" => MonthNumber(e) >= 12 * (t.y + n) + t.m
  <2>1. MonthNumber(Carry(t.y + n, t.m, t.d)) >= 12 * (t.y + n) + t.m
    <3> DEFINE y == t.y + n
    <3>1. y \in Nat
      BY <1>1
    <3> HIDE DEF y
    <3>2. MonthNumber(Carry(y, t.m, t.d)) >= 12 * y + t.m
      BY <1>1, <3>1, Overflow
    <3> QED  BY <3>2 DEF y
  <2> QED  BY <2>1, NextDate
<1>7. Elapsed(t, "daily", n) = n /\ Elapsed(t, "weekly", n) = 7 * n
  BY PeriodOf
<1>8. (i = "daily" => DayNumber(e) = DayNumber(t) + n) /\ (i = "weekly" => DayNumber(e) = DayNumber(t) + 7 * n)
  BY <1>1, <1>4, <1>7 DEF Elapsed
<1> HIDE DEF e, u
<1>9. Apart(t, u, i, n)
  <2>1. CASE i = "daily"
    BY <1>1, <1>3, <1>4, <1>8, <2>1 DEF Apart
  <2>2. CASE i = "weekly"
    BY <1>1, <1>3, <1>4, <1>8, <2>2 DEF Apart
  <2>3. CASE i = "monthly"
    BY <1>1, <1>3, <1>4, <1>5, <2>3 DEF Apart, MonthNumber
  <2>4. CASE i = "yearly"
    BY <1>1, <1>3, <1>4, <1>6, <2>4 DEF Apart, MonthNumber
  <2> QED  BY <2>1, <2>2, <2>3, <2>4 DEF Interval
<1> QED  BY <1>3, <1>9 DEF e, u

\* The inductive invariant: the row is one of its terms, and its streak has
\* kept its days.
RowsInv ==
    /\ terms \in [interval : Interval, count : Count]
    /\ billing # None =>
          /\ billing.start \in AnyDate /\ since \in AnyDate
          /\ billing.end = calculateNextBillingDate(billing.start, terms.interval, terms.count)
          /\ PeriodKept
          /\ terms.interval = "monthly" => MonthlyDayKept
          /\ terms.interval = "yearly" => YearlyDayKept

\* A row that starts a streak, or goes on with one on the day it left off.
LEMMA BillKeeps ==
    ASSUME RowsInv, NEW t \in AnyDate, Bill(t),
           \/ since' = t
           \/ billing # None /\ t = billing.end /\ since' = since
    PROVE  RowsInv'
<1> DEFINE i == terms.interval
           n == terms.count
           e == calculateNextBillingDate(t, i, n)
<1>1. i \in Interval /\ n \in Nat \ {0} /\ n \in Count
  BY CalendarAssumption DEF RowsInv
<1>2. billing' = [start |-> t, end |-> e] /\ terms' = terms
  BY DEF Bill, RowFrom
<1>3. e \in AnyDate
  BY <1>1, NextDate
<1>4. since' \in AnyDate
  BY <1>1, NextDate DEF RowsInv
<1>5. /\ Elapsed(t, "daily", n) = n /\ Elapsed(t, "weekly", n) = 7 * n
      /\ Elapsed(t, "monthly", 1) = DaysIn(t.y, t.m)
  BY <1>1, PeriodOf
<1>6. PeriodKept'
  BY <1>2, <1>5 DEF PeriodKept, Elapsed
<1>7. i = "monthly" => MonthlyDayKept'
  <2> SUFFICES ASSUME i = "monthly" PROVE MonthlyDayKept'
    OBVIOUS
  <2>1. e.d = t.d \/ (t.d > 28 /\ e.d \in 1..3)
    BY <1>1, MonthlyDay
  <2>2. t.d = since'.d \/ (since'.d > 28 /\ t.d \in 1..3)
    BY DEF RowsInv, MonthlyDayKept
  <2> HIDE DEF e
  <2> QED  BY <1>2, <2>1, <2>2 DEF MonthlyDayKept
<1>8. i = "yearly" => YearlyDayKept'
  <2> SUFFICES ASSUME i = "yearly" PROVE YearlyDayKept'
    OBVIOUS
  <2>1. SameDay(e, t) \/ (LeapDay(t) /\ Moved(e))
    BY <1>1, YearlyDay DEF SameDay, LeapDay
  <2>2. SameDay(t, since') \/ (LeapDay(since') /\ Moved(t))
    BY DEF RowsInv, YearlyDayKept, SameDay, LeapDay, Moved
  <2> HIDE DEF e
  <2> QED  BY <1>2, <2>1, <2>2 DEF YearlyDayKept, SameDay, LeapDay, Moved
<1> QED  BY <1>1, <1>2, <1>4, <1>6, <1>7, <1>8 DEF RowsInv

\* Where the row of a step starts.
LEMMA RowsStart ==
    ASSUME RowsInv, Renew
    PROVE  \E k \in Late : LET t == addDays(billing.end, k) IN
              /\ t \in AnyDate /\ Bill(t)
              /\ Apart(billing.start, t, terms.interval, terms.count)
              /\ since' = t \/ (t = billing.end /\ since' = since)
<1>1. PICK k \in Late : LET t == addDays(billing.end, k) IN
                         /\ Bill(t)
                         /\ since' = t \/ (t = billing.end /\ since' = since)
  BY DEF Renew, OverFrom
<1>2. k \in Nat
  BY LateAssumption
<1>3. /\ billing.start \in AnyDate /\ terms.interval \in Interval /\ terms.count \in Nat \ {0}
      /\ billing.end = calculateNextBillingDate(billing.start, terms.interval, terms.count)
  BY CalendarAssumption DEF RowsInv, Renew
<1> QED  BY <1>1, <1>2, <1>3, PeriodsPass

LEMMA RowsSteps == RowsInv /\ [RowsNext]_rowVars => RowsInv'
<1> SUFFICES ASSUME RowsInv, [RowsNext]_rowVars PROVE RowsInv'
  OBVIOUS
<1>1. CASE First
  <2>1. PICK t \in Date : Bill(t) /\ since' = t
    BY <1>1 DEF First
  <2> QED  BY <2>1, DatesAre, BillKeeps
<1>2. CASE Renew
  <2>1. PICK t : /\ t \in AnyDate /\ Bill(t)
                 /\ since' = t \/ (t = billing.end /\ since' = since)
    BY <1>2, RowsStart
  <2> QED  BY <1>2, <2>1, BillKeeps DEF Renew
<1>3. CASE RenewAgain
  <2>1. PICK k \in {0, 1} : Bill(addDays(billing.start, k)) /\ since' = addDays(billing.start, k)
    BY <1>3 DEF RenewAgain
  <2>2. addDays(billing.start, k) \in AnyDate
    BY <1>3, AddDaysCounts DEF RenewAgain, RowsInv
  <2> QED  BY <2>1, <2>2, BillKeeps
<1>4. CASE UNCHANGED rowVars
  BY <1>4 DEF RowsInv, rowVars, rowHistory, PeriodKept, MonthlyDayKept, YearlyDayKept, SameDay,
              LeapDay, Moved
<1> QED  BY <1>1, <1>2, <1>3, <1>4 DEF RowsNext

LEMMA RowsInvHolds == RowsSpec => []RowsInv
<1>1. RowsInit => RowsInv
  BY DEF RowsInit, RowsInv
<1> QED  BY <1>1, RowsSteps, PTL DEF RowsSpec

-----------------------------------------------------------------------------
(* The theorems.                                                            *)

\* The type invariant of the billing.
THEOREM BillingTypeCorrect == Spec => []TypeOK
<1>1. BInv => TypeOK
  BY DEF BInv
<1> QED  BY <1>1, BInvHolds, PTL

\* subscription.task.ts: a subscription is charged twice in a period only when
\* two runs found it due at the same time or an earlier charge was cut off from
\* its billing row, for any number of replicas and subscriptions.
THEOREM PeriodsAreChargedOnce == Spec => ChargedOncePerPeriod
<1> DEFINE Once == \A s \in Subscription :
               (\E rep \in Replica : run[rep].s = s /\ run[rep].at = "pay" /\ run'[rep].at = "row")
                   => charged[s] = 0 \/ s \in contested \cup unrecorded
<1>1. BInv /\ [Next]_vars => [Once]_vars
  <2> SUFFICES ASSUME BInv, Next, NEW s \in Subscription, NEW rep \in Replica,
                      run[rep].s = s, run[rep].at = "pay", s \notin contested \cup unrecorded
               PROVE  charged[s] = 0
    OBVIOUS
  <2>1. rep \in Paying(s)
    BY DEF Paying
  <2> QED  BY <2>1 DEF BInv, PaidFor
<1> QED  BY <1>1, BInvHolds, PTL DEF Spec, ChargedOncePerPeriod

\* subscription.service.ts: a row's dates are a period of its terms apart and
\* punctual rows keep the day, as far as the months have it, for all years,
\* counts, delays and numbers of rows.
THEOREM BillingDatesAreKept == RowsSpec => []BillingDatesKept
<1>1. RowsInv => BillingDatesKept
  BY DEF RowsInv, BillingDatesKept
<1> QED  BY <1>1, RowsInvHolds, PTL

\* subscription.task.ts: no two rows of a subscription start within a period,
\* but for overlapping runs, for all years, counts, delays and numbers of rows.
THEOREM RowsStayApart == RowsSpec => RowsKeepApart
<1> DEFINE Far == billing # None /\ billing' # billing /\ ~doubled'
                      => Apart(billing.start, billing'.start, terms.interval, terms.count)
<1>1. RowsInv /\ [RowsNext]_rowVars => [Far]_rowVars
  <2> SUFFICES ASSUME RowsInv, RowsNext, billing # None, ~doubled'
               PROVE  Apart(billing.start, billing'.start, terms.interval, terms.count)
    OBVIOUS
  <2>1. Renew
    BY DEF RowsNext, First, RenewAgain
  <2>2. PICK t : Bill(t) /\ Apart(billing.start, t, terms.interval, terms.count)
    BY <2>1, RowsStart
  <2> QED  BY <2>2 DEF Bill, RowFrom
<1> QED  BY <1>1, RowsInvHolds, PTL DEF RowsSpec, RowsKeepApart
=============================================================================
