-------------------------- MODULE SettlementsProofs --------------------------
(***************************************************************************)
(* Proofs about Settlements, for any replicas, merchants, payments and     *)
(* length of the day.                                                      *)
(***************************************************************************)
EXTENDS Settlements, SequenceTheorems, FiniteSetTheorems, WellFoundedInduction, TLAPS

-----------------------------------------------------------------------------
(* The inductive invariant.                                                 *)

\* The history of completions tells no less than the rows.
Completions ==
    \A p \in Payment : /\ payment[p].status = "completed" => p \in completed
                       /\ payment[p].status = "absent" => p \notin completed

\* A run has the merchants it tried and those still to try between them, reads
\* the last settlement's end as the start, and finds what is due.
Running(r) ==
    /\ r.at # "idle" => r.tried \cup r.todo = r.listed
    /\ r.at \in {"find", "save"} => r.m \in r.todo
    /\ r.at \in {"find", "save"} =>
           /\ r.end <= EndOfDay(clock)
           /\ r.last # 0 => /\ r.last \in OfMerchant(r.m)
                            /\ r.start = settlement[r.last].end /\ r.start <= r.end
    /\ r.at = "save" => \A p \in r.found : /\ p \in completed /\ payment[p].m = r.m
                                           /\ payment[p].at \in r.start..r.end

\* A check has only settlements without a merchant before it.
Checking(c) ==
    /\ c.at # "idle" => c.todo \subseteq OfMerchant(None)
    /\ c.at = "fail" => c.i \in OfMerchant(None)

\* What a row says, by whom it was made.
Rowed(i) ==
    LET s == settlement[i] IN
    /\ s.m = None => s.found = {}
    /\ s.m # None => s.status = "processing" /\ s.end <= EndOfDay(clock)
    /\ \A p \in s.found : p \in completed /\ payment[p].m = s.m /\ payment[p].at <= s.end

\* A merchant's settlements end in the order they were made, unless one was
\* made from an outdated last one.
InOrder ==
    \A m \in Merchant \ raced : \A i, j \in OfMerchant(m) :
        i < j => settlement[i].end <= settlement[j].end

\* Whatever is settled again is explained.
Explained ==
    \A p \in Payment : \A i, j \in Holding(p) :
        i < j => payment[p].m \in raced \/ payment[p].at = settlement[i].end

SInv == /\ TypeOK
        /\ \A rep \in Replica : Running(run[rep]) /\ Checking(check[rep])
        /\ \A i \in DOMAIN settlement : Rowed(i)
        /\ InOrder /\ Explained /\ Completions

-----------------------------------------------------------------------------
(* Days, and the first and the last of some settlements.                    *)

\* The divisions behind the days.
LEMMA Divided ==
    ASSUME NEW t \in Nat
    PROVE  /\ t \div DayLength \in Int /\ t % DayLength \in 0..(DayLength - 1)
           /\ t = DayLength * (t \div DayLength) + (t % DayLength)
<1>1. DayLength \in Nat /\ DayLength > 0
  BY TimeAssumption
<1>2. t \div DayLength \in Int
  BY <1>1
<1>3. t % DayLength \in 0..(DayLength - 1)
  BY <1>1
<1>4. t = DayLength * (t \div DayLength) + (t % DayLength)
  BY <1>1
<1> QED  BY <1>2, <1>3, <1>4

LEMMA Multiples ==
    ASSUME NEW q \in Int, NEW u \in Int
    PROVE  /\ DayLength * q \in Int
           /\ u <= q - 1 => DayLength * u <= (DayLength * q) - DayLength
           /\ q <= u => DayLength * q <= DayLength * u
           /\ 0 <= q => 0 <= DayLength * q
<1>1. DayLength \in Nat /\ DayLength > 0
  BY TimeAssumption
<1>2. DayLength * q \in Int
  BY <1>1
<1>3. u <= q - 1 => DayLength * u <= (DayLength * q) - DayLength
  BY <1>1
<1>4. q <= u => DayLength * q <= DayLength * u
  BY <1>1
<1>5. 0 <= q => 0 <= DayLength * q
  BY <1>1
<1> QED  BY <1>2, <1>3, <1>4, <1>5

\* A day begins no later and ends no earlier than any of its instants, and the
\* next instant's day does not end before it.
LEMMA DaysGoOn ==
    ASSUME NEW t \in Nat
    PROVE  /\ StartOfDay(t) \in Nat /\ EndOfDay(t) \in Nat
           /\ StartOfDay(t) <= t /\ t <= EndOfDay(t)
           /\ EndOfDay(t) <= EndOfDay(t + 1)
<1> DEFINE D == DayLength
           q == t \div D
           u == (t + 1) \div D
           r == t % D
           v == (t + 1) % D
<1>1. D \in Nat /\ D > 0
  BY TimeAssumption
<1>2. q \in Int /\ t = D * q + r /\ r \in 0..(D - 1) /\ D * q \in Int
  BY Divided, Multiples
<1>3. u \in Int /\ t + 1 = D * u + v /\ v \in 0..(D - 1) /\ D * u \in Int
  <2>1. t + 1 \in Nat
    OBVIOUS
  <2> QED  BY <2>1, Divided, Multiples
<1>4. /\ StartOfDay(t) = t - r /\ EndOfDay(t) = ((t - r) + D) - 1
      /\ EndOfDay(t + 1) = (((t + 1) - v) + D) - 1
  BY <1>1, <1>2, <1>3 DEF StartOfDay, EndOfDay
<1>5. /\ u <= q - 1 => D * u <= (D * q) - D
      /\ q <= u => D * q <= D * u
      /\ 0 <= q => 0 <= D * q
      /\ q <= -1 => D * q <= -D
  <2>1. D * 0 = 0
    BY <1>1
  <2> QED  BY <1>1, <1>2, <1>3, <2>1, Multiples
<1> HIDE DEF D, q, u, r, v
<1>6. q <= u
  BY <1>1, <1>2, <1>3, <1>5
<1>7. 0 <= q
  BY <1>1, <1>2, <1>5
<1> QED  BY <1>1, <1>2, <1>3, <1>4, <1>5, <1>6, <1>7

\* Every set of numbers up to one of them has a least and a greatest one.
LEMMA Extremes ==
    ASSUME NEW n \in Nat, NEW S \in SUBSET (1..n), S # {}
    PROVE  /\ \E i \in S : \A j \in S : i <= j
           /\ \E i \in S : \A j \in S : j <= i
<1> DEFINE R == OpToRel(<, Nat)
<1>1. IsWellFoundedOn(R, Nat)
  BY NatLessThanWellFounded
<1>2. \A x, y \in Nat : x < y => <<x, y>> \in R
  BY DEF OpToRel
<1> HIDE DEF R
<1>3. ASSUME NEW T \in SUBSET Nat, T # {} PROVE \E i \in T : \A j \in T : i <= j
  <2>1. T \subseteq Nat /\ T # {}
    BY <1>3
  <2>2. PICK i \in T : \A j \in T : ~(<<j, i>> \in R)
    BY <1>1, <2>1, WFMin, Zenon
  <2>3. ASSUME NEW j \in T PROVE i <= j
    <3>1. i \in Nat /\ j \in Nat
      BY <2>1
    <3>2. ~(j < i)
      BY <1>2, <2>2, <3>1
    <3> QED  BY <3>1, <3>2
  <2> QED  BY <2>3
<1>4. \E i \in S : \A j \in S : i <= j
  BY <1>3
<1> DEFINE bound == {k \in Nat : \A j \in S : j <= k}
<1>5. PICK k \in bound : \A l \in bound : k <= l
  <2>1. n \in bound
    OBVIOUS
  <2> QED  BY <1>3, <2>1
<1>6. k \in S
  <2> SUFFICES ASSUME k \notin S PROVE FALSE
    OBVIOUS
  <2>1. \A j \in S : j <= k - 1 /\ 1 <= j
    BY <1>5
  <2>2. PICK j \in S : TRUE
    OBVIOUS
  <2>3. k - 1 \in Nat
    BY <1>5, <2>1, <2>2
  <2>4. k - 1 \in bound
    BY <2>1, <2>3
  <2>5. k <= k - 1
    BY <1>5, <2>4
  <2> QED  BY <1>5, <2>5
<1>7. \A j \in S : j <= k
  BY <1>5
<1> QED  BY <1>4, <1>6, <1>7

\* The last settlement of a merchant.
LEMMA LastIsLatest ==
    ASSUME TypeOK, NEW m
    PROVE  /\ LastOf(m) = 0 => OfMerchant(m) = {}
           /\ LastOf(m) # 0 => LastOf(m) \in OfMerchant(m)
           /\ LastOf(m) \in Nat
           /\ \A j \in OfMerchant(m) : j <= LastOf(m)
<1>1. Len(settlement) \in Nat /\ DOMAIN settlement = 1..Len(settlement)
  BY LenProperties DEF TypeOK
<1>2. OfMerchant(m) \in SUBSET (1..Len(settlement))
  BY <1>1 DEF OfMerchant
<1>3. CASE OfMerchant(m) = {}
  BY <1>3 DEF LastOf
<1>4. CASE OfMerchant(m) # {}
  <2>1. \E i \in OfMerchant(m) : \A j \in OfMerchant(m) : j <= i
    BY <1>1, <1>2, <1>4, Extremes
  <2>2. LastOf(m) \in OfMerchant(m) /\ \A j \in OfMerchant(m) : j <= LastOf(m)
    BY <1>4, <2>1 DEF LastOf
  <2>3. LastOf(m) \in 1..Len(settlement)
    BY <1>2, <2>2
  <2> QED  BY <1>1, <2>2, <2>3
<1> QED  BY <1>3, <1>4

\* A row at the end.
LEMMA Appended ==
    ASSUME TypeOK, NEW row \in SettlementRow, settlement' = Append(settlement, row)
    PROVE  LET n == Len(settlement) + 1 IN
           /\ settlement' \in Seq(SettlementRow)
           /\ DOMAIN settlement' = DOMAIN settlement \cup {n} /\ n \notin DOMAIN settlement
           /\ DOMAIN settlement \subseteq Nat /\ n \in Nat \ {0}
           /\ \A i \in DOMAIN settlement : i < n
           /\ settlement'[n] = row
           /\ \A i \in DOMAIN settlement : settlement'[i] = settlement[i]
<1>1. settlement \in Seq(SettlementRow)
  BY DEF TypeOK
<1>2. Len(settlement) \in Nat /\ DOMAIN settlement = 1..Len(settlement)
  BY <1>1, LenProperties
<1>3. /\ settlement' \in Seq(SettlementRow) /\ Len(settlement') = Len(settlement) + 1
      /\ \A i \in 1..Len(settlement) : settlement'[i] = settlement[i]
      /\ settlement'[Len(settlement) + 1] = row
  BY <1>1, AppendProperties
<1>4. DOMAIN settlement' = 1..Len(settlement')
  BY <1>3, LenProperties
<1>5. 1..(Len(settlement) + 1) = (1..Len(settlement)) \cup {Len(settlement) + 1}
  BY <1>2
<1> QED  BY <1>2, <1>3, <1>4, <1>5

\* A row gets another status.
LEMMA Marked ==
    ASSUME TypeOK, NEW i \in DOMAIN settlement, NEW s \in {"pending", "processing", "completed", "failed"},
           settlement' = [settlement EXCEPT ![i].status = s]
    PROVE  /\ settlement' \in Seq(SettlementRow)
           /\ DOMAIN settlement' = DOMAIN settlement
           /\ \A j \in DOMAIN settlement :
                 /\ settlement'[j].m = settlement[j].m /\ settlement'[j].start = settlement[j].start
                 /\ settlement'[j].end = settlement[j].end /\ settlement'[j].found = settlement[j].found
                 /\ settlement'[j].status = IF j = i THEN s ELSE settlement[j].status
<1>1. settlement \in Seq(SettlementRow)
  BY DEF TypeOK
<1>2. Len(settlement) \in Nat /\ DOMAIN settlement = 1..Len(settlement)
      /\ settlement \in [1..Len(settlement) -> SettlementRow]
  BY <1>1, LenProperties
<1> DEFINE row == [settlement[i] EXCEPT !.status = s]
<1>3. settlement[i] \in SettlementRow
  BY <1>2
<1>4. /\ row \in SettlementRow /\ row.m = settlement[i].m /\ row.start = settlement[i].start
      /\ row.end = settlement[i].end /\ row.found = settlement[i].found /\ row.status = s
  BY <1>3 DEF SettlementRow
<1>5. settlement' = [settlement EXCEPT ![i] = row]
  OBVIOUS
<1> HIDE DEF row
<1>6. /\ settlement' \in Seq(SettlementRow) /\ Len(settlement') = Len(settlement)
      /\ \A j \in 1..Len(settlement) : settlement'[j] = IF j = i THEN row ELSE settlement[j]
  BY <1>1, <1>2, <1>4, <1>5, ExceptSeq
<1>7. DOMAIN settlement' = 1..Len(settlement)
  BY <1>6, LenProperties
<1> QED  BY <1>2, <1>4, <1>6, <1>7

LEMMA RowTypes ==
    ASSUME TypeOK, NEW i \in DOMAIN settlement
    PROVE  settlement[i] \in SettlementRow /\ i \in Nat \ {0}
<1>1. Len(settlement) \in Nat /\ DOMAIN settlement = 1..Len(settlement)
      /\ settlement \in [1..Len(settlement) -> SettlementRow]
  BY LenProperties DEF TypeOK
<1> QED  BY <1>1

LEMMA DayEnds ==
    ASSUME TypeOK
    PROVE  /\ clock \in Nat /\ StartOfDay(clock) \in Nat /\ EndOfDay(clock) \in Nat
           /\ StartOfDay(clock) <= EndOfDay(clock)
<1>1. clock \in Nat
  BY TimeAssumption DEF TypeOK
<1> QED  BY <1>1, DaysGoOn

-----------------------------------------------------------------------------
LEMMA SettlementsStart == Init => SInv
<1> SUFFICES ASSUME Init PROVE SInv
  OBVIOUS
<1>1. settlement = <<>> /\ settlement \in Seq(SettlementRow) /\ DOMAIN settlement = {}
  <2>1. <<>> \in Seq(SettlementRow) /\ DOMAIN <<>> = {}
    BY EmptySeq
  <2> QED  BY <2>1 DEF Init
<1>2. TypeOK
  BY <1>1, TimeAssumption DEF Init, TypeOK, AbsentPayment, PaymentRow, NoRun, Run, NoCheck, Check
<1>3. \A rep \in Replica : Running(run[rep]) /\ Checking(check[rep])
  BY DEF Init, Running, Checking, NoRun, NoCheck
<1>4. InOrder /\ Explained /\ Completions
  BY <1>1 DEF Init, AbsentPayment, InOrder, Explained, Completions, OfMerchant, Holding
<1> QED  BY <1>1, <1>2, <1>3, <1>4 DEF SInv

-----------------------------------------------------------------------------
(* Steps that leave the rows alone.                                         *)

\* The run and the check of one replica go on.
LEMMA ReplicaKeeps ==
    ASSUME SInv, NEW rep \in Replica, NEW r \in Run, NEW c \in Check,
           run' = [run EXCEPT ![rep] = r], check' = [check EXCEPT ![rep] = c],
           Running(r), Checking(c),
           UNCHANGED <<clock, payment, settlement, completed, raced>>,
           fired' \in [Replica -> -1..MaxClock]
    PROVE  SInv'
<1> USE DEF SInv
<1>1. TypeOK'
  BY DEF TypeOK
<1>2. ASSUME NEW q \in Replica PROVE Running(run[q])' /\ Checking(check[q])'
  <2>1. Running(run'[q]) /\ Checking(check'[q])
    BY DEF TypeOK
  <2> QED  BY <2>1 DEF Running, Checking, OfMerchant, EndOfDay, StartOfDay
<1>3. \A i \in DOMAIN settlement' : Rowed(i)'
  BY DEF Rowed, EndOfDay, StartOfDay
<1>4. InOrder' /\ Explained'
  BY DEF InOrder, Explained, OfMerchant, Holding
<1>5. Completions'
  BY DEF Completions
<1> QED  BY <1>1, <1>2, <1>3, <1>4, <1>5

\* One run goes on.
LEMMA RunKeeps ==
    ASSUME SInv, NEW rep \in Replica, NEW r \in Run, RunGoes(rep, r), Running(r),
           UNCHANGED <<settlement, raced>>, fired' \in [Replica -> -1..MaxClock]
    PROVE  SInv'
<1>1. check[rep] \in Check /\ check = [check EXCEPT ![rep] = check[rep]] /\ Checking(check[rep])
  BY DEF SInv, TypeOK
<1>2. run' = [run EXCEPT ![rep] = r] /\ check' = check /\ UNCHANGED <<clock, payment, completed>>
  BY DEF RunGoes
<1> QED  BY <1>1, <1>2, ReplicaKeeps

\* One check goes on.
LEMMA CheckKeeps ==
    ASSUME SInv, NEW rep \in Replica, NEW c \in Check, CheckGoes(rep, c), Checking(c),
           UNCHANGED settlement
    PROVE  SInv'
<1>1. run[rep] \in Run /\ run = [run EXCEPT ![rep] = run[rep]] /\ Running(run[rep])
      /\ fired \in [Replica -> -1..MaxClock]
  BY DEF SInv, TypeOK
<1>2. /\ check' = [check EXCEPT ![rep] = c] /\ run' = run /\ fired' = fired
      /\ UNCHANGED <<clock, payment, completed, raced>>
  BY DEF CheckGoes
<1> QED  BY <1>1, <1>2, ReplicaKeeps

LEMMA CrashKeeps ==
    ASSUME SInv, NEW rep \in Replica, Crash(rep)
    PROVE  SInv'
<1>1. NoRun \in Run /\ Running(NoRun) /\ NoCheck \in Check /\ Checking(NoCheck)
  BY DEF NoRun, Run, NoCheck, Check, Running, Checking
<1>2. fired \in [Replica -> -1..MaxClock]
  BY DEF SInv, TypeOK
<1>3. /\ run' = [run EXCEPT ![rep] = NoRun] /\ check' = [check EXCEPT ![rep] = NoCheck]
      /\ UNCHANGED <<clock, payment, settlement, fired, completed, raced>>
  BY DEF Crash
<1> QED  BY <1>1, <1>2, <1>3, ReplicaKeeps

-----------------------------------------------------------------------------
(* The steps of a run.                                                      *)

LEMMA RunTypes ==
    ASSUME SInv, NEW rep \in Replica
    PROVE  /\ run[rep] \in Run /\ Running(run[rep]) /\ fired \in [Replica -> -1..MaxClock]
           /\ run[rep].at \in {"find", "save"} => run[rep].m \in Merchant
BY DEF SInv, TypeOK, Running, Run

LEMMA NextMerchantGoes ==
    ASSUME SInv, NEW rep \in Replica, run[rep].at \in {"find", "save"}
    PROVE  NextMerchant(run[rep]) \in Run /\ Running(NextMerchant(run[rep]))
<1> DEFINE r == NextMerchant(run[rep])
<1>1. run[rep] \in Run /\ run[rep].tried \cup run[rep].todo = run[rep].listed /\ run[rep].m \in Merchant
      /\ run[rep].m \in run[rep].todo
  BY RunTypes DEF Running
<1>2. r \in Run /\ r.at = "next" /\ r.todo = run[rep].todo \ {run[rep].m} /\ r.listed = run[rep].listed
      /\ r.tried = run[rep].tried \cup {run[rep].m}
  BY <1>1 DEF NextMerchant, NoRun, Run
<1> HIDE DEF r
<1>3. Running(r)
  BY <1>1, <1>2 DEF Running
<1> QED  BY <1>2, <1>3 DEF r

\* Every step of a run but the save.
LEMMA RunStepKeeps ==
    ASSUME SInv, NEW rep \in Replica,
           \/ ProcessScheduledSettlements(rep) \/ FindPayments(rep)
           \/ RunFails(rep) \/ RunEnds(rep)
           \/ \E m \in Merchant : GetNextSettlementDate(rep, m)
    PROVE  SInv'
<1> USE RunTypes
<1>1. CASE ProcessScheduledSettlements(rep)
  <2>0. PICK active \in SUBSET Merchant :
           RunGoes(rep, [NoRun EXCEPT !.at = "next", !.listed = active, !.todo = active])
    BY <1>1 DEF ProcessScheduledSettlements
  <2> DEFINE r == [NoRun EXCEPT !.at = "next", !.listed = active, !.todo = active]
  <2>1. r \in Run /\ r.at = "next" /\ r.listed = active /\ r.todo = active /\ r.tried = {}
    BY DEF NoRun, Run
  <2>2. RunGoes(rep, r) /\ UNCHANGED <<settlement, raced>> /\ fired' = [fired EXCEPT ![rep] = clock]
    BY <1>1, <2>0 DEF ProcessScheduledSettlements
  <2>3. fired' \in [Replica -> -1..MaxClock]
    BY <2>2, TimeAssumption DEF SInv, TypeOK
  <2> HIDE DEF r
  <2>4. Running(r)
    BY <2>1 DEF Running
  <2> QED  BY <2>1, <2>2, <2>3, <2>4, RunKeeps
<1>2. ASSUME NEW m \in Merchant, GetNextSettlementDate(rep, m) PROVE SInv'
  <2> DEFINE last == LastOf(m)
             start == IF last = 0 THEN StartOfDay(clock) ELSE settlement[last].end
             r == [run[rep] EXCEPT !.at = "find", !.m = m, !.last = last, !.start = start,
                                   !.end = EndOfDay(clock)]
  <2>1. TypeOK /\ \A i \in DOMAIN settlement : Rowed(i)
    BY DEF SInv
  <2>2. /\ EndOfDay(clock) \in Nat /\ StartOfDay(clock) \in Nat
        /\ last \in Nat /\ (last # 0 => last \in OfMerchant(m))
    BY <2>1, DayEnds, LastIsLatest
  <2>3. last # 0 => settlement[last].end \in Nat /\ settlement[last].end <= EndOfDay(clock)
    <3> SUFFICES ASSUME last # 0 PROVE settlement[last].end \in Nat /\ settlement[last].end <= EndOfDay(clock)
      OBVIOUS
    <3>1. last \in DOMAIN settlement /\ settlement[last].m = m
      BY <2>2 DEF OfMerchant
    <3>2. settlement[last] \in SettlementRow /\ Rowed(last)
      BY <2>1, <3>1, RowTypes
    <3> QED  BY <3>1, <3>2, NoneAssumption DEF Rowed, SettlementRow
  <2>4. /\ run[rep].at = "next" /\ m \in run[rep].todo
        /\ RunGoes(rep, r) /\ UNCHANGED <<settlement, raced, fired>>
    BY <1>2 DEF GetNextSettlementDate
  <2>5. start \in Nat /\ (last # 0 => start = settlement[last].end /\ start <= EndOfDay(clock))
    BY <2>2, <2>3
  <2> HIDE DEF last, start
  <2>6. r \in Run
    BY <2>2, <2>5 DEF Run
  <2>7. /\ r.at = "find" /\ r.m = m /\ r.last = last /\ r.start = start /\ r.end = EndOfDay(clock)
        /\ r.todo = run[rep].todo /\ r.tried = run[rep].tried /\ r.listed = run[rep].listed
    BY DEF Run
  <2> HIDE DEF r
  <2>8. run[rep].tried \cup run[rep].todo = run[rep].listed
    BY <2>4 DEF Running
  <2>9. Running(r)
    BY <2>2, <2>4, <2>5, <2>7, <2>8 DEF Running
  <2> QED  BY <2>4, <2>6, <2>9, RunKeeps
<1>3. CASE FindPayments(rep)
  <2> DEFINE found == Settleable(run[rep])
             r == [run[rep] EXCEPT !.at = "save", !.found = found]
  <2>1. /\ run[rep].at = "find" /\ UNCHANGED <<settlement, raced, fired>>
        /\ RunGoes(rep, IF found = {} THEN NextMerchant(run[rep]) ELSE r)
    BY <1>3 DEF FindPayments
  <2>2. CASE found = {}
    BY <2>1, <2>2, NextMerchantGoes, RunKeeps
  <2>3. CASE found # {}
    <3>1. found \in SUBSET Payment
      BY DEF Settleable
    <3>2. \A p \in found : p \in completed /\ payment[p].m = run[rep].m /\ payment[p].at \in run[rep].start..run[rep].end
      BY DEF Settleable, SInv, Completions
    <3> HIDE DEF found
    <3>3. r \in Run
      BY <3>1 DEF Run
    <3>4. /\ r.at = "save" /\ r.m = run[rep].m /\ r.last = run[rep].last /\ r.start = run[rep].start
          /\ r.end = run[rep].end /\ r.todo = run[rep].todo /\ r.tried = run[rep].tried
          /\ r.listed = run[rep].listed /\ r.found = found
      BY DEF Run
    <3> HIDE DEF r
    <3>5. Running(r)
      BY <2>1, <3>2, <3>4 DEF Running
    <3> QED  BY <2>1, <2>3, <3>3, <3>5, RunKeeps
  <2> QED  BY <2>2, <2>3
<1>4. CASE RunFails(rep)
  <2>1. /\ run[rep].at \in {"find", "save"} /\ RunGoes(rep, NextMerchant(run[rep]))
        /\ UNCHANGED <<settlement, raced, fired>>
    BY <1>4 DEF RunFails
  <2> QED  BY <2>1, NextMerchantGoes, RunKeeps
<1>5. CASE RunEnds(rep)
  <2>1. NoRun \in Run /\ Running(NoRun)
    BY DEF NoRun, Run, Running
  <2> QED  BY <1>5, <2>1, RunKeeps DEF RunEnds
<1> QED  BY <1>1, <1>2, <1>3, <1>4, <1>5

-----------------------------------------------------------------------------
(* New rows.                                                                *)

\* A row that may be added: what it says holds, and it comes after the others
\* of its merchant or explains them.
Fits(row) ==
    /\ row.m = None => row.found = {}
    /\ row.m # None => row.status = "processing" /\ row.end <= EndOfDay(clock)
    /\ \A p \in row.found : p \in completed /\ payment[p].m = row.m /\ payment[p].at <= row.end
    /\ row.m \in Merchant \ raced' => \A i \in OfMerchant(row.m) : settlement[i].end <= row.end
    /\ \A p \in row.found : \A i \in Holding(p) :
           payment[p].m \in raced' \/ payment[p].at = settlement[i].end

LEMMA AppendKeeps ==
    ASSUME SInv, NEW row \in SettlementRow, Fits(row), settlement' = Append(settlement, row),
           UNCHANGED <<clock, payment, fired, check, completed>>,
           raced \subseteq raced', raced' \subseteq Merchant, run' \in [Replica -> Run],
           \A q \in Replica : run'[q] = run[q] \/ (run'[q].at = "next" /\ Running(run'[q]))
    PROVE  SInv'
<1> USE DEF SInv
<1> DEFINE n == Len(settlement) + 1
<1>1. /\ settlement' \in Seq(SettlementRow)
      /\ DOMAIN settlement' = DOMAIN settlement \cup {n} /\ n \notin DOMAIN settlement
      /\ DOMAIN settlement \subseteq Nat /\ n \in Nat \ {0} /\ \A i \in DOMAIN settlement : i < n
      /\ settlement'[n] = row
      /\ \A i \in DOMAIN settlement : settlement'[i] = settlement[i]
  BY Appended
<1> HIDE DEF n
<1>2. TypeOK'
  BY <1>1 DEF TypeOK
<1>3. \A m : OfMerchant(m)' = OfMerchant(m) \cup (IF row.m = m THEN {n} ELSE {})
  BY <1>1 DEF OfMerchant
<1>4. \A p : Holding(p)' = Holding(p) \cup (IF p \in row.found THEN {n} ELSE {})
  BY <1>1 DEF Holding
<1>5. /\ \A m : OfMerchant(m) \subseteq DOMAIN settlement
      /\ \A p : Holding(p) \subseteq DOMAIN settlement
  BY DEF OfMerchant, Holding
<1>6. EndOfDay(clock)' = EndOfDay(clock) /\ completed' = completed
  BY DEF EndOfDay, StartOfDay
<1>7. ASSUME NEW q \in Replica PROVE Running(run[q])' /\ Checking(check[q])'
  <2>1. Running(run[q]) /\ Checking(check[q]) /\ (run'[q] = run[q] \/ (run'[q].at = "next" /\ Running(run'[q])))
    OBVIOUS
  <2>2. Running(run[q])'
    <3>1. CASE run'[q].at = "next" /\ Running(run'[q])
      BY <3>1 DEF Running
    <3>2. CASE run'[q] = run[q]
      <4>1. run[q].last \in OfMerchant(run[q].m) =>
                /\ run[q].last \in OfMerchant(run[q].m)'
                /\ settlement'[run[q].last].end = settlement[run[q].last].end
        BY <1>1, <1>3, <1>5, <3>2
      <4> QED  BY <1>3, <1>6, <2>1, <3>2, <4>1 DEF Running
    <3> QED  BY <2>1, <3>1, <3>2
  <2>3. Checking(check[q])'
    BY <1>3, <2>1 DEF Checking
  <2> QED  BY <2>2, <2>3
<1>8. ASSUME NEW i \in DOMAIN settlement' PROVE Rowed(i)'
  <2>1. CASE i = n
    BY <1>1, <1>6, <2>1 DEF Rowed, Fits
  <2>2. CASE i # n
    <3>1. Rowed(i) /\ settlement'[i] = settlement[i]
      BY <1>1, <2>2
    <3> QED  BY <1>6, <3>1 DEF Rowed
  <2> QED  BY <2>1, <2>2
<1>9. InOrder'
  <2> SUFFICES ASSUME NEW m \in Merchant \ raced', NEW i \in OfMerchant(m)', NEW j \in OfMerchant(m)',
                      i < j
               PROVE  settlement'[i].end <= settlement'[j].end
    BY DEF InOrder
  <2>1. CASE j = n
    <3>1. i \in OfMerchant(m) /\ m = row.m
      <4>1. n \notin OfMerchant(m) /\ i # n
        BY <1>1, <1>5, <2>1
      <4> QED  BY <1>3, <2>1, <4>1
    <3> QED  BY <1>1, <1>5, <2>1, <3>1 DEF Fits
  <2>2. CASE j # n
    <3>1. j \in OfMerchant(m)
      BY <1>3, <2>2
    <3>2. j \in DOMAIN settlement /\ j < n
      BY <1>1, <1>5, <3>1
    <3>3. i # n
      BY <1>1, <3>2
    <3>4. i \in OfMerchant(m) /\ i \in DOMAIN settlement
      BY <1>3, <1>5, <3>3
    <3> QED  BY <1>1, <3>1, <3>2, <3>4 DEF InOrder
  <2> QED  BY <2>1, <2>2
<1>10. Explained'
  <2> SUFFICES ASSUME NEW p \in Payment, NEW i \in Holding(p)', NEW j \in Holding(p)', i < j
               PROVE  payment[p].m \in raced' \/ payment[p].at = settlement'[i].end
    BY DEF Explained
  <2>1. CASE j = n
    <3>1. i \in Holding(p) /\ p \in row.found
      <4>1. n \notin Holding(p) /\ i # n
        BY <1>1, <1>5, <2>1
      <4> QED  BY <1>4, <2>1, <4>1
    <3> QED  BY <1>1, <1>5, <3>1 DEF Fits
  <2>2. CASE j # n
    <3>1. j \in Holding(p)
      BY <1>4, <2>2
    <3>2. j \in DOMAIN settlement /\ j < n
      BY <1>1, <1>5, <3>1
    <3>3. i # n
      BY <1>1, <3>2
    <3>4. i \in Holding(p) /\ i \in DOMAIN settlement
      BY <1>4, <1>5, <3>3
    <3> QED  BY <1>1, <3>1, <3>4 DEF Explained
  <2> QED  BY <2>1, <2>2
<1>11. Completions'
  BY DEF Completions
<1> QED  BY <1>2, <1>7, <1>8, <1>9, <1>10, <1>11

LEMMA CreateKeeps ==
    ASSUME SInv, CreateSettlement
    PROVE  SInv'
<1> DEFINE row == [m |-> None, start |-> 0, end |-> 0, found |-> {}, status |-> "pending"]
<1>1. row \in SettlementRow /\ row.m = None /\ row.found = {} /\ row.status = "pending"
  BY DEF SettlementRow
<1>2. /\ settlement' = Append(settlement, row)
      /\ UNCHANGED <<clock, payment, fired, run, check, completed, raced>>
  BY DEF CreateSettlement
<1> HIDE DEF row
<1>3. Fits(row)
  BY <1>1, NoneAssumption DEF Fits
<1>4. raced \subseteq Merchant /\ run \in [Replica -> Run]
  BY DEF SInv, TypeOK
<1> QED  BY <1>1, <1>2, <1>3, <1>4, AppendKeeps

LEMMA SaveKeeps ==
    ASSUME SInv, NEW rep \in Replica, SaveSettlement(rep)
    PROVE  SInv'
<1> DEFINE r == run[rep]
           row == [m |-> r.m, start |-> r.start, end |-> r.end,
                   found |-> r.found, status |-> "processing"]
           next == NextMerchant(r)
<1>1. /\ settlement' = Append(settlement, row) /\ run' = [run EXCEPT ![rep] = next] /\ r.at = "save"
      /\ raced' = IF LastOf(r.m) = r.last THEN raced ELSE raced \cup {r.m}
      /\ UNCHANGED <<clock, payment, fired, check, completed>>
  BY DEF SaveSettlement, RunGoes
<1>2. /\ TypeOK /\ r \in Run /\ Running(r) /\ r.m \in Merchant /\ raced \subseteq Merchant
      /\ run \in [Replica -> Run]
  BY <1>1, RunTypes DEF SInv, TypeOK
<1>3. /\ row \in SettlementRow /\ row.m = r.m /\ row.end = r.end /\ row.found = r.found
      /\ row.status = "processing"
  BY <1>2 DEF SettlementRow, Run
<1>4. next \in Run /\ next.at = "next" /\ Running(next)
  <2>1. next \in Run /\ Running(next)
    BY <1>1, NextMerchantGoes
  <2> QED  BY <1>2, <2>1 DEF NextMerchant, NoRun, Run
<1> HIDE DEF row, next, r
<1>6. \A q \in Replica : run'[q] = run[q] \/ (run'[q].at = "next" /\ Running(run'[q]))
  BY <1>1, <1>2, <1>4
<1>7. raced \subseteq raced' /\ raced' \subseteq Merchant /\ run' \in [Replica -> Run]
  BY <1>1, <1>2, <1>4
\* When the last settlement is the one that was read, all of the merchant's end
\* by the start of the new period.
<1>8. ASSUME r.m \notin raced', NEW i \in OfMerchant(r.m)
      PROVE  /\ settlement[i].end \in Nat /\ r.start \in Nat /\ r.end \in Nat
             /\ settlement[i].end <= r.start /\ r.start <= r.end
  <2>1. LastOf(r.m) = r.last /\ r.m \notin raced
    BY <1>1, <1>8
  <2>2. r.last \in OfMerchant(r.m) /\ i <= r.last /\ r.last # 0
    BY <1>2, <1>8, <2>1, LastIsLatest
  <2>3. i \in DOMAIN settlement /\ r.last \in DOMAIN settlement
    BY <1>8, <2>2 DEF OfMerchant
  <2>4. /\ settlement[i] \in SettlementRow /\ settlement[r.last] \in SettlementRow
        /\ i \in Nat /\ r.last \in Nat
    BY <1>2, <2>3, RowTypes
  <2>5. settlement[i].end \in Nat /\ settlement[r.last].end \in Nat
    BY <2>4 DEF SettlementRow
  <2>6. r.start = settlement[r.last].end /\ r.start <= r.end
    BY <1>1, <1>2, <2>2 DEF Running
  <2>7. r.end \in Nat
    BY <1>2 DEF Run
  <2>8. settlement[i].end <= settlement[r.last].end
    <3>1. CASE i = r.last
      BY <2>5, <3>1
    <3>2. CASE i # r.last
      <4>1. i < r.last
        BY <2>2, <2>4, <3>2
      <4> QED  BY <1>2, <1>8, <2>1, <2>2, <4>1 DEF SInv, InOrder
    <3> QED  BY <3>1, <3>2
  <2> QED  BY <2>5, <2>6, <2>7, <2>8
<1>9. \A p \in r.found : p \in completed /\ payment[p].m = r.m /\ payment[p].at \in r.start..r.end
  BY <1>1, <1>2 DEF Running
<1>10. Fits(row)
  <2>1. row.m # None /\ row.end <= EndOfDay(clock)
    BY <1>1, <1>2, <1>3, NoneAssumption DEF Running
  <2>2. \A p \in row.found : p \in completed /\ payment[p].m = row.m /\ payment[p].at <= row.end
    BY <1>3, <1>9
  <2>3. row.m \in Merchant \ raced' => \A i \in OfMerchant(row.m) : settlement[i].end <= row.end
    BY <1>3, <1>8
  <2>4. ASSUME NEW p \in row.found, NEW i \in Holding(p), payment[p].m \notin raced'
        PROVE  payment[p].at = settlement[i].end
    <3>1. i \in DOMAIN settlement /\ p \in settlement[i].found
      BY DEF Holding
    <3>2. Rowed(i)
      BY <3>1 DEF SInv
    <3>3. payment[p].m = r.m /\ payment[p].at \in r.start..r.end
      BY <1>3, <1>9
    <3>4. settlement[i].m = r.m /\ payment[p].at <= settlement[i].end
      BY <3>1, <3>2, <3>3 DEF Rowed
    <3>5. i \in OfMerchant(r.m)
      BY <3>1, <3>4 DEF OfMerchant
    <3> QED  BY <1>8, <2>4, <3>3, <3>4, <3>5
  <2> QED  BY <1>3, <2>1, <2>2, <2>3, <2>4 DEF Fits
<1> QED  BY <1>1, <1>3, <1>6, <1>7, <1>10, AppendKeeps

-----------------------------------------------------------------------------
(* The steps of a check.                                                    *)

LEMMA CheckTypes ==
    ASSUME SInv, NEW rep \in Replica
    PROVE  check[rep] \in Check /\ Checking(check[rep]) /\ NoCheck \in Check /\ Checking(NoCheck)
BY DEF SInv, TypeOK, NoCheck, Check, Checking

LEMMA NextPendingGoes ==
    ASSUME SInv, NEW rep \in Replica, check[rep].at # "idle", NEW i
    PROVE  LET c == NextPending(check[rep], i) IN
           c \in Check /\ Checking(c) /\ c.at # "fail"
<1> DEFINE d == [NoCheck EXCEPT !.at = "save", !.todo = check[rep].todo \ {i}]
<1>1. check[rep].todo \subseteq OfMerchant(None) /\ check[rep].todo \in SUBSET Nat
  BY CheckTypes DEF Checking, Check
<1>2. d \in Check /\ d.at = "save" /\ d.todo = check[rep].todo \ {i}
  BY <1>1 DEF NoCheck, Check
<1> HIDE DEF d
<1>3. Checking(d)
  BY <1>1, <1>2 DEF Checking
<1>4. NoCheck \in Check /\ Checking(NoCheck) /\ NoCheck.at # "fail"
  BY CheckTypes DEF NoCheck
<1> QED  BY <1>2, <1>3, <1>4 DEF NextPending, d

LEMMA ToFail ==
    ASSUME SInv, NEW rep \in Replica, check[rep].at = "save", NEW i \in check[rep].todo
    PROVE  LET c == [check[rep] EXCEPT !.at = "fail", !.i = i] IN
           /\ c \in Check /\ Checking(c) /\ c.at = "fail" /\ c.i = i
           /\ i \in OfMerchant(None)
<1> DEFINE c == [check[rep] EXCEPT !.at = "fail", !.i = i]
<1>1. check[rep] \in Check /\ check[rep].todo \subseteq OfMerchant(None)
  BY CheckTypes DEF Checking
<1>2. c \in Check /\ c.at = "fail" /\ c.i = i /\ c.todo = check[rep].todo
  BY <1>1 DEF Check
<1> HIDE DEF c
<1>3. Checking(c)
  BY <1>1, <1>2 DEF Checking
<1> QED  BY <1>1, <1>2, <1>3 DEF c

\* A settlement without a merchant gets another status.
LEMMA MarkKeeps ==
    ASSUME SInv, NEW rep \in Replica, NEW i \in OfMerchant(None), NEW s \in {"completed", "failed"},
           settlement' = [settlement EXCEPT ![i].status = s],
           NEW c \in Check, CheckGoes(rep, c), Checking(c)
    PROVE  SInv'
<1> USE DEF SInv
<1>1. /\ check' = [check EXCEPT ![rep] = c] /\ check'[rep] = c
      /\ \A q \in Replica \ {rep} : check'[q] = check[q]
      /\ UNCHANGED <<clock, payment, fired, run, completed, raced>>
  BY DEF CheckGoes, TypeOK
<1>2. i \in DOMAIN settlement /\ settlement[i].m = None
  BY DEF OfMerchant
<1>3. /\ settlement' \in Seq(SettlementRow) /\ DOMAIN settlement' = DOMAIN settlement
      /\ \A j \in DOMAIN settlement :
            /\ settlement'[j].m = settlement[j].m /\ settlement'[j].start = settlement[j].start
            /\ settlement'[j].end = settlement[j].end /\ settlement'[j].found = settlement[j].found
            /\ settlement'[j].status = IF j = i THEN s ELSE settlement[j].status
  <2>1. TypeOK
    OBVIOUS
  <2>2. s \in {"pending", "processing", "completed", "failed"}
    OBVIOUS
  <2> HIDE DEF SInv
  <2> QED  BY ONLY <1>2, <2>1, <2>2, settlement' = [settlement EXCEPT ![i].status = s], Marked
<1>4. TypeOK'
  BY <1>1, <1>3 DEF TypeOK
<1>5. /\ \A m : OfMerchant(m)' = OfMerchant(m) /\ OfMerchant(m) \subseteq DOMAIN settlement
      /\ \A p : Holding(p)' = Holding(p) /\ Holding(p) \subseteq DOMAIN settlement
      /\ EndOfDay(clock)' = EndOfDay(clock) /\ completed' = completed
  BY <1>1, <1>3 DEF OfMerchant, Holding, EndOfDay, StartOfDay
<1>6. ASSUME NEW q \in Replica PROVE Running(run[q])' /\ Checking(check[q])'
  <2>1. Running(run[q]) /\ Checking(check'[q]) /\ run'[q] = run[q]
    BY <1>1
  <2>2. Running(run[q])'
    <3>1. run[q].last \in OfMerchant(run[q].m) =>
              settlement'[run[q].last].end = settlement[run[q].last].end
      BY <1>3, <1>5
    <3> QED  BY <1>1, <1>5, <2>1, <3>1 DEF Running
  <2>3. Checking(check[q])'
    BY <1>5, <2>1 DEF Checking
  <2> QED  BY <2>2, <2>3
<1>7. ASSUME NEW j \in DOMAIN settlement' PROVE Rowed(j)'
  <2>1. Rowed(j) /\ j \in DOMAIN settlement
    BY <1>3
  <2> QED  BY <1>1, <1>2, <1>3, <1>5, <2>1 DEF Rowed
<1>8. InOrder' /\ Explained'
  BY <1>1, <1>3, <1>5 DEF InOrder, Explained
<1>9. Completions'
  BY <1>1 DEF Completions
<1> QED  BY <1>4, <1>6, <1>7, <1>8, <1>9

LEMMA CheckStepKeeps ==
    ASSUME SInv, NEW rep \in Replica, CheckPendingSettlements(rep) \/ CheckStep(rep)
    PROVE  SInv'
<1> USE CheckTypes
<1>1. CASE CheckPendingSettlements(rep)
  <2> DEFINE c == [NoCheck EXCEPT !.at = "save", !.todo = Pending]
  <2>1. Pending \subseteq OfMerchant(None) /\ Pending \in SUBSET Nat
    BY RowTypes DEF Pending, OfMerchant, SInv, Rowed
  <2>2. c \in Check /\ c.at = "save" /\ c.todo = Pending
    BY <2>1 DEF NoCheck, Check
  <2>3. /\ CheckGoes(rep, c) /\ UNCHANGED settlement
    BY <1>1 DEF CheckPendingSettlements
  <2> HIDE DEF c
  <2>4. Checking(c)
    BY <2>1, <2>2 DEF Checking
  <2> QED  BY <2>2, <2>3, <2>4, CheckKeeps
<1>2. ASSUME NEW i \in DOMAIN settlement, CheckCompletes(rep, i) PROVE SInv'
  <2> DEFINE c == [check[rep] EXCEPT !.at = "fail", !.i = i]
  <2>1. /\ check[rep].at = "save" /\ i \in check[rep].todo
        /\ settlement' = [settlement EXCEPT ![i].status = "completed"]
        /\ CheckGoes(rep, IF settlement[i].m = None THEN c ELSE NextPending(check[rep], i))
    BY <1>2 DEF CheckCompletes
  <2>2. c \in Check /\ Checking(c) /\ c.at = "fail" /\ c.i = i /\ i \in OfMerchant(None)
    BY <2>1, ToFail
  <2>3. settlement[i].m = None
    BY <2>2 DEF OfMerchant
  <2> HIDE DEF c
  <2> QED  BY <2>1, <2>2, <2>3, MarkKeeps
<1>3. ASSUME NEW i \in DOMAIN settlement, CheckSaveFails(rep, i) PROVE SInv'
  <2> DEFINE c == [check[rep] EXCEPT !.at = "fail", !.i = i]
  <2>1. /\ check[rep].at = "save" /\ i \in check[rep].todo /\ UNCHANGED settlement
        /\ CheckGoes(rep, c)
    BY <1>3 DEF CheckSaveFails
  <2>2. c \in Check /\ Checking(c)
    BY <2>1, ToFail
  <2> HIDE DEF c
  <2> QED  BY <2>1, <2>2, CheckKeeps
<1>4. CASE CheckFails(rep)
  <2> DEFINE i == check[rep].i
             c == IF settlement[i].m = None THEN NoCheck ELSE NextPending(check[rep], i)
  <2>1. /\ check[rep].at = "fail" /\ CheckGoes(rep, c)
        /\ settlement' = [settlement EXCEPT ![i].status = "failed"]
    BY <1>4 DEF CheckFails
  <2>2. i \in OfMerchant(None)
    BY <2>1 DEF Checking
  <2>3. c \in Check /\ Checking(c)
    BY <2>1, NextPendingGoes
  <2> HIDE DEF c, i
  <2> QED  BY <2>1, <2>2, <2>3, MarkKeeps
<1>5. CASE CheckGivesUp(rep)
  BY <1>5, CheckKeeps DEF CheckGivesUp
<1> QED  BY <1>1, <1>2, <1>3, <1>4, <1>5 DEF CheckStep

-----------------------------------------------------------------------------
(* Payments, and time.                                                      *)

LEMMA PaymentKeeps ==
    ASSUME SInv, payment' \in [Payment -> PaymentRow], completed \subseteq completed',
           completed' \in SUBSET Payment, Completions',
           \A p \in completed : payment'[p].m = payment[p].m /\ payment'[p].at = payment[p].at,
           UNCHANGED <<clock, settlement, fired, run, check, raced>>
    PROVE  SInv'
<1> USE DEF SInv
<1>1. TypeOK'
  BY DEF TypeOK
<1>2. ASSUME NEW rep \in Replica PROVE Running(run[rep])' /\ Checking(check[rep])'
  <2>1. Running(run[rep]) /\ Checking(check[rep])
    OBVIOUS
  <2>2. run[rep].at = "save" => \A p \in run[rep].found :
           p \in completed' /\ payment'[p].m = run[rep].m /\ payment'[p].at \in run[rep].start..run[rep].end
    BY <2>1 DEF Running
  <2> QED  BY <2>1, <2>2 DEF Running, Checking, OfMerchant, EndOfDay, StartOfDay
<1>3. ASSUME NEW i \in DOMAIN settlement' PROVE Rowed(i)'
  <2>1. Rowed(i)
    OBVIOUS
  <2>2. \A p \in settlement[i].found :
           p \in completed' /\ payment'[p].m = settlement[i].m /\ payment'[p].at <= settlement[i].end
    BY <2>1 DEF Rowed
  <2> QED  BY <2>1, <2>2 DEF Rowed, EndOfDay, StartOfDay
<1>4. InOrder'
  BY DEF InOrder, OfMerchant
<1>5. Explained'
  <2>1. ASSUME NEW p \in Payment, NEW i \in Holding(p) PROVE p \in completed
    <3>1. Rowed(i) /\ p \in settlement[i].found
      BY <2>1 DEF Holding
    <3> QED  BY <3>1 DEF Rowed
  <2> QED  BY <2>1 DEF Explained, Holding
<1> QED  BY <1>1, <1>2, <1>3, <1>4, <1>5

LEMMA CreatedKeeps ==
    ASSUME SInv, NEW p \in Payment, NEW m \in Merchant, PaymentCreated(p, m)
    PROVE  SInv' /\ completed' = completed
<1> DEFINE row == [status |-> "other", m |-> m, at |-> clock]
<1>1. payment \in [Payment -> PaymentRow] /\ clock \in Nat
  BY DayEnds DEF SInv, TypeOK
<1>2. row \in PaymentRow /\ row.status = "other"
  BY <1>1 DEF PaymentRow, PaymentStatus
<1>3. /\ payment[p].status = "absent" /\ payment' = [payment EXCEPT ![p] = row]
      /\ UNCHANGED <<clock, settlement, fired, run, check, completed, raced>>
  BY DEF PaymentCreated
<1> HIDE DEF row
<1>4. /\ payment' \in [Payment -> PaymentRow]
      /\ completed \in SUBSET Payment /\ p \notin completed
      /\ \A q \in Payment \ {p} : payment'[q] = payment[q]
      /\ payment'[p] = row
  BY <1>1, <1>2, <1>3 DEF SInv, TypeOK, Completions
<1>5. Completions'
  BY <1>2, <1>3, <1>4 DEF SInv, Completions
<1> QED  BY <1>3, <1>4, <1>5, PaymentKeeps

LEMMA MovesKeeps ==
    ASSUME SInv, NEW p \in Payment, NEW status \in PaymentStatus, PaymentMoves(p, status)
    PROVE  SInv' /\ (completed' = completed \/ (p \notin completed /\ completed' = completed \cup {p}))
<1>1. payment \in [Payment -> PaymentRow] /\ completed \in SUBSET Payment
  BY DEF SInv, TypeOK
<1>2. /\ payment[p].status # "absent" /\ payment' = [payment EXCEPT ![p].status = status]
      /\ completed' = IF status = "completed" THEN completed \cup {p} ELSE completed
      /\ UNCHANGED <<clock, settlement, fired, run, check, raced>>
  BY DEF PaymentMoves
<1> DEFINE row == [payment[p] EXCEPT !.status = status]
<1>3. payment[p] \in PaymentRow
  BY <1>1
<1>4. row \in PaymentRow /\ row.status = status /\ row.m = payment[p].m /\ row.at = payment[p].at
  BY <1>3 DEF PaymentRow
<1>5. payment' = [payment EXCEPT ![p] = row]
  BY <1>2
<1> HIDE DEF row
<1>6. /\ payment' \in [Payment -> PaymentRow] /\ payment'[p] = row
      /\ \A q \in Payment \ {p} : payment'[q] = payment[q]
  BY <1>1, <1>4, <1>5
<1>7. Completions'
  BY <1>2, <1>4, <1>6 DEF SInv, Completions, PaymentStatus
<1>8. \A q \in completed : payment'[q].m = payment[q].m /\ payment'[q].at = payment[q].at
  BY <1>1, <1>4, <1>6
<1> QED  BY <1>1, <1>2, <1>6, <1>7, <1>8, PaymentKeeps

LEMMA TickKeeps ==
    ASSUME SInv, Tick
    PROVE  SInv'
<1> USE DEF SInv
<1>1. /\ clock < MaxClock /\ clock' = clock + 1
      /\ UNCHANGED <<payment, settlement, fired, run, check, completed, raced>>
  BY DEF Tick
<1>2. clock \in Nat /\ clock' \in 0..MaxClock
  BY <1>1, DayEnds, TimeAssumption DEF TypeOK
<1>3. TypeOK'
  BY <1>1, <1>2 DEF TypeOK
<1>4. /\ EndOfDay(clock) \in Nat /\ EndOfDay(clock') \in Nat
      /\ EndOfDay(clock) <= EndOfDay(clock')
  BY <1>1, <1>2, DaysGoOn
<1>5. ASSUME NEW e \in Nat, e <= EndOfDay(clock) PROVE e <= EndOfDay(clock')
  BY <1>4, <1>5
<1>6. ASSUME NEW rep \in Replica PROVE Running(run[rep])' /\ Checking(check[rep])'
  <2>1. Running(run[rep]) /\ Checking(check[rep]) /\ run[rep] \in Run
    BY DEF TypeOK
  <2>2. run[rep].end \in Nat
    BY <2>1 DEF Run
  <2>3. run[rep].end <= EndOfDay(clock) => run[rep].end <= EndOfDay(clock')
    BY <1>5, <2>2
  <2> QED  BY <1>1, <2>1, <2>3 DEF Running, Checking, OfMerchant
<1>7. ASSUME NEW i \in DOMAIN settlement' PROVE Rowed(i)'
  <2>1. Rowed(i) /\ settlement[i] \in SettlementRow
    BY <1>1, RowTypes
  <2>2. settlement[i].end \in Nat
    BY <2>1 DEF SettlementRow
  <2>3. settlement[i].end <= EndOfDay(clock) => settlement[i].end <= EndOfDay(clock')
    BY <1>5, <2>2
  <2> QED  BY <1>1, <2>1, <2>3 DEF Rowed
<1>8. InOrder' /\ Explained' /\ Completions'
  BY <1>1 DEF InOrder, Explained, Completions, OfMerchant, Holding
<1> QED  BY <1>3, <1>6, <1>7, <1>8

LEMMA StutterKeeps ==
    ASSUME SInv, UNCHANGED vars
    PROVE  SInv'
<1>1. UNCHANGED <<clock, payment, settlement, fired, run, check, completed, raced>>
  BY DEF vars
<1>2. payment' \in [Payment -> PaymentRow] /\ completed' \in SUBSET Payment /\ Completions'
  BY <1>1 DEF SInv, TypeOK, Completions
<1> QED  BY <1>1, <1>2, PaymentKeeps

LEMMA SettlementsStep == SInv /\ [Next]_vars => SInv'
<1> SUFFICES ASSUME SInv, [Next]_vars PROVE SInv'
  OBVIOUS
<1>1. ASSUME NEW rep \in Replica, RunStep(rep) PROVE SInv'
  BY <1>1, RunStepKeeps, SaveKeeps DEF RunStep
<1> QED
  BY <1>1, StutterKeeps, TickKeeps, MovesKeeps, CreatedKeeps, CreateKeeps, RunStepKeeps,
     CheckStepKeeps, CrashKeeps
  DEF Next

LEMMA SInvHolds == Spec => []SInv
BY SettlementsStart, SettlementsStep, PTL DEF Spec

-----------------------------------------------------------------------------
(* The theorems.                                                            *)

\* The type invariant of the settlements.
THEOREM SettlementsTypeCorrect == Spec => []TypeOK
<1>1. SInv => TypeOK
  BY DEF SInv
<1> QED  BY <1>1, SInvHolds, PTL

\* settlement-schedule.service.ts: a run that gets to the end of its loop has
\* tried every merchant it found active, for any number of them and whatever fails.
THEOREM RunsTryEveryMerchant == Spec => []EveryMerchantTried
<1>1. SInv => EveryMerchantTried
  BY DEF SInv, Running, EveryMerchantTried
<1> QED  BY <1>1, SInvHolds, PTL

-----------------------------------------------------------------------------
(* The refinement: a payment counts as settled once from the first          *)
(* settlement that holds it on.                                             *)

LEMMA SettledCount ==
    ASSUME SInv, NEW p \in Payment
    PROVE  Cardinality(Unexplained(p)) = IF Holding(p) = {} THEN 0 ELSE 1
<1>1. CASE Holding(p) = {}
  <2>1. Unexplained(p) = {}
    BY <1>1 DEF Unexplained
  <2> QED  BY <1>1, <2>1, FS_EmptySet
<1>2. CASE Holding(p) # {}
  <2>1. Len(settlement) \in Nat /\ Holding(p) \in SUBSET (1..Len(settlement))
    BY LenProperties DEF SInv, TypeOK, Holding
  <2>2. PICK k \in Holding(p) : \A j \in Holding(p) : k <= j
    BY <1>2, <2>1, Extremes
  <2>3. k \in Nat /\ \A j \in Holding(p) : j \in Nat
    BY <2>1
  <2>4. k \in Unexplained(p)
    BY <2>2, <2>3 DEF Unexplained
  <2>5. ASSUME NEW j \in Unexplained(p) PROVE j = k
    <3> SUFFICES ASSUME j # k PROVE FALSE
      OBVIOUS
    <3>1. j \in Holding(p) /\ \A i \in Holding(p) :
             i < j => payment[p].m \notin raced /\ payment[p].at # settlement[i].end
      BY DEF Unexplained
    <3>2. k < j
      <4>1. j \in Nat /\ k <= j
        BY <2>2, <2>3, <3>1
      <4> QED  BY <2>3, <4>1
    <3> QED  BY <2>2, <3>1, <3>2 DEF SInv, Explained
  <2>6. Unexplained(p) = {k}
    BY <2>4, <2>5
  <2> QED  BY <1>2, <2>6, FS_Singleton
<1> QED  BY <1>1, <1>2

\* What a step does to the payments that are due and to those that are held.
LEMMA StepSettles ==
    ASSUME SInv, [Next]_vars
    PROVE  \E F \in SUBSET completed, S \in SUBSET (Payment \ completed) :
              /\ F = {} \/ S = {}
              /\ completed' = completed \cup S
              /\ \A p \in Payment : Holding(p)' = {} <=> (Holding(p) = {} /\ p \notin F)
<1>1. ASSUME settlement' = settlement, NEW S \in SUBSET (Payment \ completed), completed' = completed \cup S
      PROVE  \E F \in SUBSET completed, T \in SUBSET (Payment \ completed) :
                /\ F = {} \/ T = {}
                /\ completed' = completed \cup T
                /\ \A p \in Payment : Holding(p)' = {} <=> (Holding(p) = {} /\ p \notin F)
  <2>1. {} \in SUBSET completed /\ \A p \in Payment : Holding(p)' = Holding(p)
    BY <1>1 DEF Holding
  <2> QED  BY <1>1, <2>1
<1>2. ASSUME completed' = completed, NEW F \in SUBSET completed,
             \A p \in Payment : Holding(p)' = {} <=> (Holding(p) = {} /\ p \notin F)
      PROVE  \E G \in SUBSET completed, T \in SUBSET (Payment \ completed) :
                /\ G = {} \/ T = {}
                /\ completed' = completed \cup T
                /\ \A p \in Payment : Holding(p)' = {} <=> (Holding(p) = {} /\ p \notin G)
  <2>1. {} \in SUBSET (Payment \ completed) /\ completed' = completed \cup {}
    BY <1>2
  <2> QED  BY <1>2, <2>1
<1>3. ASSUME settlement' = settlement, completed' = completed
      PROVE  settlement' = settlement /\ {} \in SUBSET (Payment \ completed) /\ completed' = completed \cup {}
  BY <1>3
<1>4. CASE \E p \in Payment, status \in PaymentStatus : PaymentMoves(p, status)
  <2>1. PICK p \in Payment, status \in PaymentStatus : PaymentMoves(p, status)
    BY <1>4
  <2>2. settlement' = settlement
    BY <2>1 DEF PaymentMoves
  <2>3. completed' = completed \/ (p \notin completed /\ completed' = completed \cup {p})
    BY <2>1, MovesKeeps
  <2>4. CASE completed' = completed
    <3>1. {} \in SUBSET (Payment \ completed) /\ completed' = completed \cup {}
      BY <2>4
    <3> QED  BY <1>1, <2>2, <3>1
  <2>5. CASE p \notin completed /\ completed' = completed \cup {p}
    <3>1. {p} \in SUBSET (Payment \ completed)
      BY <2>5
    <3> QED  BY <1>1, <2>2, <2>5, <3>1
  <2> QED  BY <2>3, <2>4, <2>5
<1>5. CASE \E p \in Payment, m \in Merchant : PaymentCreated(p, m)
  <2>1. settlement' = settlement /\ completed' = completed \cup {}
    BY <1>5, CreatedKeeps DEF PaymentCreated
  <2> QED  BY <1>1, <2>1
<1>6. ASSUME NEW row \in SettlementRow, settlement' = Append(settlement, row), NEW p \in Payment
      PROVE  Holding(p)' = {} <=> (Holding(p) = {} /\ p \notin row.found)
  <2>1. TypeOK
    BY DEF SInv
  <2> DEFINE n == Len(settlement) + 1
  <2>2. /\ DOMAIN settlement' = DOMAIN settlement \cup {n} /\ n \notin DOMAIN settlement
        /\ settlement'[n] = row /\ \A i \in DOMAIN settlement : settlement'[i] = settlement[i]
    BY <1>6, <2>1, Appended
  <2> HIDE DEF n
  <2>3. Holding(p)' = Holding(p) \cup (IF p \in row.found THEN {n} ELSE {})
    BY <2>2 DEF Holding
  <2> QED  BY <2>3
<1>7. CASE \E rep \in Replica : SaveSettlement(rep)
  <2>1. PICK rep \in Replica : SaveSettlement(rep)
    BY <1>7
  <2> DEFINE r == run[rep]
             row == [m |-> r.m, start |-> r.start, end |-> r.end,
                     found |-> r.found, status |-> "processing"]
  <2>2. settlement' = Append(settlement, row) /\ completed' = completed /\ r.at = "save"
    BY <2>1 DEF SaveSettlement, RunGoes
  <2>3. r \in Run /\ Running(r) /\ r.m \in Merchant
    BY <2>2, RunTypes
  <2>4. row \in SettlementRow /\ row.found = r.found /\ r.found \in SUBSET completed
    BY <2>2, <2>3 DEF SettlementRow, Run, Running
  <2> HIDE DEF row, r
  <2> QED  BY <1>2, <1>6, <2>2, <2>4
<1>8. CASE CreateSettlement
  <2> DEFINE row == [m |-> None, start |-> 0, end |-> 0, found |-> {}, status |-> "pending"]
  <2>1. row \in SettlementRow /\ row.found = {} /\ {} \in SUBSET completed
    BY DEF SettlementRow
  <2>2. settlement' = Append(settlement, row) /\ completed' = completed
    BY <1>8 DEF CreateSettlement
  <2> HIDE DEF row
  <2> QED  BY <1>2, <1>6, <2>1, <2>2
<1>9. ASSUME NEW rep \in Replica, NEW i \in DOMAIN settlement, NEW s \in {"completed", "failed"},
             settlement' = [settlement EXCEPT ![i].status = s], completed' = completed
      PROVE  \E F \in SUBSET completed, S \in SUBSET (Payment \ completed) :
                /\ F = {} \/ S = {}
                /\ completed' = completed \cup S
                /\ \A p \in Payment : Holding(p)' = {} <=> (Holding(p) = {} /\ p \notin F)
  <2>1. TypeOK /\ s \in {"pending", "processing", "completed", "failed"}
    BY <1>9 DEF SInv
  <2>2. DOMAIN settlement' = DOMAIN settlement
        /\ \A j \in DOMAIN settlement : settlement'[j].found = settlement[j].found
    BY <1>9, <2>1, Marked
  <2>3. {} \in SUBSET completed /\ \A p \in Payment : Holding(p)' = Holding(p)
    BY <2>2 DEF Holding
  <2> QED  BY <1>2, <1>9, <2>3
<1>10. CASE \E rep \in Replica : CheckFails(rep)
  <2>1. PICK rep \in Replica : CheckFails(rep)
    BY <1>10
  <2>2. check[rep].i \in DOMAIN settlement
    BY <2>1, CheckTypes DEF CheckFails, Checking, OfMerchant
  <2> QED  BY <1>9, <2>1, <2>2 DEF CheckFails, CheckGoes
<1>11. CASE \E rep \in Replica, i \in DOMAIN settlement : CheckCompletes(rep, i)
  BY <1>9, <1>11 DEF CheckCompletes, CheckGoes
<1>12. CASE settlement' = settlement /\ completed' = completed
  BY <1>1, <1>3, <1>12
<1> QED
  BY <1>4, <1>5, <1>7, <1>8, <1>10, <1>11, <1>12
  DEF Next, vars, Tick, ProcessScheduledSettlements, RunStep, GetNextSettlementDate, FindPayments,
      RunFails, RunEnds, RunGoes, CheckPendingSettlements, CheckStep, CheckSaveFails,
      CheckGivesUp, CheckGoes, Crash

\* settlement-processor.service.ts: settlements that no outdated last settlement
\* and no shared end of a period explain settle a payment once and only after it
\* was completed: the midnight runs of any number of replicas implement a job
\* that pays every item once.
THEOREM RunsSettleOnce == Spec => SettlesOnceOnly
<1> DEFINE due == completed
           times == [p \in Payment |-> Cardinality(Unexplained(p))]
<1>1. Init => Settled!Init
  <2> SUFFICES ASSUME Init PROVE due = {} /\ times = [p \in Payment |-> 0]
    BY DEF Settled!Init
  <2>1. due = {}
    BY DEF Init
  <2>2. \A p \in Payment : Holding(p) = {}
    <3>1. DOMAIN <<>> = {}
      BY EmptySeq
    <3> QED  BY <3>1 DEF Init, Holding
  <2>3. \A p \in Payment : Cardinality(Unexplained(p)) = 0
    BY <2>2, SettlementsStart, SettledCount
  <2> QED  BY <2>1, <2>3
<1>2. SInv => \A p \in Payment : Cardinality(Unexplained(p)) = IF Holding(p) = {} THEN 0 ELSE 1
  BY SettledCount
<1>3. SInv' => (\A p \in Payment : Cardinality(Unexplained(p)) = IF Holding(p) = {} THEN 0 ELSE 1)'
  BY <1>2, PTL
<1>4. SInv /\ SInv' /\ [Next]_vars => [Settled!Next]_<<due, times>>
  <2> SUFFICES ASSUME SInv, SInv', [Next]_vars, ~(due' = due /\ times' = times)
               PROVE  Settled!Next
    OBVIOUS
  <2> DEFINE now == [p \in Payment |-> IF Holding(p) = {} THEN 0 ELSE 1]
  <2>1. times = now /\ times' = now' /\ due = completed
    BY <1>2, <1>3
  <2>2. due' = completed'
    OBVIOUS
  <2>3. PICK F \in SUBSET completed, S \in SUBSET (Payment \ completed) :
              /\ F = {} \/ S = {}
              /\ completed' = completed \cup S
              /\ \A p \in Payment : Holding(p)' = {} <=> (Holding(p) = {} /\ p \notin F)
    BY StepSettles
  <2> DEFINE paid == {p \in F : Holding(p) = {}}
  <2>4. paid \subseteq completed /\ completed \subseteq Payment /\ \A p \in paid : now[p] = 0
    BY DEF SInv, TypeOK
  <2>5. now' = [p \in Payment |-> IF p \in paid THEN 1 ELSE now[p]]
    BY <2>3
  <2>6. CASE S # {}
    <3>1. paid = {} /\ now' = now
      BY <2>3, <2>5, <2>6
    <3>2. S \in SUBSET Payment /\ S # {} /\ S \cap due = {} /\ due' = due \cup S /\ times' = times
      BY <2>1, <2>2, <2>3, <2>6, <3>1
    <3> QED  BY <3>2 DEF Settled!Next, Settled!FallDue
  <2>7. CASE S = {}
    <3>1. due' = due
      BY <2>1, <2>2, <2>3, <2>7
    <3>2. paid # {}
      <4> SUFFICES ASSUME paid = {} PROVE FALSE
        OBVIOUS
      <4>1. now' = now
        BY <2>5
      <4> QED  BY <2>1, <3>1, <4>1
    <3>3. /\ paid \in SUBSET Payment /\ paid \subseteq due /\ \A p \in paid : times[p] = 0
          /\ times' = [p \in Payment |-> IF p \in paid THEN 1 ELSE times[p]]
      BY <2>1, <2>4, <2>5
    <3> QED  BY <3>1, <3>2, <3>3 DEF Settled!Next, Settled!Pay
  <2> QED  BY <2>6, <2>7
<1> QED  BY <1>1, <1>4, SInvHolds, PTL DEF Spec, SettlesOnceOnly, Settled!Spec

=============================================================================
