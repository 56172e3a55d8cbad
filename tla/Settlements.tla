----------------------------- MODULE Settlements -----------------------------
(***************************************************************************)
(* Settlement of completed payments: the midnight cron of every replica    *)
(* (SettlementTask, SettlementScheduleService, SettlementProcessorService),*)
(* the settlements an administrator records (SettlementsService) and the   *)
(* hourly check of pending ones.                                           *)
(*                                                                         *)
(* Time is a count of ticks, DayLength ticks to the day: the first tick of *)
(* a day is its midnight, the last one its last instant.                   *)
(***************************************************************************)
EXTENDS Integers, Sequences, FiniteSets

CONSTANTS Replica, Merchant, Payment,
          DayLength,
          PaymentTicks,   \* ticks of the day at which payments are made
          MaxClock,       \* bound on time
          MaxManual,      \* bound on settlements an administrator records
          None

ASSUME TimeAssumption == /\ DayLength \in Nat \ {0}
                         /\ PaymentTicks \subseteq 0..(DayLength - 1)
                         /\ MaxClock \in Nat /\ MaxManual \in Nat
ASSUME NoneAssumption == None \notin Merchant

VARIABLES
    clock,
    payment,    \* payments rows: merchant, createdAt and the status
    settlement, \* settlements rows in the order of createdAt
    fired,      \* per replica: the midnight its cron has fired for
    run,        \* per replica: its midnight run
    check,      \* per replica: its hourly check
    \* History.
    completed,  \* payments that have been COMPLETED
    raced       \* merchants settled from a last settlement that was outdated

vars == <<clock, payment, settlement, fired, run, check, completed, raced>>

StartOfDay(t) == t - (t % DayLength)
EndOfDay(t) == StartOfDay(t) + DayLength - 1

\* other: every status but COMPLETED.
PaymentStatus == {"completed", "other"}
PaymentRow == [status : PaymentStatus \cup {"absent"},
               m : Merchant \cup {None}, at : Nat]
AbsentPayment == [status |-> "absent", m |-> None, at |-> 0]

\* found: metadata.paymentIds.  A manual settlement has no merchant, no
\* period and no payments.
SettlementRow == [m : Merchant \cup {None}, start : Nat, end : Nat,
                  found : SUBSET Payment,
                  status : {"pending", "processing", "completed", "failed"}]

\* listed: the merchants the run found active.
Run == [at : {"idle", "next", "find", "save"}, listed : SUBSET Merchant,
        todo : SUBSET Merchant, tried : SUBSET Merchant, m : Merchant \cup {None},
        last : Nat, start : Nat, end : Nat, found : SUBSET Payment]
NoRun == [at |-> "idle", listed |-> {}, todo |-> {}, tried |-> {}, m |-> None,
          last |-> 0, start |-> 0, end |-> 0, found |-> {}]

Check == [at : {"idle", "save", "fail"}, todo : SUBSET Nat, i : Nat]
NoCheck == [at |-> "idle", todo |-> {}, i |-> 0]

TypeOK ==
    /\ clock \in 0..MaxClock
    /\ payment \in [Payment -> PaymentRow]
    /\ settlement \in Seq(SettlementRow)
    /\ fired \in [Replica -> -1..MaxClock]
    /\ run \in [Replica -> Run]
    /\ check \in [Replica -> Check]
    /\ completed \subseteq Payment
    /\ raced \subseteq Merchant

Init ==
    /\ clock = 0
    /\ payment = [p \in Payment |-> AbsentPayment]
    /\ settlement = <<>>
    /\ fired = [rep \in Replica |-> -1]
    /\ run = [rep \in Replica |-> NoRun]
    /\ check = [rep \in Replica |-> NoCheck]
    /\ completed = {} /\ raced = {}
-----------------------------------------------------------------------------
(* Time and the payments, which other components write.                     *)

Tick ==
    /\ clock < MaxClock
    /\ clock' = clock + 1
    /\ UNCHANGED <<payment, settlement, fired, run, check, completed, raced>>

PaymentCreated(p, m) ==
    /\ payment[p].status = "absent"
    /\ clock % DayLength \in PaymentTicks
    /\ payment' = [payment EXCEPT ![p] = [status |-> "other", m |-> m, at |-> clock]]
    /\ UNCHANGED <<clock, settlement, fired, run, check, completed, raced>>

\* A webhook, a merchant or a dispute sets any status, from any status.
PaymentMoves(p, status) ==
    /\ payment[p].status \notin {"absent", status}
    /\ payment' = [payment EXCEPT ![p].status = status]
    /\ completed' = IF status = "completed" THEN completed \cup {p} ELSE completed
    /\ UNCHANGED <<clock, settlement, fired, run, check, raced>>
-----------------------------------------------------------------------------
(* The midnight run: one loop over the active merchants, whose body catches  *)
(* every error.                                                             *)

OfMerchant(m) == {i \in DOMAIN settlement : settlement[i].m = m}

\* The index of the merchant's latest settlement, 0 when there is none.
LastOf(m) == IF OfMerchant(m) = {} THEN 0
             ELSE CHOOSE i \in OfMerchant(m) : \A j \in OfMerchant(m) : j <= i

RunGoes(rep, r) ==
    /\ run' = [run EXCEPT ![rep] = r]
    /\ UNCHANGED <<clock, payment, check, completed>>

\* The loop is done with the merchant at hand.
NextMerchant(r) == [NoRun EXCEPT !.at = "next", !.listed = r.listed,
                                 !.todo = r.todo \ {r.m}, !.tried = r.tried \cup {r.m}]

\* Administrators change which merchants are active at any time.
ProcessScheduledSettlements(rep) ==
    /\ run[rep].at = "idle"
    /\ clock = StartOfDay(clock) /\ fired[rep] # clock
    /\ fired' = [fired EXCEPT ![rep] = clock]
    /\ \E active \in SUBSET Merchant :
           RunGoes(rep, [NoRun EXCEPT !.at = "next", !.listed = active, !.todo = active])
    /\ UNCHANGED <<settlement, raced>>

GetNextSettlementDate(rep, m) ==
    /\ run[rep].at = "next" /\ m \in run[rep].todo
    /\ LET last == LastOf(m) IN
       RunGoes(rep, [run[rep] EXCEPT !.at = "find", !.m = m, !.last = last,
                         !.start = IF last = 0 THEN StartOfDay(clock) ELSE settlement[last].end,
                         !.end = EndOfDay(clock)])
    /\ UNCHANGED <<settlement, fired, raced>>

\* Mutant: the status is not looked at.
SettleableAny(r) == {p \in Payment : payment[p].m = r.m /\ payment[p].at \in r.start..r.end}

Settleable(r) == {p \in Payment : /\ payment[p].m = r.m
                                  /\ payment[p].status = "completed"
                                  /\ payment[p].at \in r.start..r.end}

FindPayments(rep) ==
    /\ run[rep].at = "find"
    /\ LET found == Settleable(run[rep]) IN
       RunGoes(rep, IF found = {} THEN NextMerchant(run[rep])
                    ELSE [run[rep] EXCEPT !.at = "save", !.found = found])
    /\ UNCHANGED <<settlement, fired, raced>>

\* The mail that follows changes nothing, sent or not: its error is caught too.
SaveSettlement(rep) ==
    /\ run[rep].at = "save"
    /\ LET r == run[rep] IN
       /\ settlement' = Append(settlement, [m |-> r.m, start |-> r.start, end |-> r.end,
                                            found |-> r.found, status |-> "processing"])
       /\ raced' = IF LastOf(r.m) = r.last THEN raced ELSE raced \cup {r.m}
       /\ RunGoes(rep, NextMerchant(r))
    /\ UNCHANGED fired

\* Mutant: the error leaves the loop.
RunFailsWhole(rep) ==
    /\ run[rep].at \in {"find", "save"}
    /\ RunGoes(rep, [run[rep] EXCEPT !.at = "next", !.todo = {}])
    /\ UNCHANGED <<settlement, fired, raced>>

\* One of the awaited calls throws: caught, and on to the next merchant.
RunFails(rep) ==
    /\ run[rep].at \in {"find", "save"}
    /\ RunGoes(rep, NextMerchant(run[rep]))
    /\ UNCHANGED <<settlement, fired, raced>>

RunEnds(rep) ==
    /\ run[rep].at = "next" /\ run[rep].todo = {}
    /\ RunGoes(rep, NoRun)
    /\ UNCHANGED <<settlement, fired, raced>>

Crash(rep) ==
    /\ run[rep].at # "idle" \/ check[rep].at # "idle"
    /\ run' = [run EXCEPT ![rep] = NoRun]
    /\ check' = [check EXCEPT ![rep] = NoCheck]
    /\ UNCHANGED <<clock, payment, settlement, fired, completed, raced>>
-----------------------------------------------------------------------------
(* Settlements recorded by an administrator, and the hourly check.  A check  *)
(* may come at any tick; the seven days it looks back exceed MaxClock.       *)

CheckGoes(rep, c) ==
    /\ check' = [check EXCEPT ![rep] = c]
    /\ UNCHANGED <<clock, payment, fired, run, completed, raced>>

\* The body has no merchant.
CreateSettlement ==
    /\ Cardinality(OfMerchant(None)) < MaxManual
    /\ settlement' = Append(settlement, [m |-> None, start |-> 0, end |-> 0,
                                         found |-> {}, status |-> "pending"])
    /\ UNCHANGED <<clock, payment, fired, run, check, completed, raced>>

Pending == {i \in DOMAIN settlement : settlement[i].status = "pending"}

CheckPendingSettlements(rep) ==
    /\ check[rep].at = "idle" /\ Pending # {}
    /\ CheckGoes(rep, [NoCheck EXCEPT !.at = "save", !.todo = Pending])
    /\ UNCHANGED settlement

\* The loop is done with settlement i.
NextPending(c, i) == IF c.todo = {i} THEN NoCheck
                     ELSE [NoCheck EXCEPT !.at = "save", !.todo = c.todo \ {i}]

\* The metric that follows reads settlement.merchant.id: on a settlement
\* without a merchant it throws into the catch block.
CheckCompletes(rep, i) ==
    /\ check[rep].at = "save" /\ i \in check[rep].todo
    /\ settlement' = [settlement EXCEPT ![i].status = "completed"]
    /\ CheckGoes(rep, IF settlement[i].m = None THEN [check[rep] EXCEPT !.at = "fail", !.i = i]
                      ELSE NextPending(check[rep], i))

CheckSaveFails(rep, i) ==
    /\ check[rep].at = "save" /\ i \in check[rep].todo
    /\ CheckGoes(rep, [check[rep] EXCEPT !.at = "fail", !.i = i])
    /\ UNCHANGED settlement

\* The catch block saves FAILED; its own metric throws out of the loop when
\* there is no merchant.
CheckFails(rep) ==
    /\ check[rep].at = "fail"
    /\ LET i == check[rep].i IN
       /\ settlement' = [settlement EXCEPT ![i].status = "failed"]
       /\ CheckGoes(rep, IF settlement[i].m = None THEN NoCheck ELSE NextPending(check[rep], i))

\* That save is rejected too: the error leaves the loop.
CheckGivesUp(rep) ==
    /\ check[rep].at = "fail"
    /\ CheckGoes(rep, NoCheck)
    /\ UNCHANGED settlement
-----------------------------------------------------------------------------
RunStep(rep) ==
    \/ \E m \in Merchant : GetNextSettlementDate(rep, m)
    \/ FindPayments(rep) \/ SaveSettlement(rep)
    \/ RunFails(rep) \/ RunEnds(rep)

CheckStep(rep) ==
    \/ \E i \in DOMAIN settlement : CheckCompletes(rep, i) \/ CheckSaveFails(rep, i)
    \/ CheckFails(rep) \/ CheckGivesUp(rep)

Next ==
    \/ Tick
    \/ \E p \in Payment : \/ \E m \in Merchant : PaymentCreated(p, m)
                         \/ \E status \in PaymentStatus : PaymentMoves(p, status)
    \/ CreateSettlement
    \/ \E rep \in Replica :
        \/ ProcessScheduledSettlements(rep) \/ RunStep(rep)
        \/ CheckPendingSettlements(rep) \/ CheckStep(rep)
        \/ Crash(rep)

Spec == Init /\ [][Next]_vars
-----------------------------------------------------------------------------
Holding(p) == {i \in DOMAIN settlement : p \in settlement[i].found}

\* settlement-schedule.service.ts: a run that reaches the end of its loop has
\* tried every merchant it found active, whatever failed for the others.
EveryMerchantTried ==
    \A rep \in Replica :
        run[rep].at = "next" /\ run[rep].todo = {} => run[rep].tried = run[rep].listed

\* A payment is settled again where the last settlement was outdated or ended
\* at the very tick the payment was made.
Unexplained(p) ==
    LET held == Holding(p) IN
    {j \in held : \A i \in held :
        i < j => payment[p].m \notin raced /\ payment[p].at # settlement[i].end}

\* settlement-processor.service.ts: the settlements that are not explained so
\* settle a payment once, and only after it was completed, whatever became of its
\* status since.
Settled == INSTANCE OnceOnly
    WITH Item <- Payment,
         due <- completed,
         times <- [p \in Payment |-> Cardinality(Unexplained(p))]
SettlesOnceOnly == Settled!Spec

\* settlement.task.ts:18 "Starting daily settlement processing": when a run
\* looks for a merchant's payments it finds those that were made and completed
\* before it and are in no settlement.
DailySettlement ==
    \A rep \in Replica, p \in Payment :
        /\ run[rep].at = "find" /\ payment[p].m = run[rep].m
        /\ payment[p].status = "completed" /\ payment[p].at < clock /\ Holding(p) = {}
        => p \in Settleable(run[rep])

\* settlement-processor.service.ts:172 "TODO: Integrate with actual payout system
\* For now, just mark as completed": what a check of pending settlements has
\* marked so stays COMPLETED.
CompletedStays ==
    [][\A i \in DOMAIN settlement :
           settlement[i].status = "completed" => settlement'[i].status = "completed"]_vars
=============================================================================
