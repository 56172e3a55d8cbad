------------------------- MODULE SubscriptionBilling -------------------------
(***************************************************************************)
(* Recurring billing: SubscriptionService and the hourly cron of every     *)
(* replica (SubscriptionTask).  A run reads the ACTIVE subscriptions once, *)
(* then, one at a time, each one's latest billing row; if its period is    *)
(* over it creates a payment and after that the row of the next period.    *)
(*                                                                         *)
(* Time is in hours and is only kept as what is left of a period, which    *)
(* makes the state space finite without a bound on time; the dates between *)
(* which a period lies are in BillingRows.                                 *)
(***************************************************************************)
EXTENDS Absent, Integers

CONSTANTS Replica, Subscription,
          Length    \* a billing period, in hours

ASSUME LengthAssumption == Length \in Nat \ {0}
ASSUME NoneAssumption == None \notin Subscription

VARIABLES
    subscription, \* rows: absent, active or stopped (paused, cancelled, expired)
    covered,      \* hours left until the latest billingPeriodEnd, 0 when over
    hourly,       \* replicas whose cron has fired in the present hour
    run,          \* per replica: its run
    \* History.
    charged,      \* hours left of the period that the last payment pays for
    contested,    \* subscriptions two runs have found due at the same time
    unrecorded    \* subscriptions with a payment that got no billing row

vars == <<subscription, covered, hourly, run, charged, contested, unrecorded>>
history == <<charged, contested, unrecorded>>

\* PAUSED, CANCELLED and EXPIRED are one to the billing.
SubscriptionRow == {"absent", "active", "stopped"}
\* Of the latest row, the hours until its billingPeriodEnd; 0 when over.
SubscriptionPayment == 0..Length

Run == [at : {"idle", "last", "pay", "row"}, todo : SUBSET Subscription,
        s : Subscription \cup {None}]
NoRun == [at |-> "idle", todo |-> {}, s |-> None]

TypeOK ==
    /\ subscription \in [Subscription -> SubscriptionRow]
    /\ covered \in [Subscription -> SubscriptionPayment]
    /\ hourly \subseteq Replica
    /\ run \in [Replica -> Run]
    /\ charged \in [Subscription -> SubscriptionPayment]
    /\ contested \subseteq Subscription
    /\ unrecorded \subseteq Subscription

Init ==
    /\ subscription = [s \in Subscription |-> "absent"]
    /\ covered = [s \in Subscription |-> 0]
    /\ hourly = {}
    /\ run = [rep \in Replica |-> NoRun]
    /\ charged = [s \in Subscription |-> 0]
    /\ contested = {} /\ unrecorded = {}
-----------------------------------------------------------------------------
Create(s) ==
    /\ subscription[s] = "absent"
    /\ subscription' = [subscription EXCEPT ![s] = "active"]
    /\ UNCHANGED <<covered, hourly, run, history>>

UpdateStatus(s) ==
    /\ subscription[s] # "absent"
    /\ \E status \in {"active", "stopped"} :
           subscription' = [subscription EXCEPT ![s] = status]
    /\ UNCHANGED <<covered, hourly, run, history>>

Less(left) == [s \in Subscription |-> IF left[s] = 0 THEN 0 ELSE left[s] - 1]

\* A run takes less than an hour, so the next hour starts when all have ended.
Hour ==
    /\ \A rep \in Replica : run[rep].at = "idle"
    /\ covered' = Less(covered)
    /\ charged' = Less(charged)
    /\ hourly' = {}
    /\ UNCHANGED <<subscription, run, contested, unrecorded>>

RunGoes(rep, r) == run' = [run EXCEPT ![rep] = r]

\* The loop goes on without the subscription at hand.
Continue(r, s) == IF r.todo = {s} THEN NoRun
                  ELSE [NoRun EXCEPT !.at = "last", !.todo = r.todo \ {s}]

ProcessSubscriptionPayments(rep) ==
    LET active == {s \in Subscription : subscription[s] = "active"} IN
    /\ rep \notin hourly /\ run[rep].at = "idle"
    /\ hourly' = hourly \cup {rep}
    /\ RunGoes(rep, IF active = {} THEN NoRun ELSE [NoRun EXCEPT !.at = "last", !.todo = active])
    /\ UNCHANGED <<subscription, covered, history>>

\* Mutant: a period counts as over in its last hour.
DueEarly(s) == covered[s] <= 1

Due(s) == covered[s] = 0

Paying(s) == {rep \in Replica : run[rep].at \in {"pay", "row"} /\ run[rep].s = s}

FindLastPayment(rep, s) ==
    /\ run[rep].at = "last" /\ s \in run[rep].todo
    /\ IF Due(s)
       THEN /\ RunGoes(rep, [run[rep] EXCEPT !.at = "pay", !.s = s])
            /\ contested' = IF Paying(s) = {} THEN contested ELSE contested \cup {s}
       ELSE /\ RunGoes(rep, Continue(run[rep], s))
            /\ UNCHANGED contested
    /\ UNCHANGED <<subscription, covered, hourly, charged, unrecorded>>

\* paymentsService.create
CreatePayment(rep) ==
    /\ run[rep].at = "pay"
    /\ charged' = [charged EXCEPT ![run[rep].s] = Length]
    /\ RunGoes(rep, [run[rep] EXCEPT !.at = "row"])
    /\ UNCHANGED <<subscription, covered, hourly, contested, unrecorded>>

\* Mutant: the row is saved for the first period only.
SaveBillingRowNever(rep) ==
    /\ run[rep].at = "row"
    /\ RunGoes(rep, Continue(run[rep], run[rep].s))
    /\ UNCHANGED <<subscription, covered, hourly, history>>

\* The new period starts now, not where the last one ended.
SaveBillingRow(rep) ==
    /\ run[rep].at = "row"
    /\ covered' = [covered EXCEPT ![run[rep].s] = Length]
    /\ RunGoes(rep, Continue(run[rep], run[rep].s))
    /\ UNCHANGED <<subscription, hourly, history>>

\* A call throws, or the replica dies: the try is around the loop, so the
\* subscriptions that are left wait for the next hour.
RunFails(rep) ==
    /\ run[rep].at # "idle"
    /\ RunGoes(rep, NoRun)
    /\ unrecorded' = IF run[rep].at = "row" THEN unrecorded \cup {run[rep].s} ELSE unrecorded
    /\ UNCHANGED <<subscription, covered, hourly, charged, contested>>

Next ==
    \/ Hour
    \/ \E s \in Subscription : Create(s) \/ UpdateStatus(s)
    \/ \E rep \in Replica :
        \/ ProcessSubscriptionPayments(rep)
        \/ \E s \in Subscription : FindLastPayment(rep, s)
        \/ CreatePayment(rep) \/ SaveBillingRow(rep)
        \/ RunFails(rep)

Spec == Init /\ [][Next]_vars

\* Time goes on, crons fire, and a call that is made again every hour by some
\* replica does not fail for ever.
FairSpec ==
    /\ Spec
    /\ WF_vars(Hour)
    /\ \A rep \in Replica :
        /\ WF_vars(ProcessSubscriptionPayments(rep))
        /\ WF_vars(RunFails(rep) \/ CreatePayment(rep) \/ SaveBillingRow(rep))
    /\ \A s \in Subscription :
        /\ SF_vars(\E rep \in Replica : FindLastPayment(rep, s))
        /\ SF_vars(\E rep \in Replica : run[rep].s = s /\ CreatePayment(rep))
        /\ SF_vars(\E rep \in Replica : run[rep].s = s /\ SaveBillingRow(rep))
-----------------------------------------------------------------------------
\* subscription.task.ts: a subscription is charged again within a paid period
\* only if two replicas found it due at the same time or if an earlier charge
\* was cut off before its billing row.
ChargedOncePerPeriod ==
    [][\A s \in Subscription :
           (\E rep \in Replica : run[rep].s = s /\ run[rep].at = "pay" /\ run'[rep].at = "row")
               => charged[s] = 0 \/ s \in contested \cup unrecorded]_vars

\* subscription.task.ts: an active subscription whose period is over is billed
\* at last, although one failure ends the whole run.
ActiveIsBilled ==
    \A s \in Subscription :
        (subscription[s] = "active" /\ covered[s] = 0)
            ~> (subscription[s] # "active" \/ covered[s] > 0)
=============================================================================
