--------------------------- MODULE FraudPrevention ---------------------------
(***************************************************************************)
(* FraudPreventionService and its rules engine, which judge a payment of   *)
(* one merchant before it is processed.  The rules count the rows that     *)
(* earlier evaluations have saved, so a burst of payments is judged by     *)
(* whatever the overlapping evaluations have saved so far.  Scores are in  *)
(* tenths.  The payments evaluated here come after a number of earlier     *)
(* ones.                                                                   *)
(***************************************************************************)
EXTENDS Integers, FiniteSets

CONSTANTS Evaluated,       \* the payments, each evaluated once
          Charge,          \* amounts they may have
          EarlierScores,   \* numbers of recent risk_scores there may be before
          EarlierAlerts    \* numbers of recent fraud_alerts there may be before

ASSUME FraudAssumption ==
    /\ IsFiniteSet(Evaluated) /\ Charge \subseteq Int
    /\ EarlierScores \cup EarlierAlerts \subseteq Nat

FraudAlertType == {"suspicious_amount", "velocity_check"}

VARIABLES
    earlier,    \* earlier rows still within their windows
    riskScore,  \* payments with a risk_scores row
    fraudAlert, \* fraud_alerts rows: pairs of a payment and a type
    old,        \* payments created more than five minutes ago
    yesterday,  \* alerts created more than a day ago
    eval,       \* per payment: where its evaluation is and what it has found
    \* History.
    due,        \* per payment: the recent rows when its evaluation began
    moved       \* payments during whose evaluation a window moved

fraudVars == <<earlier, riskScore, fraudAlert, old, yesterday, eval, due, moved>>

EvaluationStep == {"new", "velocity", "history", "score", "amountAlert", "velocityAlert",
                   "predict", "approved", "rejected"}
Evaluating == EvaluationStep \ {"new", "approved", "rejected"}
RecentRows == [scores : Nat, alerts : Nat]

FraudTypeOK ==
    /\ earlier \in RecentRows
    /\ riskScore \subseteq Evaluated /\ old \subseteq Evaluated /\ moved \subseteq Evaluated
    /\ fraudAlert \subseteq Evaluated \X FraudAlertType
    /\ yesterday \subseteq fraudAlert
    /\ eval \in [Evaluated -> [at : EvaluationStep, amount : {0, 3, 5, 8},
                               velocity : {0, 3, 6, 9}, merchant : {0, 4, 8}]]
    /\ due \in [Evaluated -> RecentRows]

FraudInit ==
    /\ \E s \in EarlierScores, a \in EarlierAlerts : earlier = [scores |-> s, alerts |-> a]
    /\ riskScore = {} /\ fraudAlert = {} /\ old = {} /\ yesterday = {} /\ moved = {}
    /\ eval = [p \in Evaluated |-> [at |-> "new", amount |-> 0, velocity |-> 0, merchant |-> 0]]
    /\ due = [p \in Evaluated |-> [scores |-> 0, alerts |-> 0]]
-----------------------------------------------------------------------------
(* FraudRulesService.                                                       *)

AmountScore(amount) ==
    IF amount >= 10000 THEN 8 ELSE IF amount >= 5000 THEN 5 ELSE IF amount >= 1000 THEN 3 ELSE 0

\* Mutant: the first threshold that is passed decides.
VelocityScoreLowFirst(n) ==
    IF n >= 10 THEN 3 ELSE IF n >= 20 THEN 6 ELSE IF n >= 50 THEN 9 ELSE 0

VelocityScore(n) == IF n >= 50 THEN 9 ELSE IF n >= 20 THEN 6 ELSE IF n >= 10 THEN 3 ELSE 0

MerchantScore(n) == IF n >= 5 THEN 8 ELSE IF n >= 2 THEN 4 ELSE 0

\* Risk scores count by the creation of their payment, alerts by their own.
RecentPayments == earlier.scores + Cardinality(riskScore \ old)
RecentAlerts == earlier.alerts + Cardinality(fraudAlert \ yesterday)

RuleScore(p) == eval[p].amount + eval[p].velocity + eval[p].merchant

Evaluates(p, e) == eval' = [eval EXCEPT ![p] = e]
FraudTables == <<earlier, riskScore, fraudAlert, old, yesterday>>

\* Device and address are looked at first; their answers are constants.
BeginEvaluation(p, amount) ==
    /\ eval[p].at = "new"
    /\ Evaluates(p, [eval[p] EXCEPT !.at = "velocity", !.amount = AmountScore(amount)])
    /\ due' = [due EXCEPT ![p] = [scores |-> RecentPayments, alerts |-> RecentAlerts]]
    /\ UNCHANGED <<FraudTables, moved>>

EvaluateVelocity(p) ==
    /\ eval[p].at = "velocity"
    /\ Evaluates(p, [eval[p] EXCEPT !.at = "history", !.velocity = VelocityScore(RecentPayments)])
    /\ UNCHANGED <<FraudTables, due, moved>>

EvaluateMerchantHistory(p) ==
    /\ eval[p].at = "history"
    /\ Evaluates(p, [eval[p] EXCEPT !.at = "score", !.merchant = MerchantScore(RecentAlerts)])
    /\ UNCHANGED <<FraudTables, due, moved>>

\* Mutant: one alert is enough.
AlertStepEither(p) ==
    IF eval[p].at = "score" /\ eval[p].amount >= 8 THEN "amountAlert"
    ELSE IF eval[p].at = "score" /\ eval[p].velocity >= 6 THEN "velocityAlert"
    ELSE "predict"

\* createAlertsFromScore: the next alert that the factors call for.
AlertStep(p) ==
    IF eval[p].at = "score" /\ eval[p].amount >= 8 THEN "amountAlert"
    ELSE IF eval[p].at # "velocityAlert" /\ eval[p].velocity >= 6 THEN "velocityAlert"
    ELSE "predict"

SaveRiskScore(p) ==
    /\ eval[p].at = "score"
    /\ riskScore' = riskScore \cup {p}
    /\ Evaluates(p, [eval[p] EXCEPT !.at = AlertStep(p)])
    /\ UNCHANGED <<earlier, fraudAlert, old, yesterday, due, moved>>

AlertType(at) == IF at = "amountAlert" THEN "suspicious_amount" ELSE "velocity_check"

CreateFraudAlert(p) ==
    /\ eval[p].at \in {"amountAlert", "velocityAlert"}
    /\ fraudAlert' = fraudAlert \cup {<<p, AlertType(eval[p].at)>>}
    /\ Evaluates(p, [eval[p] EXCEPT !.at = AlertStep(p)])
    /\ UNCHANGED <<earlier, riskScore, old, yesterday, due, moved>>
-----------------------------------------------------------------------------
(* FraudPreventionService.                                                  *)

\* Neither looks at its argument yet.
DeviceTrustScore == 5
IpRisk == 1

\* The forest votes for a label; 0 before it is trained.
Prediction == {0, 10}

\* calculateFinalScore, in hundredths.
FinalScore(rules, prediction) ==
    3 * rules + 3 * prediction + 2 * (10 - DeviceTrustScore) + 2 * IpRisk

PredictAndJudge(p) ==
    /\ eval[p].at = "predict"
    /\ \E prediction \in Prediction :
          Evaluates(p, [eval[p] EXCEPT !.at =
              IF FinalScore(RuleScore(p), prediction) < 70 THEN "approved" ELSE "rejected"])
    /\ UNCHANGED <<FraudTables, due, moved>>

\* An await rejects: the catch rejects the payment.  So does a dead replica.
EvaluationFails(p) ==
    /\ eval[p].at \in Evaluating
    /\ Evaluates(p, [eval[p] EXCEPT !.at = "rejected"])
    /\ UNCHANGED <<FraudTables, due, moved>>
-----------------------------------------------------------------------------
\* Time: the earlier payments leave the window first, alerts all at once.
Created == {p \in Evaluated : eval[p].at # "new"}
InProgress == {p \in Evaluated : eval[p].at \in Evaluating}

FiveMinutesPass ==
    /\ earlier.scores # 0 \/ old # Created
    /\ old' \in {old, Created}
    /\ earlier' = [earlier EXCEPT !.scores = 0]
    /\ moved' = moved \cup InProgress
    /\ UNCHANGED <<riskScore, fraudAlert, yesterday, eval, due>>

DayPasses ==
    /\ earlier.alerts # 0 \/ yesterday # fraudAlert
    /\ yesterday' = fraudAlert
    /\ earlier' = [earlier EXCEPT !.alerts = 0]
    /\ moved' = moved \cup InProgress
    /\ UNCHANGED <<riskScore, fraudAlert, old, eval, due>>

FraudNext ==
    \/ \E p \in Evaluated :
          \/ \E amount \in Charge : BeginEvaluation(p, amount)
          \/ EvaluateVelocity(p) \/ EvaluateMerchantHistory(p)
          \/ SaveRiskScore(p) \/ CreateFraudAlert(p)
          \/ PredictAndJudge(p) \/ EvaluationFails(p)
    \/ FiveMinutesPass \/ DayPasses

FraudSpec == FraudInit /\ [][FraudNext]_fraudVars
-----------------------------------------------------------------------------
\* fraud-prevention.service.ts: a payment is approved only when its risk score
\* and every alert that its factors call for are saved, whichever of the saves
\* failed, so that later evaluations count them.
ApprovedIsOnRecord ==
    \A p \in Evaluated : eval[p].at = "approved" =>
        /\ p \in riskScore
        /\ eval[p].amount >= 8 => <<p, "suspicious_amount">> \in fraudAlert
        /\ eval[p].velocity >= 6 => <<p, "velocity_check">> \in fraudAlert

\* fraud-rules.service.ts: a burst is not approved.  The rows that were saved
\* before a payment's evaluation began weigh on it, whatever overlaps: from
\* fifty scores and five alerts on nothing above the lowest class of amounts is
\* approved, and of the highest class nothing from twenty scores and five
\* alerts or fifty and two on, unless a window moved meanwhile.
BurstIsRejected ==
    \A p \in Evaluated \ moved : eval[p].at = "approved" =>
        /\ due[p].scores >= 50 /\ due[p].alerts >= 5 => eval[p].amount = 0
        /\ due[p].scores >= 20 /\ due[p].alerts >= 5 => eval[p].amount < 8
        /\ due[p].scores >= 50 /\ due[p].alerts >= 2 => eval[p].amount < 8
=============================================================================
