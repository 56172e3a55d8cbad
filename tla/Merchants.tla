------------------------------ MODULE Merchants ------------------------------
(***************************************************************************)
(* One merchant's row and the handlers that change it: administrators      *)
(* adjust the balance, verify and suspend; the merchant edits its settings *)
(* and notification events; KYC reviews end in its verification flag.      *)
(* Every handler loads the row, awaits, and saves it; balance and settings *)
(* share one JSON column.                                                  *)
(***************************************************************************)
EXTENDS Absent, Integers

CONSTANTS Requests,  \* each serves one call and is done
          Amounts,   \* what a balance adjustment may add
          Values     \* contents of a settings section

\* The sections of the settings column beside the balance.
Sections == {"webhooks", "security", "preferences"}
Section == Sections \cup {"events"}
Settings == [balance : Int, section : [Section -> Values \cup {None}]]
Row == [isActive : BOOLEAN, isVerified : BOOLEAN, settings : Settings]

KycStatus == {"PENDING", "IN_REVIEW", "APPROVED", "REJECTED",
              "ADDITIONAL_INFO_REQUIRED"}
\* Of the verification, its status; None without one.
KycRow == KycStatus \cup {None}

ASSUME MerchantAssumption ==
    Amounts \subseteq Int /\ None \notin Values \cup KycStatus

Steps == {"new", "adjust", "save", "createKyc", "findMerchant", "verify", "saveKyc",
          "done"}

VARIABLES
    merchant,  \* the merchant's row
    kyc,       \* its KYC verification's status, None without one
    step,      \* per request: the await it is at
    read,      \* per request: the row it loaded
    plan,      \* per request: what it is going to do
    \* History.
    adjusted,  \* the sum of the adjustments that were saved
    outdated,  \* some save wrote over a row that was not the one it loaded
    revoked    \* an administrator has taken the verification back

merchantVars == <<merchant, kyc, step, read, plan, adjusted, outdated, revoked>>

NewRow == [isActive |-> TRUE, isVerified |-> FALSE,
           settings |-> [balance |-> 0, section |-> [x \in Section |-> None]]]

\* amount: of an adjustment; field, value: a flag and its new value, or a
\* settings section (named ones only) and its content; status: of a review.
Plan == [amount : Amounts \cup {0},
         field : {"none", "isActive", "isVerified", "sections", "events", "profile"},
         flag : BOOLEAN, named : SUBSET Sections, value : Values \cup {None},
         status : KycStatus]
NoPlan == [amount |-> 0, field |-> "none", flag |-> FALSE, named |-> {},
           value |-> None, status |-> "PENDING"]

MerchantsTypeOK ==
    /\ merchant \in Row
    /\ kyc \in KycRow
    /\ step \in [Requests -> Steps]
    /\ read \in [Requests -> Row]
    /\ plan \in [Requests -> Plan]
    /\ adjusted \in Int
    /\ outdated \in BOOLEAN
    /\ revoked \in BOOLEAN

MerchantsInit ==
    /\ merchant = NewRow
    /\ kyc = None
    /\ step = [q \in Requests |-> "new"]
    /\ read = [q \in Requests |-> NewRow]
    /\ plan = [q \in Requests |-> NoPlan]
    /\ adjusted = 0
    /\ outdated = FALSE
    /\ revoked = FALSE

\* The request loads the row and goes on to its next await.
Load(q, next, what) ==
    /\ step[q] = "new"
    /\ step' = [step EXCEPT ![q] = next]
    /\ read' = [read EXCEPT ![q] = merchant]
    /\ plan' = [plan EXCEPT ![q] = what]
    /\ UNCHANGED <<merchant, kyc, adjusted, outdated, revoked>>

\* A save writes every column of the loaded row that differs from the row.
Overwrites(q) == outdated' = (outdated \/ read[q] # merchant)
Ends(q) == /\ step' = [step EXCEPT ![q] = "done"]
           /\ read' = [read EXCEPT ![q] = NewRow]
           /\ plan' = [plan EXCEPT ![q] = NoPlan]

-----------------------------------------------------------------------------
(* AuthService: balance, verification and suspension by an administrator.   *)

AdjustRequest(q) ==
    \E a \in Amounts : Load(q, "adjust", [NoPlan EXCEPT !.amount = a])

\* update() writes the settings column only.
AdjustMerchantBalance(q) ==
    /\ step[q] = "adjust"
    /\ merchant' = [merchant EXCEPT !.settings =
                      [read[q].settings EXCEPT !.balance = @ + plan[q].amount]]
    /\ adjusted' = adjusted + plan[q].amount
    /\ Overwrites(q)
    /\ Ends(q)
    /\ UNCHANGED <<kyc, revoked>>

\* updateMerchantVerification and updateMerchantSuspension.
AdminRequest(q) ==
    \E f \in {"isActive", "isVerified"}, b \in BOOLEAN :
        Load(q, "save", [NoPlan EXCEPT !.field = f, !.flag = b])

-----------------------------------------------------------------------------
(* The merchant: settings, notification events and profile.                 *)

\* updateSettings for the sections the body names.  Notification channels
\* are the user's: the merchant has none, and naming them fails at once.
SettingsRequest(q) ==
    \E named \in SUBSET Sections \ {{}}, v \in Values :
        Load(q, "save", [NoPlan EXCEPT !.field = "sections", !.named = named, !.value = v])

EventsRequest(q) ==
    \E v \in Values : Load(q, "save", [NoPlan EXCEPT !.field = "events", !.value = v])

\* Name, mail and phone are not in the model: the save rewrites the rest.
ProfileRequest(q) == Load(q, "save", [NoPlan EXCEPT !.field = "profile"])

\* Mutant: the old settings are not spread into the new ones.
NewSettingsAlone(s, p) ==
    [balance |-> 0, section |-> [x \in Section |-> IF x \in p.named THEN p.value ELSE None]]

\* The settings updateSettings saves: a section the body leaves out is
\* undefined in the new document, which drops it; events and balance stay.
NewSettings(s, p) ==
    [s EXCEPT !.section = [x \in Section |->
        IF x \in p.named THEN p.value ELSE IF x \in Sections THEN None ELSE @[x]]]

\* Mutant: a merchant that saves its settings is active.
ChangedActive(row, p) ==
    CASE p.field = "isActive" -> [row EXCEPT !.isActive = p.flag]
      [] p.field = "isVerified" -> [row EXCEPT !.isVerified = p.flag]
      [] p.field = "sections" -> [row EXCEPT !.settings = NewSettings(@, p), !.isActive = TRUE]
      [] p.field = "events" -> [row EXCEPT !.settings.section["events"] = p.value]
      [] OTHER -> row

Changed(row, p) ==
    CASE p.field = "isActive" -> [row EXCEPT !.isActive = p.flag]
      [] p.field = "isVerified" -> [row EXCEPT !.isVerified = p.flag]
      [] p.field = "sections" -> [row EXCEPT !.settings = NewSettings(@, p)]
      [] p.field = "events" -> [row EXCEPT !.settings.section["events"] = p.value]
      [] OTHER -> row

SaveRow(q) ==
    /\ step[q] = "save"
    /\ merchant' = Changed(read[q], plan[q])
    /\ revoked' = (revoked \/ (plan[q].field = "isVerified" /\ ~plan[q].flag))
    /\ Overwrites(q)
    /\ Ends(q)
    /\ UNCHANGED <<kyc, adjusted>>

-----------------------------------------------------------------------------
(* KycService.                                                              *)

CreateKycRequest(q) == kyc = None /\ Load(q, "createKyc", NoPlan)

\* The second insert for a merchant violates the unique column.
CreateKyc(q) ==
    /\ step[q] = "createKyc"
    /\ kyc' = IF kyc = None THEN "PENDING" ELSE kyc
    /\ Ends(q)
    /\ UNCHANGED <<merchant, adjusted, outdated, revoked>>

\* Mutant: the verification is saved, the merchant not verified.
ReviewRequestAlone(q) ==
    /\ kyc # None
    /\ \E s \in KycStatus : Load(q, "saveKyc", [NoPlan EXCEPT !.status = s])

\* updateStatus: an approval loads the merchant and saves it first.
ReviewRequest(q) ==
    /\ kyc # None
    /\ \E s \in KycStatus :
          Load(q, IF s = "APPROVED" THEN "findMerchant" ELSE "saveKyc",
               [NoPlan EXCEPT !.status = s])

\* MerchantsService.updateVerificationStatus.
FindApproved(q) ==
    /\ step[q] = "findMerchant"
    /\ step' = [step EXCEPT ![q] = "verify"]
    /\ read' = [read EXCEPT ![q] = merchant]
    /\ UNCHANGED <<merchant, kyc, plan, adjusted, outdated, revoked>>

UpdateVerificationStatus(q) ==
    /\ step[q] = "verify"
    /\ merchant' = [read[q] EXCEPT !.isVerified = TRUE]
    /\ Overwrites(q)
    /\ step' = [step EXCEPT ![q] = "saveKyc"]
    /\ UNCHANGED <<kyc, read, plan, adjusted, revoked>>

SaveKyc(q) ==
    /\ step[q] = "saveKyc"
    /\ kyc' = plan[q].status
    /\ Ends(q)
    /\ UNCHANGED <<merchant, adjusted, outdated, revoked>>

-----------------------------------------------------------------------------

\* The replica dies or an await rejects: the rest of the request is lost.
Fails(q) ==
    /\ step[q] \notin {"new", "done"}
    /\ Ends(q)
    /\ UNCHANGED <<merchant, kyc, adjusted, outdated, revoked>>

AdminEndpoints(q) == AdjustRequest(q) \/ AdminRequest(q)
KycEndpoints(q) == CreateKycRequest(q) \/ ReviewRequest(q)

MerchantsNext ==
    \E q \in Requests :
        \/ AdminEndpoints(q) \/ KycEndpoints(q)
        \/ SettingsRequest(q) \/ EventsRequest(q) \/ ProfileRequest(q)
        \/ AdjustMerchantBalance(q) \/ SaveRow(q) \/ CreateKyc(q)
        \/ FindApproved(q) \/ UpdateVerificationStatus(q) \/ SaveKyc(q)
        \/ Fails(q)

MerchantsSpec == MerchantsInit /\ [][MerchantsNext]_merchantVars

-----------------------------------------------------------------------------
(* Properties.                                                              *)

\* As long as no save wrote over a row that had changed since its load, the
\* balance is the sum of the adjustments, whatever else shares its column.
BalanceAddsUp == merchant.settings.balance = adjusted \/ outdated

\* An approved verification means a verified merchant, at every point of the
\* two saves and after crashes between them, unless an administrator took it
\* back or a save wrote over a changed row.
ApprovedIsVerified == kyc = "APPROVED" => merchant.isVerified \/ revoked \/ outdated

SuspensionLifted == ~merchant.isActive /\ merchant'.isActive
ByAdministrator ==
    \E q \in Requests : step[q] = "save" /\ step'[q] = "done" /\ plan[q].field = "isActive"

\* Only an administrator lifts a suspension, unless a handler that loaded the
\* merchant before the suspension saves it after.
SuspensionHolds == [][SuspensionLifted => outdated' \/ ByAdministrator]_merchantVars
=============================================================================
