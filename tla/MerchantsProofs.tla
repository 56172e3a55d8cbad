--------------------------- MODULE MerchantsProofs ---------------------------
(***************************************************************************)
(* Proofs about Merchants, for any set of requests, adjustments and        *)
(* section contents.                                                       *)
(***************************************************************************)
EXTENDS Merchants, TLAPS

-----------------------------------------------------------------------------
(* The inductive invariant.                                                 *)

Verified == merchant.isVerified \/ revoked \/ outdated

\* An approval that has verified the merchant and has still to save the
\* verification finds it verified when it does.
ApprovalPending ==
    \A q \in Requests : step[q] = "saveKyc" /\ plan[q].status = "APPROVED" => Verified

MInv == MerchantsTypeOK /\ BalanceAddsUp /\ ApprovedIsVerified /\ ApprovalPending

-----------------------------------------------------------------------------
(* What the helpers return and keep.                                        *)

LEMMA StartTypes == NewRow \in Row /\ NoPlan \in Plan /\ NoPlan.status # "APPROVED"
<1>1. [x \in Section |-> None] \in [Section -> Values \cup {None}]
  OBVIOUS
<1>2. NewRow \in Row
  BY <1>1 DEF NewRow, Row, Settings
<1>3. NoPlan \in Plan /\ NoPlan.status # "APPROVED"
  BY DEF NoPlan, Plan, KycStatus
<1> QED  BY <1>2, <1>3

\* Every edit of a row is a row with the same balance, and takes the
\* verification away only when that is what the plan says.
LEMMA EditKeeps ==
    ASSUME NEW row \in Row, NEW p \in Plan
    PROVE  /\ Changed(row, p) \in Row
           /\ Changed(row, p).settings.balance = row.settings.balance
           /\ row.isVerified => Changed(row, p).isVerified
                                \/ (p.field = "isVerified" /\ ~p.flag)
<1>1. CASE p.field = "isActive"
  BY <1>1 DEF Changed, Row, Plan
<1>2. CASE p.field = "isVerified"
  BY <1>2 DEF Changed, Row, Plan
<1>3. CASE p.field = "sections"
  <2>1. NewSettings(row.settings, p) \in Settings
    BY DEF NewSettings, Settings, Row, Plan
  <2>2. NewSettings(row.settings, p).balance = row.settings.balance
    BY DEF NewSettings, Settings, Row
  <2> QED  BY <1>3, <2>1, <2>2 DEF Changed, Row
<1>4. CASE p.field = "events"
  <2>1. Changed(row, p) = [row EXCEPT !.settings.section["events"] = p.value]
    BY <1>4 DEF Changed
  <2>2. [row.settings.section EXCEPT !["events"] = p.value] \in [Section -> Values \cup {None}]
    BY <1>4 DEF Row, Settings, Section, Plan
  <2>3. [row.settings EXCEPT !.section["events"] = p.value] \in Settings
    BY <2>2 DEF Row, Settings
  <2> QED  BY <2>1, <2>3 DEF Row, Settings
<1>5. CASE p.field \in {"none", "profile"}
  BY <1>5 DEF Changed
<1> QED  BY <1>1, <1>2, <1>3, <1>4, <1>5 DEF Plan

-----------------------------------------------------------------------------
(* What the common parts of the actions preserve.                           *)

LEMMA LoadKeeps ==
    ASSUME MInv, NEW q \in Requests, NEW next \in Steps, NEW what \in Plan,
           next = "saveKyc" => what.status # "APPROVED",
           Load(q, next, what)
    PROVE  MInv'
<1> USE DEF MInv, Load
<1>1. MerchantsTypeOK'
  BY DEF MerchantsTypeOK
<1>2. ApprovalPending'
  BY DEF MerchantsTypeOK, ApprovalPending, Verified
<1>3. BalanceAddsUp' /\ ApprovedIsVerified'
  BY DEF BalanceAddsUp, ApprovedIsVerified
<1> QED  BY <1>1, <1>2, <1>3

LEMMA EndsKeeps ==
    ASSUME MerchantsTypeOK, NEW q \in Requests, Ends(q)
    PROVE  /\ step' \in [Requests -> Steps]
           /\ read' \in [Requests -> Row]
           /\ plan' \in [Requests -> Plan]
           /\ step'[q] = "done"
           /\ \A o \in Requests \ {q} : step'[o] = step[o] /\ plan'[o] = plan[o]
  BY StartTypes DEF MerchantsTypeOK, Ends, Steps

\* A request that ends without touching the merchant's row or the KYC status.
LEMMA DropKeeps ==
    ASSUME MInv, NEW q \in Requests, Ends(q),
           UNCHANGED <<merchant, kyc, adjusted, outdated, revoked>>
    PROVE  MInv'
<1> USE EndsKeeps DEF MInv
<1>1. MerchantsTypeOK'
  BY DEF MerchantsTypeOK
<1>2. ApprovalPending'
  BY DEF ApprovalPending, Verified
<1>3. BalanceAddsUp' /\ ApprovedIsVerified'
  BY DEF BalanceAddsUp, ApprovedIsVerified
<1> QED  BY <1>1, <1>2, <1>3

\* What has to hold of a save for Verified to survive it.
LEMMA VerifiedSurvives ==
    ASSUME MInv, Verified => Verified', NEW q \in Requests, kyc' = kyc,
           step'[q] # "saveKyc" \/ Verified',
           \A o \in Requests \ {q} : step'[o] = step[o] /\ plan'[o] = plan[o]
    PROVE  ApprovedIsVerified' /\ ApprovalPending'
  BY DEF MInv, ApprovedIsVerified, ApprovalPending, Verified

-----------------------------------------------------------------------------

LEMMA MerchantsStart == MerchantsInit => MInv
<1> SUFFICES ASSUME MerchantsInit PROVE MInv
  OBVIOUS
<1>1. MerchantsTypeOK
  <2>1. step \in [Requests -> Steps]
    BY DEF MerchantsInit, Steps
  <2>2. read \in [Requests -> Row] /\ plan \in [Requests -> Plan] /\ merchant \in Row
    BY StartTypes DEF MerchantsInit
  <2>3. kyc = None /\ adjusted \in Int
    BY DEF MerchantsInit
  <2>4. outdated \in BOOLEAN /\ revoked \in BOOLEAN
    BY Zenon DEF MerchantsInit
  <2> QED  BY <2>1, <2>2, <2>3, <2>4 DEF MerchantsTypeOK, KycRow
<1>2. BalanceAddsUp
  BY DEF MerchantsInit, BalanceAddsUp, NewRow
<1>3. ApprovedIsVerified /\ ApprovalPending
  BY MerchantAssumption DEF MerchantsInit, ApprovedIsVerified, ApprovalPending, KycStatus
<1> QED  BY <1>1, <1>2, <1>3 DEF MInv

LEMMA MerchantsStep == MInv /\ [MerchantsNext]_merchantVars => MInv'
<1> SUFFICES ASSUME MInv, [MerchantsNext]_merchantVars PROVE MInv'
  OBVIOUS
<1> USE DEF MInv
<1>1. ASSUME NEW q \in Requests, AdjustRequest(q) PROVE MInv'
  <2>1. PICK a \in Amounts : Load(q, "adjust", [NoPlan EXCEPT !.amount = a])
    BY <1>1 DEF AdjustRequest
  <2>2. [NoPlan EXCEPT !.amount = a] \in Plan
    BY StartTypes DEF Plan
  <2> QED  BY <2>1, <2>2, LoadKeeps DEF Steps
<1>2. ASSUME NEW q \in Requests, AdjustMerchantBalance(q) PROVE MInv'
  <2> DEFINE settings == [read[q].settings EXCEPT !.balance = @ + plan[q].amount]
  <2>1. read[q] \in Row /\ plan[q] \in Plan /\ plan[q].amount \in Int
    <3>1. read[q] \in Row /\ plan[q] \in Plan
      BY DEF MerchantsTypeOK
    <3>2. plan[q].amount \in Amounts \cup {0}
      BY <3>1 DEF Plan
    <3>3. Amounts \subseteq Int /\ 0 \in Int
      BY MerchantAssumption
    <3>4. plan[q].amount \in Int
      BY <3>2, <3>3, Zenon
    <3> QED  BY <3>1, <3>4
  <2>2. settings \in Settings /\ settings.balance = read[q].settings.balance + plan[q].amount
    BY <2>1 DEF Row, Settings
  <2>3. merchant' = [merchant EXCEPT !.settings = settings]
    BY <1>2 DEF AdjustMerchantBalance
  <2>4. /\ merchant' \in Row /\ merchant'.settings = settings
        /\ merchant'.isVerified = merchant.isVerified
    BY <2>2, <2>3 DEF MerchantsTypeOK, Row
  <2>5. MerchantsTypeOK'
    BY <1>2, <2>1, <2>4, EndsKeeps DEF AdjustMerchantBalance, Overwrites, MerchantsTypeOK
  <2>6. BalanceAddsUp'
    <3>1. CASE outdated'
      BY <3>1 DEF BalanceAddsUp
    <3>2. CASE ~outdated'
      <4>1. ~outdated /\ read[q] = merchant
        BY <1>2, <3>2 DEF AdjustMerchantBalance, Overwrites
      <4> QED  BY <1>2, <2>2, <2>4, <4>1 DEF AdjustMerchantBalance, BalanceAddsUp
    <3> QED  BY <3>1, <3>2
  <2>7. Verified => Verified'
    BY <1>2, <2>4 DEF AdjustMerchantBalance, Overwrites, Verified
  <2>8. ApprovedIsVerified' /\ ApprovalPending'
    BY <1>2, <2>7, EndsKeeps, VerifiedSurvives DEF AdjustMerchantBalance
  <2> QED  BY <2>5, <2>6, <2>8
<1>3. ASSUME NEW q \in Requests, AdminRequest(q) PROVE MInv'
  <2>1. PICK f \in {"isActive", "isVerified"}, b \in BOOLEAN :
            Load(q, "save", [NoPlan EXCEPT !.field = f, !.flag = b])
    BY <1>3 DEF AdminRequest
  <2>2. [NoPlan EXCEPT !.field = f, !.flag = b] \in Plan
    BY StartTypes DEF Plan
  <2> QED  BY <2>1, <2>2, LoadKeeps DEF Steps
<1>4. ASSUME NEW q \in Requests, SettingsRequest(q) PROVE MInv'
  <2>1. PICK named \in SUBSET Sections \ {{}}, v \in Values :
            Load(q, "save", [NoPlan EXCEPT !.field = "sections", !.named = named, !.value = v])
    BY <1>4 DEF SettingsRequest
  <2>2. [NoPlan EXCEPT !.field = "sections", !.named = named, !.value = v] \in Plan
    BY StartTypes DEF Plan
  <2> QED  BY <2>1, <2>2, LoadKeeps DEF Steps
<1>5. ASSUME NEW q \in Requests, EventsRequest(q) PROVE MInv'
  <2>1. PICK v \in Values :
            Load(q, "save", [NoPlan EXCEPT !.field = "events", !.value = v])
    BY <1>5 DEF EventsRequest
  <2>2. [NoPlan EXCEPT !.field = "events", !.value = v] \in Plan
    BY StartTypes DEF Plan
  <2> QED  BY <2>1, <2>2, LoadKeeps DEF Steps
<1>6. ASSUME NEW q \in Requests, ProfileRequest(q) PROVE MInv'
  <2>1. [NoPlan EXCEPT !.field = "profile"] \in Plan
    BY StartTypes DEF Plan
  <2> QED  BY <1>6, <2>1, LoadKeeps DEF ProfileRequest, Steps
<1>7. ASSUME NEW q \in Requests, SaveRow(q) PROVE MInv'
  <2>1. read[q] \in Row /\ plan[q] \in Plan
    BY DEF MerchantsTypeOK
  <2>2. /\ merchant' \in Row
        /\ merchant'.settings.balance = read[q].settings.balance
        /\ read[q].isVerified => merchant'.isVerified
                                 \/ (plan[q].field = "isVerified" /\ ~plan[q].flag)
    BY <1>7, <2>1, EditKeeps DEF SaveRow
  <2>3. outdated' \in BOOLEAN /\ revoked' \in BOOLEAN
    BY <1>7 DEF SaveRow, Overwrites
  <2>4. MerchantsTypeOK'
    BY <1>7, <2>2, <2>3, EndsKeeps DEF SaveRow, MerchantsTypeOK
  <2>5. ~outdated' => ~outdated /\ read[q] = merchant
    BY <1>7 DEF SaveRow, Overwrites
  <2>6. BalanceAddsUp'
    BY <1>7, <2>2, <2>5 DEF SaveRow, BalanceAddsUp
  <2>7. Verified => Verified'
    BY <1>7, <2>2, <2>5, Zenon DEF SaveRow, Verified
  <2>8. ApprovedIsVerified' /\ ApprovalPending'
    BY <1>7, <2>7, EndsKeeps, VerifiedSurvives DEF SaveRow
  <2> QED  BY <2>4, <2>6, <2>8
<1>8. ASSUME NEW q \in Requests, CreateKycRequest(q) PROVE MInv'
  BY <1>8, StartTypes, LoadKeeps DEF CreateKycRequest, Steps
<1>9. ASSUME NEW q \in Requests, CreateKyc(q) PROVE MInv'
  <2>1. MerchantsTypeOK'
    BY <1>9, EndsKeeps DEF CreateKyc, MerchantsTypeOK, KycStatus, KycRow
  <2>2. BalanceAddsUp'
    BY <1>9 DEF CreateKyc, BalanceAddsUp
  <2>3. ApprovedIsVerified'
    BY <1>9 DEF CreateKyc, ApprovedIsVerified
  <2>4. ApprovalPending'
    BY <1>9, EndsKeeps DEF CreateKyc, ApprovalPending, Verified
  <2> QED  BY <2>1, <2>2, <2>3, <2>4
<1>10. ASSUME NEW q \in Requests, ReviewRequest(q) PROVE MInv'
  <2>1. PICK s \in KycStatus :
            Load(q, IF s = "APPROVED" THEN "findMerchant" ELSE "saveKyc",
                 [NoPlan EXCEPT !.status = s])
    BY <1>10 DEF ReviewRequest
  <2>2. [NoPlan EXCEPT !.status = s] \in Plan /\ [NoPlan EXCEPT !.status = s].status = s
    BY StartTypes DEF Plan
  <2> QED  BY <2>1, <2>2, LoadKeeps DEF Steps
<1>11. ASSUME NEW q \in Requests, FindApproved(q) PROVE MInv'
  <2>1. MerchantsTypeOK'
    BY <1>11 DEF FindApproved, MerchantsTypeOK, Steps
  <2>2. ApprovalPending'
    BY <1>11 DEF FindApproved, ApprovalPending, Verified, MerchantsTypeOK
  <2> QED
    BY <1>11, <2>1, <2>2 DEF FindApproved, BalanceAddsUp, ApprovedIsVerified
<1>12. ASSUME NEW q \in Requests, UpdateVerificationStatus(q) PROVE MInv'
  <2>1. /\ merchant' \in Row /\ merchant'.isVerified
        /\ merchant'.settings = read[q].settings
    BY <1>12 DEF UpdateVerificationStatus, MerchantsTypeOK, Row
  <2>2. outdated' \in BOOLEAN
    BY <1>12 DEF UpdateVerificationStatus, Overwrites
  <2>3. MerchantsTypeOK'
    BY <1>12, <2>1, <2>2 DEF UpdateVerificationStatus, MerchantsTypeOK, Steps
  <2>4. ~outdated' => ~outdated /\ read[q] = merchant
    BY <1>12 DEF UpdateVerificationStatus, Overwrites
  <2>5. BalanceAddsUp'
    BY <1>12, <2>1, <2>4 DEF UpdateVerificationStatus, BalanceAddsUp
  <2>6. ApprovedIsVerified' /\ ApprovalPending'
    BY <2>1 DEF ApprovedIsVerified, ApprovalPending, Verified
  <2> QED  BY <2>3, <2>5, <2>6
<1>13. ASSUME NEW q \in Requests, SaveKyc(q) PROVE MInv'
  <2>1. plan[q].status \in KycStatus
    BY DEF MerchantsTypeOK, Plan
  <2>2. MerchantsTypeOK'
    BY <1>13, <2>1, EndsKeeps DEF SaveKyc, MerchantsTypeOK, KycRow
  <2>3. BalanceAddsUp'
    BY <1>13 DEF SaveKyc, BalanceAddsUp
  <2>4. ApprovedIsVerified'
    BY <1>13 DEF SaveKyc, ApprovedIsVerified, ApprovalPending, Verified
  <2>5. ApprovalPending'
    BY <1>13, EndsKeeps DEF SaveKyc, ApprovalPending, Verified
  <2> QED  BY <2>2, <2>3, <2>4, <2>5
<1>14. ASSUME NEW q \in Requests, Fails(q) PROVE MInv'
  BY <1>14, DropKeeps DEF Fails
<1>15. CASE UNCHANGED merchantVars
  BY <1>15 DEF merchantVars, MerchantsTypeOK, BalanceAddsUp, ApprovedIsVerified, ApprovalPending, Verified
<1> QED
  BY <1>1, <1>2, <1>3, <1>4, <1>5, <1>6, <1>7, <1>8, <1>9, <1>10, <1>11, <1>12,
     <1>13, <1>14, <1>15 DEF MerchantsNext, AdminEndpoints, KycEndpoints

-----------------------------------------------------------------------------

\* As long as no save wrote over a changed row, the balance is the sum of the
\* adjustments that were saved, for any number of requests and amounts.
THEOREM BalanceIsSum == MerchantsSpec => []BalanceAddsUp
<1>1. MInv => BalanceAddsUp
  BY DEF MInv
<1> QED  BY <1>1, MerchantsStart, MerchantsStep, PTL DEF MerchantsSpec

\* The verification is only saved as approved when the merchant has been
\* verified, unless that was taken back or outdated.
THEOREM ApprovalVerifies == MerchantsSpec => []ApprovedIsVerified
<1>1. MInv => ApprovedIsVerified
  BY DEF MInv
<1> QED  BY <1>1, MerchantsStart, MerchantsStep, PTL DEF MerchantsSpec

\* Every variable has its type in every reachable state.
THEOREM MerchantTypeCorrect == MerchantsSpec => []MerchantsTypeOK
<1>1. MInv => MerchantsTypeOK
  BY DEF MInv
<1> QED  BY <1>1, MerchantsStart, MerchantsStep, PTL DEF MerchantsSpec

\* A suspension ends by an administrator's save or by one that wrote over a
\* changed row.
LEMMA SuspensionStep ==
    ASSUME MInv, [MerchantsNext]_merchantVars, SuspensionLifted
    PROVE  outdated' \/ ByAdministrator
<1> USE DEF MInv, SuspensionLifted, ByAdministrator
<1>1. PICK q \in Requests : \/ AdjustMerchantBalance(q)
                            \/ SaveRow(q)
                            \/ UpdateVerificationStatus(q)
  BY DEF MerchantsNext, AdminEndpoints, KycEndpoints, merchantVars, AdjustRequest, AdminRequest, SettingsRequest, EventsRequest,
         ProfileRequest, CreateKycRequest, CreateKyc, ReviewRequest, FindApproved,
         SaveKyc, Fails, Load
<1>2. CASE AdjustMerchantBalance(q)
  BY <1>2 DEF AdjustMerchantBalance, MerchantsTypeOK, Row
<1>3. CASE SaveRow(q)
  <2>1. CASE plan[q].field = "isActive"
    BY <1>3, <2>1 DEF SaveRow, Ends, MerchantsTypeOK
  <2>2. CASE plan[q].field # "isActive"
    <3>1. read[q] \in Row
      BY DEF MerchantsTypeOK
    <3>2. Changed(read[q], plan[q]).isActive = read[q].isActive
      BY <2>2, <3>1 DEF Changed, Row
    <3>3. read[q] # merchant
      BY <1>3, <3>2 DEF SaveRow
    <3> QED  BY <1>3, <3>3 DEF SaveRow, Overwrites
  <2> QED  BY <2>1, <2>2
<1>4. CASE UpdateVerificationStatus(q)
  <2>1. read[q] \in Row
    BY DEF MerchantsTypeOK
  <2>2. read[q] # merchant
    BY <1>4, <2>1 DEF UpdateVerificationStatus, Row
  <2> QED  BY <1>4, <2>2 DEF UpdateVerificationStatus, Overwrites
<1> QED  BY <1>1, <1>2, <1>3, <1>4

\* Only an administrator lifts a suspension, unless a save wrote over a row
\* that had changed since it was loaded.
THEOREM SuspensionStays == MerchantsSpec => SuspensionHolds
<1>1. MInv /\ [MerchantsNext]_merchantVars => [SuspensionLifted => outdated' \/ ByAdministrator]_merchantVars
  BY SuspensionStep
<1> QED  BY <1>1, MerchantsStart, MerchantsStep, PTL DEF MerchantsSpec, SuspensionHolds
=============================================================================
