---------------------------- MODULE MCBackOffice ----------------------------
(***************************************************************************)
(* The modules about what surrounds a payment, explored in one run.  They  *)
(* share no variable, so a behaviour takes the steps of one part: every    *)
(* state of every part is reached without multiplying them.                *)
(***************************************************************************)
EXTENDS ApiKeys, MerchantDocuments, MarketplaceSellers, Accounts, RequestPipeline,
        Merchants, BillingRows, TLC

VARIABLE part

Parts == {"keys", "documents", "sellers", "accounts", "requests", "merchants", "rows"}
vars == <<keyVars, docVars, sellerVars, accountVars, httpVars, merchantVars, rowVars,
          part>>

\* The calls of a part are alike; these are of every part.
Symmetry == Permutations(HttpRequest)

Init ==
    /\ part \in Parts
    /\ KeysInit /\ DocumentsInit /\ SellersInit /\ AccountsInit /\ PipelineInit
    /\ MerchantsInit /\ RowsInit
    \* A part that takes no step begins in one way only.
    /\ part # "documents" => \A c \in DocumentRow : customer[c] \in {None, CHOOSE n \in DocumentName : TRUE}
    /\ part # "accounts" => user[Founder].role = "merchant" /\ user[Founder].email = CHOOSE e \in Email : TRUE
    /\ part # "rows" => terms.interval = "daily" /\ \A n \in Count : terms.count <= n

\* The variables of every part but the one that steps.
Others(p) ==
    /\ p = part /\ UNCHANGED part
    /\ p # "keys" => UNCHANGED keyVars
    /\ p # "documents" => UNCHANGED docVars
    /\ p # "sellers" => UNCHANGED sellerVars
    /\ p # "accounts" => UNCHANGED accountVars
    /\ p # "requests" => UNCHANGED httpVars
    /\ p # "merchants" => UNCHANGED merchantVars
    /\ p # "rows" => UNCHANGED rowVars

Next ==
    \/ Others("keys") /\ KeysNext
    \/ Others("documents") /\ DocumentsNext
    \/ Others("sellers") /\ SellersNext
    \/ Others("accounts") /\ AccountsNext
    \/ Others("requests") /\ PipelineNext
    \/ Others("merchants") /\ MerchantsNext
    \/ Others("rows") /\ RowsNext

Spec == Init /\ [][Next]_vars
=============================================================================
