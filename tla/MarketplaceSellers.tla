-------------------------- MODULE MarketplaceSellers --------------------------
(***************************************************************************)
(* MarketplaceService and PaymentSplitService for one marketplace and one  *)
(* seller: the seller is added, removed and given a commission rate, and a *)
(* payment to the seller is split.  A payment and its two splits are three *)
(* saves without a transaction, and nothing in the database keeps a seller *)
(* from having two rows.  Each call is made at most once.                  *)
(***************************************************************************)
EXTENDS Absent, Integers, FiniteSets

CONSTANTS SellerCall,
          SellerRow,    \* bound: rows the seller may have
          Rate, Price   \* percentages and whole amounts the bodies carry

ASSUME SellerAssumption == /\ Rate \cup Price \subseteq Int
                           /\ None \notin SellerRow \cup Int

VARIABLES
    seller,      \* marketplace_sellers rows
    payment,     \* per call: the amount of the payment it created, or None
    split,       \* per call: its payment_splits rows, in hundredths
    scall,       \* per call: where it is and what it holds
    \* History.
    removed,     \* a removal has been saved
    twins,       \* two additions were between their check and their save
    overwritten  \* a save wrote over a row changed since it was loaded

sellerVars == <<seller, payment, split, scall, removed, twins, overwritten>>

SellerRecord == [exists : BOOLEAN, isActive : BOOLEAN, rate : Int]
NoSeller == [exists |-> FALSE, isActive |-> FALSE, rate |-> 0]
SplitRow == [seller : Int \cup {None}, commission : Int \cup {None}]

SellerStep == {"new", "add", "save", "pay", "sellerSplit", "commissionSplit", "end", "failed"}
SellerLocal == [at : SellerStep, r : SellerRow \cup {None}, read : SellerRecord,
                row : SellerRecord, amount : Int]
NewSellerCall == [at |-> "new", r |-> None, read |-> NoSeller, row |-> NoSeller, amount |-> 0]

SellersTypeOK ==
    /\ seller \in [SellerRow -> SellerRecord]
    /\ payment \in [SellerCall -> Int \cup {None}]
    /\ split \in [SellerCall -> SplitRow]
    /\ scall \in [SellerCall -> SellerLocal]
    /\ {removed, twins, overwritten} \subseteq BOOLEAN

SellersInit ==
    /\ seller = [r \in SellerRow |-> NoSeller]
    /\ payment = [c \in SellerCall |-> None]
    /\ split = [c \in SellerCall |-> [seller |-> None, commission |-> None]]
    /\ scall = [c \in SellerCall |-> NewSellerCall]
    /\ removed = FALSE /\ twins = FALSE /\ overwritten = FALSE

SellerHolds(c, local) == scall' = [scall EXCEPT ![c] = local]
SellerAt(c, step) == scall' = [scall EXCEPT ![c].at = step]
SellerRows == {r \in SellerRow : seller[r].exists}
-----------------------------------------------------------------------------
\* Mutant: only an active row is a conflict.
AddRemovedAgain(c, rate) ==
    /\ scall[c].at = "new"
    /\ IF \E r \in SellerRows : seller[r].isActive THEN SellerAt(c, "end") /\ UNCHANGED twins
       ELSE /\ SellerHolds(c, [NewSellerCall EXCEPT !.at = "add", !.row.rate = rate])
            /\ twins' = (twins \/ \E o \in SellerCall : scall[o].at = "add")
    /\ UNCHANGED <<seller, payment, split, removed, overwritten>>

\* addSeller: a row of the seller, removed or not, is a conflict.
AddSeller(c, rate) ==
    /\ scall[c].at = "new"
    /\ IF SellerRows # {} THEN SellerAt(c, "end") /\ UNCHANGED twins
       ELSE /\ SellerHolds(c, [NewSellerCall EXCEPT !.at = "add", !.row.rate = rate])
            /\ twins' = (twins \/ \E o \in SellerCall : scall[o].at = "add")
    /\ UNCHANGED <<seller, payment, split, removed, overwritten>>

\* The saved entity has no user to notify: the call fails after its save.
InsertSeller(c) ==
    /\ scall[c].at = "add"
    /\ \E r \in SellerRow \ SellerRows :
          seller' = [seller EXCEPT ![r] = [exists |-> TRUE, isActive |-> TRUE,
                                           rate |-> scall[c].row.rate]]
    /\ SellerAt(c, "end")
    /\ UNCHANGED <<payment, split, removed, twins, overwritten>>

\* findOne asks for no order: any row of the seller may come.
FindSeller(c, r, row) ==
    /\ scall[c].at = "new" /\ r \in SellerRows
    /\ SellerHolds(c, [NewSellerCall EXCEPT !.at = "save", !.r = r, !.read = seller[r], !.row = row])
    /\ UNCHANGED <<seller, payment, split, removed, twins, overwritten>>

RemoveSeller(c, r) == FindSeller(c, r, [seller[r] EXCEPT !.isActive = FALSE])

\* The rate of the body is not validated here.
UpdateCommissionRate(c, r, rate) == FindSeller(c, r, [seller[r] EXCEPT !.rate = rate])

SaveSeller(c) ==
    LET local == scall[c] IN
    /\ local.at = "save"
    /\ seller' = [seller EXCEPT ![local.r] = local.row]
    /\ removed' = (removed \/ (local.read.isActive /\ ~local.row.isActive))
    /\ overwritten' = (overwritten \/ seller[local.r] # local.read)
    /\ SellerAt(c, "end")
    /\ UNCHANGED <<payment, split, twins>>
-----------------------------------------------------------------------------
(* processMarketplacePayment.                                               *)

FindActiveSeller(c, amount) ==
    /\ scall[c].at = "new"
    /\ IF \E r \in SellerRows : seller[r].isActive
       THEN \E r \in SellerRows :
               /\ seller[r].isActive
               /\ SellerHolds(c, [NewSellerCall EXCEPT !.at = "pay", !.r = r, !.read = seller[r],
                                                       !.amount = amount])
       ELSE SellerAt(c, "end")
    /\ UNCHANGED <<seller, payment, split, removed, twins, overwritten>>

CreateMarketplacePayment(c) ==
    /\ scall[c].at = "pay"
    /\ payment' = [payment EXCEPT ![c] = scall[c].amount]
    /\ SellerAt(c, "sellerSplit")
    /\ UNCHANGED <<seller, split, removed, twins, overwritten>>

\* CurrencyUtils.calculateFee, in hundredths of the amount's unit.
CalculateFee(amount, percentage) == amount * percentage

\* PaymentSplitService: loads the recipient and saves.
CreateSplit(c, recipient, amount) == split' = [split EXCEPT ![c][recipient] = amount]

CreateSellerSplit(c) ==
    /\ scall[c].at = "sellerSplit"
    /\ CreateSplit(c, "seller", 100 * scall[c].amount - CalculateFee(scall[c].amount, scall[c].read.rate))
    /\ SellerAt(c, "commissionSplit")
    /\ UNCHANGED <<seller, payment, removed, twins, overwritten>>

\* Mutant: the rate is read again.
CreateCommissionSplitFresh(c) ==
    /\ scall[c].at = "commissionSplit"
    /\ CreateSplit(c, "commission", CalculateFee(scall[c].amount, seller[scall[c].r].rate))
    /\ SellerAt(c, "end")
    /\ UNCHANGED <<seller, payment, removed, twins, overwritten>>

\* The rate of both splits is the one that was loaded first.
CreateCommissionSplit(c) ==
    /\ scall[c].at = "commissionSplit"
    /\ CreateSplit(c, "commission", CalculateFee(scall[c].amount, scall[c].read.rate))
    /\ SellerAt(c, "end")
    /\ UNCHANGED <<seller, payment, removed, twins, overwritten>>

\* An await rejects or the replica dies: what is saved stays.
SellerCallFails(c) ==
    /\ scall[c].at \notin {"new", "end", "failed"}
    /\ SellerAt(c, "failed")
    /\ UNCHANGED <<seller, payment, split, removed, twins, overwritten>>

MarketplaceEndpoints(c) ==
    \/ \E rate \in Rate : AddSeller(c, rate)
    \/ \E r \in SellerRow : RemoveSeller(c, r)
    \/ \E r \in SellerRow, rate \in Rate : UpdateCommissionRate(c, r, rate)
    \/ \E amount \in Price : FindActiveSeller(c, amount)

SellersNext ==
    \E c \in SellerCall :
        \/ MarketplaceEndpoints(c)
        \/ InsertSeller(c) \/ SaveSeller(c)
        \/ CreateMarketplacePayment(c) \/ CreateSellerSplit(c) \/ CreateCommissionSplit(c)
        \/ SellerCallFails(c)

SellersSpec == SellersInit /\ [][SellersNext]_sellerVars
-----------------------------------------------------------------------------
\* marketplace.service.ts: whatever happens to the rate meanwhile, the splits
\* of a payment add up to it, and only a call that failed or is still under
\* way leaves a payment without both.
SplitsMakeThePayment ==
    \A c \in SellerCall :
        /\ split[c].commission # None =>
               split[c].seller + split[c].commission = 100 * payment[c]
        /\ payment[c] # None /\ scall[c].at = "end" => split[c].commission # None

\* marketplace.service.ts: once the seller was removed no payment can begin
\* for it, whatever is done to the seller after, unless two additions
\* overlapped and left two rows or a save wrote over the removal.
RemovedSellerIsOut ==
    removed /\ ~twins /\ ~overwritten => \A r \in SellerRow : ~seller[r].isActive
=============================================================================
