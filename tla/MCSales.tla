------------------------------- MODULE MCSales -------------------------------
(***************************************************************************)
(* The orders of the marketplace and the fraud check of payments, explored *)
(* in one run.  They share no variable, so a behaviour takes the steps of  *)
(* one part.                                                               *)
(***************************************************************************)
EXTENDS MarketplaceOrders, FraudPrevention, TLC

CONSTANTS p1, p2

Stocked(type, stock) == [type |-> type, stock |-> stock, active |-> TRUE]
TwoProducts == p1 :> Stocked("physical", 4) @@ p2 :> Stocked("digital", None)

Of(p, n) == [p |-> p, qty |-> n]
Baskets == {<<Of(p1, 2)>>, <<Of(p1, 1), Of(p2, 1)>>, <<Of(p1, 1), Of(p1, 2)>>}
SomeEdits == {[type |-> None, stock |-> 3], [type |-> None, stock |-> None],
              [type |-> "digital", stock |-> Same]}

Symmetry == Permutations(Request)

VARIABLE part

SalesInit ==
    /\ part \in {"orders", "fraud"}
    /\ Init /\ FraudInit
    \* The fraud check that takes no step begins in one way only.
    /\ part = "orders" => \A s \in EarlierScores, a \in EarlierAlerts :
                              earlier.scores <= s /\ earlier.alerts <= a

SalesNext ==
    /\ UNCHANGED part
    /\ \/ part = "orders" /\ UNCHANGED fraudVars /\ Next
       \/ part = "fraud" /\ UNCHANGED vars /\ FraudNext

SalesSpec == SalesInit /\ [][SalesNext]_<<vars, fraudVars, part>>
=============================================================================
