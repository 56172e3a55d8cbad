-------------------------- MODULE MarketplaceOrders --------------------------
(***************************************************************************)
(* Marketplace products, their inventory and the orders that draw on it:   *)
(* OrderService and ProductService.                                        *)
(*                                                                         *)
(* OrderService.create opens a database transaction, but only the order    *)
(* and its items are written in it: the inventory is changed product by    *)
(* product and the payment is created through services with repositories   *)
(* of their own, so a rollback undoes neither.  Each action is the code    *)
(* between two awaits of one request.                                      *)
(***************************************************************************)
EXTENDS Integers, Sequences, FiniteSetsExt

CONSTANTS Request,   \* requests, each made at most once
          Product,
          Catalog,   \* [Product -> rows]: the products at the start
          Basket,    \* the sequences of items [p, qty] an order may ask for
          Edit,      \* the bodies [type, stock] of a product update
          LowStock,  \* stock at which the seller is alerted: 5
          Same,      \* an update that leaves the stock alone
          None

StockType == Int \cup {None}
ProductRow == [type : {"physical", "digital"}, stock : StockType, active : BOOLEAN]
Item == [p : Product, qty : Nat \ {0}]
CreateOrderDto == Seq(Item)
OrderRow == Seq(Item) \cup {None}  \* the items, for what is left of a row
UpdateProductDto == [type : {"physical", "digital", None}, stock : Nat \cup {None, Same}]

ASSUME CatalogAssumption ==
    /\ None \notin Int /\ Same \notin StockType /\ LowStock \in Nat
    /\ Catalog \in [Product -> ProductRow]
    /\ \A p \in Product : IF Catalog[p].type = "physical"
                         THEN Catalog[p].stock \in Nat \cup {None}
                         ELSE Catalog[p].stock = None
    /\ Basket \subseteq CreateOrderDto
    /\ Edit \subseteq UpdateProductDto

VARIABLES
    product,  \* marketplace_products rows
    order,    \* per request: the items of its order row; None without a row
    payment,  \* requests whose payment row exists
    req,      \* per request: where it is and what it holds
    \* History.
    mixed     \* products whose stock was set, or saved over another save

vars == <<product, order, payment, req, mixed>>

NoRow == [type |-> "physical", stock |-> None, active |-> FALSE]

\* todo: items of the loop that are left; saved: rows of the open transaction.
Req == [at : {"new", "check", "read", "take", "pay", "order", "items", "commit",
              "update", "deactivate", "end"},
        basket : Basket \cup {<<>>}, todo : Seq(Item), saved : Seq(Item),
        p : Product \cup {None}, row : ProductRow, edit : Edit \cup {None}]
NewReq == [at |-> "new", basket |-> <<>>, todo |-> <<>>, saved |-> <<>>,
           p |-> None, row |-> NoRow, edit |-> None]

TypeOK ==
    /\ product \in [Product -> ProductRow]
    /\ order \in [Request -> OrderRow]
    /\ payment \subseteq Request
    /\ req \in [Request -> Req]
    /\ mixed \subseteq Product

Init ==
    /\ product = Catalog
    /\ order = [r \in Request |-> None]
    /\ payment = {}
    /\ req = [r \in Request |-> NewReq]
    /\ mixed = {}
-----------------------------------------------------------------------------
Goes(r, state) == req' = [req EXCEPT ![r] = state]

\* The request is answered: whether with a result, a refusal or an error makes
\* no difference to the rows.
Ends(r) == req' = [req EXCEPT ![r].at = "end"]

\* The loop of create goes on to the next item, or leaves for the payment.
NextItem(r) ==
    LET rest == Tail(req[r].todo) IN
    Goes(r, [req[r] EXCEPT !.todo = rest, !.at = IF rest = <<>> THEN "pay" ELSE "check"])

\* productRepository.save writes every column of the row that was read.
Save(r, p, row) ==
    /\ product' = [product EXCEPT ![p] = row]
    /\ mixed' = IF product[p] = req[r].row THEN mixed ELSE mixed \cup {p}

Create(r, basket) ==
    /\ req[r].at = "new"
    /\ Goes(r, [NewReq EXCEPT !.at = IF basket = <<>> THEN "pay" ELSE "check",
                              !.basket = basket, !.todo = basket])
    /\ UNCHANGED <<product, order, payment, mixed>>

CheckItem(r) ==
    LET item == Head(req[r].todo)
        row == product[item.p] IN
    /\ req[r].at = "check"
    /\ \/ ~row.active /\ Ends(r)
       \/ row.active /\ row.stock # None /\ row.stock < item.qty /\ Ends(r)
       \/ row.active /\ row.stock # None /\ row.stock >= item.qty
                     /\ Goes(r, [req[r] EXCEPT !.at = "read"])
       \/ row.active /\ row.stock = None /\ NextItem(r)
    /\ UNCHANGED <<product, order, payment, mixed>>

\* Mutant: updateInventory trusts the check its caller has made.
ReadInventoryUnchecked(r) ==
    LET item == Head(req[r].todo)
        row == product[item.p] IN
    /\ req[r].at = "read"
    /\ IF ~row.active THEN Ends(r)
       ELSE IF row.type # "physical" THEN NextItem(r)
       ELSE IF row.stock = None THEN Ends(r)
       ELSE Goes(r, [req[r] EXCEPT !.at = "take", !.row = row])
    /\ UNCHANGED <<product, order, payment, mixed>>

\* updateInventory reads the product again.
ReadInventory(r) ==
    LET item == Head(req[r].todo)
        row == product[item.p] IN
    /\ req[r].at = "read"
    /\ IF ~row.active THEN Ends(r)
       ELSE IF row.type # "physical" THEN NextItem(r)
       ELSE IF row.stock = None \/ row.stock < item.qty THEN Ends(r)
       ELSE Goes(r, [req[r] EXCEPT !.at = "take", !.row = row])
    /\ UNCHANGED <<product, order, payment, mixed>>

\* Mutant: one unit is taken whatever the quantity.
TakeOne(r) ==
    LET item == Head(req[r].todo)
        left == req[r].row.stock - 1 IN
    /\ req[r].at = "take"
    /\ Save(r, item.p, [req[r].row EXCEPT !.stock = left])
    /\ IF left <= LowStock THEN Ends(r) ELSE NextItem(r)
    /\ UNCHANGED <<order, payment>>

\* The alert reads product.seller.merchant, which no query loads, so once the
\* stock is low the call throws after its save.
TakeInventory(r) ==
    LET item == Head(req[r].todo)
        left == req[r].row.stock - item.qty IN
    /\ req[r].at = "take"
    /\ Save(r, item.p, [req[r].row EXCEPT !.stock = left])
    /\ IF left <= LowStock THEN Ends(r) ELSE NextItem(r)
    /\ UNCHANGED <<order, payment>>

CreatePayment(r) ==
    /\ req[r].at = "pay"
    /\ payment' = payment \cup {r}
    /\ Goes(r, [req[r] EXCEPT !.at = "order"])
    /\ UNCHANGED <<product, order, mixed>>

\* The seller's row is looked up and the order saved in the transaction.
SaveOrder(r) ==
    /\ req[r].at = "order"
    /\ \/ Ends(r)  \* no seller has that id
       \/ Goes(r, [req[r] EXCEPT !.at = IF req[r].basket = <<>> THEN "commit" ELSE "items"])
    /\ UNCHANGED <<product, order, payment, mixed>>

\* Mutant: the items are saved outside the transaction, with the order.
SaveItemAtOnce(r) ==
    LET saved == Append(req[r].saved, req[r].basket[Len(req[r].saved) + 1]) IN
    /\ req[r].at = "items"
    /\ Goes(r, [req[r] EXCEPT !.saved = saved,
                              !.at = IF saved = req[r].basket THEN "commit" ELSE "items"])
    /\ order' = [order EXCEPT ![r] = saved]
    /\ UNCHANGED <<product, payment, mixed>>

SaveItem(r) ==
    LET saved == Append(req[r].saved, req[r].basket[Len(req[r].saved) + 1]) IN
    /\ req[r].at = "items"
    /\ Goes(r, [req[r] EXCEPT !.saved = saved,
                              !.at = IF saved = req[r].basket THEN "commit" ELSE "items"])
    /\ UNCHANGED <<product, order, payment, mixed>>

\* After the commit the notification reads seller.merchant, which is not
\* loaded; the catch then rolls back a transaction that is over and throws.
Commit(r) ==
    /\ req[r].at = "commit"
    /\ order' = [order EXCEPT ![r] = req[r].saved]
    /\ Ends(r)
    /\ UNCHANGED <<product, payment, mixed>>
-----------------------------------------------------------------------------
(* ProductService.update and deactivate.                                    *)

StartEdit(r, p, at, edit) ==
    /\ req[r].at = "new"
    /\ IF product[p].active
       THEN Goes(r, [NewReq EXCEPT !.at = at, !.p = p, !.row = product[p], !.edit = edit])
       ELSE Ends(r)
    /\ UNCHANGED <<product, order, payment, mixed>>

\* Object.assign lets a given stock win over the 0 of a type that has none.
Edited(row, e) ==
    [row EXCEPT !.type = IF e.type = None THEN row.type ELSE e.type,
                !.stock = IF e.stock # Same THEN e.stock
                          ELSE IF e.type \notin {None, "physical"} THEN 0 ELSE row.stock]

SaveUpdate(r) ==
    /\ req[r].at = "update"
    /\ product' = [product EXCEPT ![req[r].p] = Edited(req[r].row, req[r].edit)]
    /\ mixed' = mixed \cup {req[r].p}
    /\ Ends(r)
    /\ UNCHANGED <<order, payment>>

SaveDeactivate(r) ==
    /\ req[r].at = "deactivate"
    /\ Save(r, req[r].p, [req[r].row EXCEPT !.active = FALSE])
    /\ Ends(r)
    /\ UNCHANGED <<order, payment>>

\* The database call fails, or the process dies: the transaction is rolled back.
Fails(r) ==
    /\ req[r].at \notin {"new", "end"}
    /\ Ends(r)
    /\ UNCHANGED <<product, order, payment, mixed>>

OrderEndpoints(r) == \E basket \in Basket : Create(r, basket)

ProductEndpoints(r) ==
    \E p \in Product :
        \/ StartEdit(r, p, "deactivate", None)
        \/ \E edit \in Edit : StartEdit(r, p, "update", edit)

Next ==
    \E r \in Request :
        \/ OrderEndpoints(r) \/ ProductEndpoints(r)
        \/ CheckItem(r) \/ ReadInventory(r) \/ TakeInventory(r)
        \/ CreatePayment(r) \/ SaveOrder(r) \/ SaveItem(r) \/ Commit(r)
        \/ SaveUpdate(r) \/ SaveDeactivate(r)
        \/ Fails(r)

Spec == Init /\ [][Next]_vars
-----------------------------------------------------------------------------
Units(items, p) ==
    SumFunctionOnSet([i \in DOMAIN items |-> items[i].qty], {i \in DOMAIN items : items[i].p = p})

Ordered(p) ==
    LET placed == {r \in Request : order[r] # None} IN
    SumFunctionOnSet([r \in placed |-> Units(order[r], p)], placed)

Tracked(p) == Catalog[p].type = "physical" /\ Catalog[p].stock # None

\* updateInventory: no order of steps, stale saves and merchants' edits
\* included, writes a negative stock, though order and save are apart.
StockNeverNegative == \A p \in Product : product[p].stock # None => product[p].stock >= 0

\* OrderService.create: the units of the orders that exist and the units in
\* stock are never more than there were, unless two saves of the product
\* overlapped or its merchant set the stock.
NothingSoldTwice ==
    \A p \in Product : Tracked(p) /\ p \notin mixed
        => product[p].stock + Ordered(p) <= Catalog[p].stock

\* OrderService.create: whatever fails and wherever a process dies, an order
\* row that others can see has all its items and a payment.
OrdersAreWhole ==
    \A r \in Request : order[r] # None => order[r] = req[r].basket /\ r \in payment
=============================================================================
