------------------------ MODULE MarketplaceOrdersProofs ------------------------
(***************************************************************************)
(* Proofs about MarketplaceOrders, for any products, baskets and edits and *)
(* any number of requests.                                                 *)
(***************************************************************************)
EXTENDS MarketplaceOrders, SequenceTheorems, FiniteSetTheorems, WellFoundedInduction, TLAPS

-----------------------------------------------------------------------------
(* The inductive invariant.                                                 *)

\* What a request holds where it is: an item to look at, a product it loaded
\* with enough of it in stock, the product and body of an edit.
Ready(l) ==
    /\ l.at \in {"check", "read", "take"} => l.todo # <<>>
    /\ l.row.stock # None => l.row.stock >= 0
    /\ l.at = "take" => l.row.stock \in Int /\ l.row.stock >= Head(l.todo).qty
    /\ l.at \in {"update", "deactivate"} => l.p \in Product
    /\ l.at = "update" => l.edit \in Edit

\* The transaction of request r, at l, holds the first items of its basket
\* until it holds them all, and nobody sees an order before that.
Whole(r, l) ==
    /\ l.at \in {"order", "items", "commit"} => r \in payment
    /\ l.at \in {"new", "check", "read", "take", "pay", "order"} => l.saved = <<>>
    /\ l.at = "items" => /\ Len(l.saved) < Len(l.basket)
                         /\ \A i \in 1..Len(l.saved) : l.saved[i] = l.basket[i]
    /\ l.at = "commit" => l.saved = l.basket
    /\ l.at # "end" => order[r] = None
    /\ order[r] # None => order[r] = l.basket /\ r \in payment

OrderInv ==
    /\ TypeOK
    /\ StockNeverNegative
    /\ \A r \in Request : Ready(req[r]) /\ Whole(r, req[r])

-----------------------------------------------------------------------------
LEMMA NewReqTyped == NewReq \in Req /\ Ready(NewReq)
BY CatalogAssumption DEF Req, NewReq, NoRow, Ready, ProductRow, StockType

LEMMA OrderStart == Init => OrderInv
<1> SUFFICES ASSUME Init PROVE OrderInv
  OBVIOUS
<1> USE CatalogAssumption DEF Init
<1>1. TypeOK
  BY NewReqTyped DEF TypeOK, OrderRow
<1>2. StockNeverNegative
  BY DEF StockNeverNegative, ProductRow, StockType
<1>3. \A r \in Request : Whole(r, NewReq)
  BY DEF Whole, NewReq
<1> QED  BY <1>1, <1>2, <1>3, NewReqTyped DEF OrderInv

\* A step of request r, to what it holds next.
LEMMA OrderStep ==
    ASSUME OrderInv, NEW r \in Request,
           NEW l \in Req, req' = [req EXCEPT ![r] = l], Ready(l), Whole(r, l)',
           product' \in [Product -> ProductRow], StockNeverNegative', mixed' \subseteq Product,
           payment' \subseteq Request, payment \subseteq payment',
           order' \in [Request -> OrderRow], \A s \in Request \ {r} : order'[s] = order[s]
    PROVE  OrderInv'
<1>1. TypeOK'
  BY DEF OrderInv, TypeOK
<1>2. ASSUME NEW s \in Request PROVE Ready(req'[s]) /\ Whole(s, req[s])'
  <2>1. CASE s = r
    <3>1. req'[s] = l
      BY <2>1 DEF OrderInv, TypeOK
    <3> QED  BY <2>1, <3>1 DEF Whole
  <2>2. CASE s # r
    <3>1. req'[s] = req[s] /\ order'[s] = order[s] /\ (s \in payment => s \in payment')
      BY <2>2 DEF OrderInv, TypeOK
    <3> QED  BY <3>1 DEF OrderInv, Whole
  <2> QED  BY <2>1, <2>2
<1> QED  BY <1>1, <1>2 DEF OrderInv, Ready

\* A step that changes no row.
LEMMA QuietStep ==
    ASSUME OrderInv, NEW r \in Request,
           NEW l \in Req, req' = [req EXCEPT ![r] = l], Ready(l), Whole(r, l),
           UNCHANGED <<product, order, payment, mixed>>
    PROVE  OrderInv'
<1>1. Whole(r, l)'
  BY DEF Whole
<1>2. StockNeverNegative'
  BY DEF OrderInv, StockNeverNegative
<1> QED  BY <1>1, <1>2, OrderStep DEF OrderInv, TypeOK

\* A request that ends keeps what there is of its order.
LEMMA EndStep ==
    ASSUME OrderInv, NEW r \in Request
    PROVE  LET l == [req[r] EXCEPT !.at = "end"] IN l \in Req /\ Ready(l) /\ Whole(r, l)
<1>1. req[r] \in Req /\ Ready(req[r]) /\ Whole(r, req[r])
  BY DEF OrderInv, TypeOK
<1> DEFINE l == [req[r] EXCEPT !.at = "end"]
<1>2. l \in Req /\ l.at = "end" /\ l.row = req[r].row /\ l.basket = req[r].basket
  BY <1>1 DEF Req
<1> HIDE DEF l
<1>3. Ready(l) /\ Whole(r, l)
  BY <1>1, <1>2 DEF Ready, Whole
<1> QED  BY <1>2, <1>3 DEF l

LEMMA EndedReq ==
    ASSUME OrderInv, NEW r \in Request, Ends(r)
    PROVE  \E l \in Req : /\ req' = [req EXCEPT ![r] = l] /\ Ready(l) /\ Whole(r, l)
                          /\ l.at = "end" /\ l.basket = req[r].basket
<1> DEFINE l == [req[r] EXCEPT !.at = "end"]
<1>1. req' = [req EXCEPT ![r] = l] /\ l.at = "end" /\ l.basket = req[r].basket
  BY DEF Ends, OrderInv, TypeOK, Req
<1>2. l \in Req /\ Ready(l) /\ Whole(r, l)
  BY EndStep
<1> HIDE DEF l
<1> QED  BY <1>1, <1>2

LEMMA EndsQuietly ==
    ASSUME OrderInv, NEW r \in Request, Ends(r), UNCHANGED <<product, order, payment, mixed>>
    PROVE  OrderInv'
<1>1. req' = [req EXCEPT ![r] = [req[r] EXCEPT !.at = "end"]]
  BY DEF Ends, OrderInv, TypeOK
<1> QED  BY <1>1, EndStep, QuietStep

\* The loop goes on: what it holds then is in order.
LEMMA NextItemStep ==
    ASSUME OrderInv, NEW r \in Request, req[r].at \in {"check", "read", "take"}
    PROVE  LET rest == Tail(req[r].todo)
               l == [req[r] EXCEPT !.todo = rest, !.at = IF rest = <<>> THEN "pay" ELSE "check"]
           IN  l \in Req /\ Ready(l) /\ Whole(r, l)
<1>1. req[r] \in Req /\ Ready(req[r]) /\ Whole(r, req[r])
  BY DEF OrderInv, TypeOK
<1> DEFINE rest == Tail(req[r].todo)
           at == IF rest = <<>> THEN "pay" ELSE "check"
           l == [req[r] EXCEPT !.todo = rest, !.at = at]
<1>2. rest \in Seq(Item)
  BY <1>1, HeadTailProperties DEF Req, Ready
<1>3. at \in {"pay", "check"} /\ (at = "check" => rest # <<>>)
  OBVIOUS
<1> HIDE DEF rest, at
<1>4. /\ l \in Req /\ l.at = at /\ l.todo = rest /\ l.row = req[r].row
      /\ l.basket = req[r].basket /\ l.saved = req[r].saved
  BY <1>1, <1>2, <1>3 DEF Req
<1> HIDE DEF l
<1>5. Ready(l) /\ Whole(r, l)
  BY <1>1, <1>3, <1>4 DEF Ready, Whole
<1> QED  BY <1>4, <1>5 DEF l, rest, at

LEMMA ItemTyped ==
    ASSUME OrderInv, NEW r \in Request, req[r].at \in {"check", "read", "take"}
    PROVE  Head(req[r].todo) \in Item
BY HeadTailProperties DEF OrderInv, TypeOK, Req, Ready

-----------------------------------------------------------------------------
(* One lemma for each part of the code.                                     *)

LEMMA CreateKeeps ==
    ASSUME OrderInv, NEW r \in Request, NEW basket \in Basket, Create(r, basket)
    PROVE  OrderInv'
<1> DEFINE at == IF basket = <<>> THEN "pay" ELSE "check"
           l == [NewReq EXCEPT !.at = at, !.basket = basket, !.todo = basket]
<1>1. at \in {"pay", "check"} /\ (at = "check" => basket # <<>>)
  OBVIOUS
<1>2. basket \in Seq(Item)
  BY CatalogAssumption DEF CreateOrderDto
<1>3. req' = [req EXCEPT ![r] = l] /\ req[r].at = "new" /\ UNCHANGED <<product, order, payment, mixed>>
  BY DEF Create, Goes
<1> HIDE DEF at
<1>4. l \in Req /\ l.at = at /\ l.todo = basket /\ l.row = NoRow /\ l.saved = <<>>
  BY <1>1, <1>2, NewReqTyped DEF Req, NewReq
<1> HIDE DEF l
<1>5. Ready(l) /\ Whole(r, l)
  BY <1>1, <1>3, <1>4 DEF Ready, Whole, NoRow, OrderInv
<1> QED  BY <1>3, <1>4, <1>5, QuietStep

LEMMA StartEditKeeps ==
    ASSUME OrderInv, NEW r \in Request, NEW p \in Product, NEW edit \in Edit \cup {None},
           NEW at \in {"update", "deactivate"}, at = "update" => edit \in Edit,
           StartEdit(r, p, at, edit)
    PROVE  OrderInv'
<1>1. CASE Ends(r)
  BY <1>1, EndsQuietly DEF StartEdit
<1>2. CASE ~Ends(r)
  <2> DEFINE l == [NewReq EXCEPT !.at = at, !.p = p, !.row = product[p], !.edit = edit]
  <2>1. req' = [req EXCEPT ![r] = l] /\ req[r].at = "new" /\ UNCHANGED <<product, order, payment, mixed>>
    BY <1>2 DEF StartEdit, Goes
  <2>2. product[p] \in ProductRow /\ (product[p].stock # None => product[p].stock >= 0)
    BY DEF OrderInv, TypeOK, StockNeverNegative
  <2>3. l \in Req /\ l.at = at /\ l.row = product[p] /\ l.p = p /\ l.edit = edit
    BY <2>2, NewReqTyped DEF Req, NewReq
  <2> HIDE DEF l
  <2>4. Ready(l) /\ Whole(r, l)
    BY <2>1, <2>2, <2>3 DEF Ready, Whole, OrderInv
  <2> QED  BY <2>1, <2>3, <2>4, QuietStep
<1> QED  BY <1>1, <1>2

LEMMA CheckItemKeeps ==
    ASSUME OrderInv, NEW r \in Request, CheckItem(r)
    PROVE  OrderInv'
<1>1. req[r].at = "check" /\ UNCHANGED <<product, order, payment, mixed>>
  BY DEF CheckItem
<1>2. CASE Ends(r)
  BY <1>1, <1>2, EndsQuietly
<1>3. CASE NextItem(r)
  BY <1>1, <1>3, NextItemStep, QuietStep DEF NextItem, Goes
<1>4. CASE Goes(r, [req[r] EXCEPT !.at = "read"])
  <2> DEFINE l == [req[r] EXCEPT !.at = "read"]
  <2>1. req[r] \in Req /\ Ready(req[r]) /\ Whole(r, req[r])
    BY DEF OrderInv, TypeOK
  <2>2. /\ l \in Req /\ l.at = "read" /\ l.todo = req[r].todo /\ l.row = req[r].row
        /\ l.basket = req[r].basket /\ l.saved = req[r].saved
    BY <2>1 DEF Req
  <2>3. req' = [req EXCEPT ![r] = l]
    BY <1>4 DEF Goes
  <2> HIDE DEF l
  <2>4. Ready(l) /\ Whole(r, l)
    BY <1>1, <2>1, <2>2 DEF Ready, Whole
  <2> QED  BY <1>1, <2>2, <2>3, <2>4, QuietStep
<1> QED  BY <1>2, <1>3, <1>4 DEF CheckItem

LEMMA ReadInventoryKeeps ==
    ASSUME OrderInv, NEW r \in Request, ReadInventory(r)
    PROVE  OrderInv'
<1> DEFINE item == Head(req[r].todo)
           row == product[item.p]
           l == [req[r] EXCEPT !.at = "take", !.row = row]
<1>1. req[r].at = "read" /\ UNCHANGED <<product, order, payment, mixed>>
  BY DEF ReadInventory
<1>2. CASE Ends(r)
  BY <1>1, <1>2, EndsQuietly
<1>3. CASE NextItem(r)
  BY <1>1, <1>3, NextItemStep, QuietStep DEF NextItem, Goes
<1>4. CASE Goes(r, l) /\ row.stock # None /\ ~(row.stock < item.qty)
  <2>1. req[r] \in Req /\ Ready(req[r]) /\ Whole(r, req[r])
    BY DEF OrderInv, TypeOK
  <2>2. item \in Item
    BY <1>1, ItemTyped
  <2>3. row \in ProductRow
    BY <2>2 DEF Item, OrderInv, TypeOK
  <2>4. row.stock \in Int /\ row.stock >= item.qty /\ item.qty \in Nat
    BY <1>4, <2>2, <2>3 DEF ProductRow, StockType, Item
  <2>5. req' = [req EXCEPT ![r] = l]
    BY <1>4 DEF Goes
  <2> HIDE DEF row
  <2>6. /\ l \in Req /\ l.at = "take" /\ l.todo = req[r].todo /\ l.row = row
        /\ l.basket = req[r].basket /\ l.saved = req[r].saved
    BY <2>1, <2>3 DEF Req
  <2> HIDE DEF l
  <2>7. l.row.stock \in Int /\ l.row.stock >= Head(l.todo).qty /\ l.row.stock >= 0
    BY <2>4, <2>6
  <2>8. Ready(l) /\ Whole(r, l)
    BY <1>1, <2>1, <2>6, <2>7 DEF Ready, Whole
  <2> QED  BY <1>1, <2>5, <2>6, <2>8, QuietStep
<1> QED  BY <1>2, <1>3, <1>4 DEF ReadInventory

\* A product that a request saves: its row and its stock are in order.
LEMMA SavedStock ==
    ASSUME OrderInv, NEW p \in Product, NEW row \in ProductRow,
           row.stock # None => row.stock >= 0,
           product' = [product EXCEPT ![p] = row]
    PROVE  product' \in [Product -> ProductRow] /\ StockNeverNegative'
BY DEF OrderInv, TypeOK, StockNeverNegative

\* What is taken was in stock when it was loaded.
LEMMA TakeInventoryKeeps ==
    ASSUME OrderInv, NEW r \in Request, TakeInventory(r)
    PROVE  OrderInv'
<1> DEFINE item == Head(req[r].todo)
           left == req[r].row.stock - item.qty
           row == [req[r].row EXCEPT !.stock = left]
<1>1. /\ req[r].at = "take" /\ order' = order /\ payment' = payment
      /\ Save(r, item.p, row) /\ (Ends(r) \/ NextItem(r))
  BY DEF TakeInventory
<1>2. item \in Item
  BY <1>1, ItemTyped
<1>3. req[r].row \in ProductRow /\ req[r].row.stock \in Int /\ req[r].row.stock >= item.qty
  BY <1>1 DEF OrderInv, TypeOK, Req, Ready
<1>4. left \in Int /\ left >= 0
  BY <1>2, <1>3 DEF Item
<1> HIDE DEF left
<1>5. row \in ProductRow /\ row.stock >= 0
  BY <1>3, <1>4 DEF ProductRow, StockType
<1>6. item.p \in Product /\ product' = [product EXCEPT ![item.p] = row]
      /\ mixed' \subseteq Product
  BY <1>1, <1>2 DEF Save, Item, OrderInv, TypeOK
<1> HIDE DEF row, item
<1>7. product' \in [Product -> ProductRow] /\ StockNeverNegative'
  BY <1>5, <1>6, SavedStock
<1>8. ASSUME NEW l \in Req, req' = [req EXCEPT ![r] = l], Ready(l), Whole(r, l)
      PROVE  OrderInv'
  <2>1. Whole(r, l)'
    BY <1>1, <1>8 DEF Whole
  <2>2. payment' \subseteq Request /\ payment \subseteq payment' /\ order' \in [Request -> OrderRow]
    BY <1>1 DEF OrderInv, TypeOK
  <2> QED  BY <1>1, <1>6, <1>7, <1>8, <2>1, <2>2, OrderStep
<1>9. CASE Ends(r)
  <2>1. req' = [req EXCEPT ![r] = [req[r] EXCEPT !.at = "end"]]
    BY <1>9 DEF Ends, OrderInv, TypeOK
  <2> QED  BY <1>8, <2>1, EndStep
<1>10. CASE NextItem(r)
  BY <1>1, <1>8, <1>10, NextItemStep DEF NextItem, Goes
<1> QED  BY <1>1, <1>9, <1>10

\* The payment comes before the order.
LEMMA CreatePaymentKeeps ==
    ASSUME OrderInv, NEW r \in Request, CreatePayment(r)
    PROVE  OrderInv'
<1>1. /\ req[r].at = "pay" /\ payment' = payment \cup {r}
      /\ UNCHANGED <<product, order, mixed>>
  BY DEF CreatePayment
<1>2. req[r] \in Req /\ Ready(req[r]) /\ Whole(r, req[r])
  BY DEF OrderInv, TypeOK
<1>3. PICK l \in Req : /\ req' = [req EXCEPT ![r] = l]
                       /\ l.at = "order" /\ l.row = req[r].row
                       /\ l.basket = req[r].basket /\ l.saved = req[r].saved
  <2> DEFINE l == [req[r] EXCEPT !.at = "order"]
  <2>1. /\ l \in Req /\ l.at = "order" /\ l.row = req[r].row
        /\ l.basket = req[r].basket /\ l.saved = req[r].saved
    BY <1>2 DEF Req
  <2>2. req' = [req EXCEPT ![r] = l]
    BY DEF CreatePayment, Goes
  <2> HIDE DEF l
  <2> QED  BY <2>1, <2>2
<1>4. Ready(l) /\ Whole(r, l)'
  BY <1>1, <1>2, <1>3 DEF Ready, Whole
<1>5. StockNeverNegative'
  BY <1>1 DEF OrderInv, StockNeverNegative
<1> QED  BY <1>1, <1>3, <1>4, <1>5, OrderStep DEF OrderInv, TypeOK

LEMMA SaveOrderKeeps ==
    ASSUME OrderInv, NEW r \in Request, SaveOrder(r)
    PROVE  OrderInv'
<1> DEFINE at == IF req[r].basket = <<>> THEN "commit" ELSE "items"
           l == [req[r] EXCEPT !.at = at]
<1>1. req[r].at = "order" /\ UNCHANGED <<product, order, payment, mixed>>
  BY DEF SaveOrder
<1>2. CASE Ends(r)
  BY <1>1, <1>2, EndsQuietly
<1>3. CASE Goes(r, l)
  <2>1. req[r] \in Req /\ Ready(req[r]) /\ Whole(r, req[r])
    BY DEF OrderInv, TypeOK
  <2>2. req[r].basket \in Seq(Item)
    BY <2>1, EmptySeq, CatalogAssumption DEF Req, CreateOrderDto
  <2>3. /\ at \in {"commit", "items"} /\ (at = "commit" => req[r].basket = <<>>)
        /\ at = "items" => 0 < Len(req[r].basket)
    BY <2>2, EmptySeq
  <2>4. req' = [req EXCEPT ![r] = l]
    BY <1>3 DEF Goes
  <2> HIDE DEF at
  <2>5. /\ l \in Req /\ l.at = at /\ l.row = req[r].row
        /\ l.basket = req[r].basket /\ l.saved = req[r].saved
    BY <2>1, <2>3 DEF Req
  <2> HIDE DEF l
  <2>6. l.saved = <<>> /\ Len(l.saved) = 0
    BY <1>1, <2>1, <2>5 DEF Whole
  <2>7. Ready(l) /\ Whole(r, l)
    BY <1>1, <2>1, <2>3, <2>5, <2>6 DEF Ready, Whole
  <2> QED  BY <1>1, <2>4, <2>5, <2>7, QuietStep
<1> QED  BY <1>2, <1>3 DEF SaveOrder

\* The transaction stays a proper beginning of the basket until it is all of it.
LEMMA SaveItemKeeps ==
    ASSUME OrderInv, NEW r \in Request, SaveItem(r)
    PROVE  OrderInv'
<1> DEFINE basket == req[r].basket
           next == basket[Len(req[r].saved) + 1]
           saved == Append(req[r].saved, next)
           at == IF saved = basket THEN "commit" ELSE "items"
           l == [req[r] EXCEPT !.saved = saved, !.at = at]
<1>1. /\ req[r].at = "items" /\ req' = [req EXCEPT ![r] = l]
      /\ UNCHANGED <<product, order, payment, mixed>>
  BY DEF SaveItem, Goes
<1>2. req[r] \in Req /\ Ready(req[r]) /\ Whole(r, req[r])
  BY DEF OrderInv, TypeOK
<1>3. basket \in Seq(Item) /\ req[r].saved \in Seq(Item)
  BY <1>2, EmptySeq, CatalogAssumption DEF Req, CreateOrderDto
<1>4. /\ Len(req[r].saved) < Len(basket)
      /\ \A i \in 1..Len(req[r].saved) : req[r].saved[i] = basket[i]
  BY <1>1, <1>2 DEF Whole
<1>5. Len(req[r].saved) \in Nat /\ Len(basket) \in Nat
  BY <1>3, LenProperties
<1>6. Len(req[r].saved) + 1 \in 1..Len(basket)
  BY <1>4, <1>5
<1>7. next \in Item
  BY <1>3, <1>6, ElementOfSeq
<1>8. /\ saved \in Seq(Item) /\ Len(saved) = Len(req[r].saved) + 1
      /\ \A i \in 1..Len(req[r].saved) : saved[i] = req[r].saved[i]
      /\ saved[Len(req[r].saved) + 1] = next
  BY <1>3, <1>7, AppendProperties
<1>9. \A i \in 1..Len(saved) : saved[i] = basket[i]
  <2> SUFFICES ASSUME NEW i \in 1..Len(saved) PROVE saved[i] = basket[i]
    OBVIOUS
  <2> HIDE DEF saved
  <2>1. i \in 1..Len(req[r].saved) \/ i = Len(req[r].saved) + 1
    BY <1>5, <1>8
  <2> QED  BY <1>4, <1>8, <2>1
<1>10. saved # basket => Len(saved) < Len(basket)
  <2> SUFFICES ASSUME Len(saved) = Len(basket) PROVE saved = basket
    BY <1>4, <1>5, <1>8
  <2> HIDE DEF saved, basket
  <2> QED  BY <1>3, <1>8, <1>9, SeqEqual
<1>11. at \in {"commit", "items"} /\ (at = "commit" <=> saved = basket)
  OBVIOUS
<1> HIDE DEF saved, at
<1>12. /\ l \in Req /\ l.at = at /\ l.row = req[r].row
       /\ l.basket = basket /\ l.saved = saved
  BY <1>2, <1>8, <1>11 DEF Req
<1> HIDE DEF l
<1>13. Ready(l)
  BY <1>2, <1>11, <1>12 DEF Ready
<1>14. Whole(r, l)
  BY <1>1, <1>2, <1>9, <1>10, <1>11, <1>12 DEF Whole
<1> QED  BY <1>1, <1>12, <1>13, <1>14, QuietStep

LEMMA CommitKeeps ==
    ASSUME OrderInv, NEW r \in Request, Commit(r)
    PROVE  OrderInv'
<1>1. /\ req[r].at = "commit" /\ Ends(r)
      /\ order' = [order EXCEPT ![r] = req[r].saved] /\ UNCHANGED <<product, payment, mixed>>
  BY DEF Commit
<1>2. req[r] \in Req /\ Whole(r, req[r])
  BY DEF OrderInv, TypeOK
<1>3. PICK l \in Req : /\ req' = [req EXCEPT ![r] = l] /\ Ready(l)
                       /\ l.at = "end" /\ l.basket = req[r].basket
  BY <1>1, EndedReq
<1>4. order' \in [Request -> OrderRow] /\ order'[r] = req[r].saved
  BY <1>1, <1>2 DEF OrderInv, TypeOK, Req, OrderRow
<1>5. Whole(r, l)'
  BY <1>1, <1>2, <1>3, <1>4 DEF Whole
<1>6. StockNeverNegative'
  BY <1>1 DEF OrderInv, StockNeverNegative
<1> QED  BY <1>1, <1>3, <1>4, <1>5, <1>6, OrderStep DEF OrderInv, TypeOK

\* An edit sets a stock of its own, keeps the one it loaded, or writes 0.
LEMMA SaveEditKeeps ==
    ASSUME OrderInv, NEW r \in Request, SaveUpdate(r) \/ SaveDeactivate(r)
    PROVE  OrderInv'
<1>1. req[r] \in Req /\ Ready(req[r]) /\ Whole(r, req[r])
  BY DEF OrderInv, TypeOK
<1>2. /\ req[r].p \in Product /\ req[r].row \in ProductRow
      /\ req[r].row.stock # None => req[r].row.stock >= 0
  BY <1>1 DEF Ready, Req, SaveUpdate, SaveDeactivate
<1>3. PICK row \in ProductRow : /\ product' = [product EXCEPT ![req[r].p] = row]
                                /\ row.stock # None => row.stock >= 0
  <2>1. CASE SaveDeactivate(r)
    <3> DEFINE row == [req[r].row EXCEPT !.active = FALSE]
    <3>1. row \in ProductRow /\ row.stock = req[r].row.stock
      BY <1>2 DEF ProductRow
    <3> QED  BY <1>2, <2>1, <3>1 DEF SaveDeactivate, Save
  <2>2. CASE SaveUpdate(r)
    <3> DEFINE e == req[r].edit
               row == Edited(req[r].row, e)
    <3>1. e \in UpdateProductDto
      BY <1>1, <2>2, CatalogAssumption DEF Ready, SaveUpdate
    <3> DEFINE type == IF e.type = None THEN req[r].row.type ELSE e.type
               stock == IF e.stock # Same THEN e.stock
                        ELSE IF e.type \notin {None, "physical"} THEN 0 ELSE req[r].row.stock
    <3>2. type \in {"physical", "digital"}
      BY <1>2, <3>1 DEF UpdateProductDto, ProductRow
    <3>3. stock \in StockType /\ (stock # None => stock >= 0)
      BY <1>2, <3>1 DEF UpdateProductDto, ProductRow, StockType
    <3>4. row = [req[r].row EXCEPT !.type = type, !.stock = stock]
      BY DEF Edited
    <3> HIDE DEF type, stock, row
    <3>5. row \in ProductRow /\ row.stock = stock
      BY <1>2, <3>2, <3>3, <3>4 DEF ProductRow
    <3>6. product' = [product EXCEPT ![req[r].p] = row]
      BY <2>2 DEF SaveUpdate, row
    <3> QED  BY <3>3, <3>5, <3>6
  <2> QED  BY <2>1, <2>2
<1>4. product' \in [Product -> ProductRow] /\ StockNeverNegative'
  BY <1>2, <1>3, SavedStock
<1>5. /\ Ends(r) /\ order' = order /\ payment' = payment /\ mixed' \subseteq Product
  BY <1>2 DEF SaveUpdate, SaveDeactivate, Save, OrderInv, TypeOK
<1>6. PICK l \in Req : req' = [req EXCEPT ![r] = l] /\ Ready(l) /\ Whole(r, l)
  BY <1>5, EndedReq
<1>7. Whole(r, l)'
  BY <1>5, <1>6 DEF Whole
<1> QED  BY <1>4, <1>5, <1>6, <1>7, OrderStep DEF OrderInv, TypeOK

-----------------------------------------------------------------------------
LEMMA OrderInvariant == Spec => []OrderInv
<1>1. ASSUME OrderInv, [Next]_vars PROVE OrderInv'
  <2>1. CASE UNCHANGED vars
    <3> USE <2>1 DEF vars
    <3>1. TypeOK' /\ StockNeverNegative'
      BY <1>1 DEF OrderInv, TypeOK, StockNeverNegative
    <3>2. \A r \in Request : (Ready(req[r]) /\ Whole(r, req[r]))'
      BY <1>1 DEF OrderInv, Ready, Whole
    <3> QED  BY <3>1, <3>2 DEF OrderInv
  <2>2. CASE Next
    <3> SUFFICES ASSUME NEW r \in Request,
                        \/ OrderEndpoints(r) \/ ProductEndpoints(r)
                        \/ CheckItem(r) \/ ReadInventory(r) \/ TakeInventory(r)
                        \/ CreatePayment(r) \/ SaveOrder(r) \/ SaveItem(r) \/ Commit(r)
                        \/ SaveUpdate(r) \/ SaveDeactivate(r)
                        \/ Fails(r)
                 PROVE  OrderInv'
      BY <2>2 DEF Next
    <3>1. CASE OrderEndpoints(r)
      BY <1>1, <3>1, CreateKeeps DEF OrderEndpoints
    <3>2. CASE ProductEndpoints(r)
      <4>1. PICK p \in Product : \/ StartEdit(r, p, "deactivate", None)
                                 \/ \E edit \in Edit : StartEdit(r, p, "update", edit)
        BY <3>2 DEF ProductEndpoints
      <4>2. CASE StartEdit(r, p, "deactivate", None)
        BY <1>1, <4>2, StartEditKeeps
      <4>3. CASE \E edit \in Edit : StartEdit(r, p, "update", edit)
        BY <1>1, <4>3, StartEditKeeps
      <4> QED  BY <4>1, <4>2, <4>3
    <3>3. CASE Fails(r)
      BY <1>1, <3>3, EndsQuietly DEF Fails
    <3>4. CASE CheckItem(r) \/ ReadInventory(r) \/ TakeInventory(r)
      BY <1>1, <3>4, CheckItemKeeps, ReadInventoryKeeps, TakeInventoryKeeps
    <3>5. CASE CreatePayment(r) \/ SaveOrder(r) \/ SaveItem(r) \/ Commit(r)
      BY <1>1, <3>5, CreatePaymentKeeps, SaveOrderKeeps, SaveItemKeeps, CommitKeeps
    <3>6. CASE SaveUpdate(r) \/ SaveDeactivate(r)
      BY <1>1, <3>6, SaveEditKeeps
    <3> QED  BY <3>1, <3>2, <3>3, <3>4, <3>5, <3>6
  <2> QED  BY <1>1, <2>1, <2>2
<1> QED  BY <1>1, OrderStart, PTL DEF Spec

\* Every variable keeps its type, for any catalog, baskets and edits.
THEOREM OrdersTypeCorrect == Spec => []TypeOK
<1>1. OrderInv => TypeOK
  BY DEF OrderInv
<1> QED  BY <1>1, OrderInvariant, PTL

\* updateInventory saves no negative stock, however stale the row it loaded
\* and whatever its merchant saves in between.
THEOREM StockStaysNonNegative == Spec => []StockNeverNegative
<1>1. OrderInv => StockNeverNegative
  BY DEF OrderInv
<1> QED  BY <1>1, OrderInvariant, PTL

\* An order row that others can see has all its items and a payment, wherever
\* a request fails or its process dies.
THEOREM OrdersStayWhole == Spec => []OrdersAreWhole
<1>1. OrderInv => OrdersAreWhole
  BY DEF OrderInv, OrdersAreWhole, Whole
<1> QED  BY <1>1, OrderInvariant, PTL
-----------------------------------------------------------------------------
(* Sums over finite sets, which the library defines by choosing an element. *)

\* The element the library takes out first, and its partial sums of f over S.
First(s) == CHOOSE x \in s : TRUE
Adds(it, f, S) ==
    it = [s \in SUBSET S |-> IF s = {} THEN 0 ELSE f[First(s)] + it[s \ {First(s)}]]

\* If the partial sums exist, the library's sum is the last of them.
LEMMA SumFolds ==
    ASSUME NEW f, NEW S, NEW it0, Adds(it0, f, S)
    PROVE  \E it : Adds(it, f, S) /\ SumFunctionOnSet(f, S) = it[S]
BY DEF Adds, First, SumFunctionOnSet, FoldFunctionOnSet, MapThenFoldSet

\* A set of naturals has a least element.
LEMMA LeastOf ==
    ASSUME NEW T \in SUBSET Nat, T # {}
    PROVE  \E i \in T : \A j \in T : i <= j
<1> DEFINE R == OpToRel(<, Nat)
<1>1. IsWellFoundedOn(R, Nat)
  BY NatLessThanWellFounded
<1>2. \A x, y \in Nat : x < y => <<x, y>> \in R
  BY DEF OpToRel
<1> HIDE DEF R
<1>3. PICK i \in T : \A j \in T : ~(<<j, i>> \in R)
  BY <1>1, WFMin, Zenon
<1>4. ASSUME NEW j \in T PROVE i <= j
  <2>1. ~(j < i)
    BY <1>2, <1>3
  <2> QED  BY <2>1
<1> QED  BY <1>4

\* Of a family of parts of a finite set, one has no element whose removal stays
\* in the family: this takes the place of induction over finite sets.
LEMMA SmallestSet ==
    ASSUME NEW S, IsFiniteSet(S), NEW B \in SUBSET SUBSET S, B # {}
    PROVE  \E T \in B : \A x \in T : T \ {x} \notin B
<1> DEFINE size == {Cardinality(T) : T \in B}
<1>1. ASSUME NEW T \in SUBSET S
      PROVE  /\ Cardinality(T) \in Nat
             /\ \A x \in T : Cardinality(T \ {x}) = Cardinality(T) - 1
  <2>1. IsFiniteSet(T)
    BY FS_Subset
  <2> QED  BY <2>1, FS_CardinalityType, FS_RemoveElement
<1>2. size \subseteq Nat /\ size # {}
  BY <1>1
<1>3. PICK i \in size : \A j \in size : i <= j
  BY <1>2, LeastOf, Zenon
<1>4. PICK T \in B : Cardinality(T) = i
  OBVIOUS
<1>5. ASSUME NEW x \in T, T \ {x} \in B PROVE FALSE
  <2>1. i <= i - 1 /\ i \in Nat
    BY <1>1, <1>2, <1>3, <1>4, <1>5
  <2> QED  BY <2>1
<1> QED  BY <1>5

\* The partial sums exist: those of sets of n elements from those of n - 1.
LEMMA SumExists ==
    ASSUME NEW f, NEW S, IsFiniteSet(S)
    PROVE  \E it : Adds(it, f, S)
<1> DEFINE upTo(n) == {s \in SUBSET S : Cardinality(s) <= n}
           adds(it, n) ==
               it = [s \in upTo(n) |-> IF s = {} THEN 0 ELSE f[First(s)] + it[s \ {First(s)}]]
           bad == {n \in Nat : ~\E it : adds(it, n)}
<1>1. ASSUME NEW s \in SUBSET S
      PROVE  /\ Cardinality(s) \in Nat /\ Cardinality(s) <= Cardinality(S)
             /\ s # {} => /\ First(s) \in s
                          /\ Cardinality(s \ {First(s)}) = Cardinality(s) - 1
             /\ Cardinality(s) = 0 => s = {}
  <2>1. IsFiniteSet(s) /\ Cardinality(s) <= Cardinality(S)
    BY FS_Subset
  <2>2. s # {} => First(s) \in s
    BY DEF First
  <2> QED  BY <2>1, <2>2, FS_CardinalityType, FS_RemoveElement, FS_EmptySet
<1>2. Cardinality(S) \in Nat /\ upTo(Cardinality(S)) = SUBSET S
  BY <1>1, FS_CardinalityType
<1>3. bad = {}
  <2> SUFFICES ASSUME bad # {} PROVE FALSE
    OBVIOUS
  <2>1. PICK n \in bad : \A m \in bad : n <= m
    <3>1. bad \subseteq Nat
      OBVIOUS
    <3> HIDE DEF bad
    <3> QED  BY <3>1, LeastOf
  <2>2. ASSUME NEW it,
               \A s \in upTo(n) : s # {} =>
                   LET rest == s \ {First(s)} IN
                   it[rest] = IF rest = {} THEN 0 ELSE f[First(rest)] + it[rest \ {First(rest)}]
        PROVE  FALSE
    <3> DEFINE h == [s \in upTo(n) |-> IF s = {} THEN 0 ELSE f[First(s)] + it[s \ {First(s)}]]
    <3>1. ASSUME NEW s \in upTo(n), s # {} PROVE h[s \ {First(s)}] = it[s \ {First(s)}]
      <4>1. s \ {First(s)} \in upTo(n)
        BY <1>1, <3>1
      <4> QED  BY <2>2, <3>1, <4>1
    <3>2. h = [s \in upTo(n) |-> IF s = {} THEN 0 ELSE f[First(s)] + h[s \ {First(s)}]]
      BY <3>1
    <3> QED  BY <3>2
  <2>3. CASE n = 0
    <3>1. ASSUME NEW s \in upTo(n) PROVE s = {}
      <4>1. s \in SUBSET S /\ Cardinality(s) <= 0
        BY <2>3
      <4>2. Cardinality(s) \in Nat
        BY <1>1, <4>1
      <4>3. Cardinality(s) = 0
        BY <4>1, <4>2
      <4> QED  BY <1>1, <4>1, <4>3
    <3> QED  BY <2>2, <3>1
  <2>4. CASE n # 0
    <3>1. n - 1 \in Nat /\ n - 1 \notin bad
      <4>1. n \in Nat
        OBVIOUS
      <4> HIDE DEF bad
      <4> QED  BY <2>1, <2>4, <4>1
    <3>2. PICK it : adds(it, n - 1)
      BY <3>1
    <3>3. ASSUME NEW s \in upTo(n), s # {} PROVE s \ {First(s)} \in upTo(n - 1)
      BY <1>1, <3>3
    <3> QED  BY <2>2, <3>2, <3>3
  <2> QED  BY <2>3, <2>4
<1>4. PICK it : adds(it, Cardinality(S))
  BY <1>2, <1>3
<1> QED  BY <1>2, <1>4 DEF Adds

\* Partial sums compare as their functions do, whatever sets they are part of.
LEMMA PartsCompare ==
    ASSUME NEW f, NEW g, NEW S1, NEW S2, NEW it1, NEW it2, Adds(it1, f, S1), Adds(it2, g, S2),
           NEW T, IsFiniteSet(T), T \subseteq S1, T \subseteq S2,
           \A x \in T : f[x] \in Int /\ g[x] \in Int /\ f[x] <= g[x]
    PROVE  it1[T] \in Int /\ it2[T] \in Int /\ it1[T] <= it2[T]
<1> DEFINE bad == {U \in SUBSET T : ~(it1[U] \in Int /\ it2[U] \in Int /\ it1[U] <= it2[U])}
<1> SUFFICES ASSUME bad # {} PROVE FALSE
  OBVIOUS
<1>1. PICK U \in bad : \A x \in U : U \ {x} \notin bad
  <2>1. bad \in SUBSET SUBSET T
    OBVIOUS
  <2> HIDE DEF bad
  <2> QED  BY <2>1, SmallestSet
<1>2. U \in SUBSET S1 /\ U \in SUBSET S2 /\ U \subseteq T
  OBVIOUS
<1>3. /\ it1[U] = IF U = {} THEN 0 ELSE f[First(U)] + it1[U \ {First(U)}]
      /\ it2[U] = IF U = {} THEN 0 ELSE g[First(U)] + it2[U \ {First(U)}]
  BY <1>2 DEF Adds
<1>4. CASE U = {}
  BY <1>3, <1>4
<1>5. CASE U # {}
  <2>1. First(U) \in U
    BY <1>5 DEF First
  <2>2. U \ {First(U)} \notin bad
    BY <1>1, <2>1
  <2>3. /\ it1[U \ {First(U)}] \in Int /\ it2[U \ {First(U)}] \in Int
        /\ it1[U \ {First(U)}] <= it2[U \ {First(U)}]
    BY <1>2, <2>2
  <2>4. f[First(U)] \in Int /\ g[First(U)] \in Int /\ f[First(U)] <= g[First(U)]
    BY <1>2, <2>1
  <2>5. it1[U] \in Int /\ it2[U] \in Int /\ it1[U] <= it2[U]
    BY <1>3, <1>5, <2>3, <2>4
  <2> QED  BY <2>5
<1> QED  BY <1>4, <1>5

\* Any element may be taken out, not only the one the library takes.
LEMMA PartSplits ==
    ASSUME NEW f, NEW S, NEW it, Adds(it, f, S), IsFiniteSet(S), \A x \in S : f[x] \in Int
    PROVE  \A T \in SUBSET S : \A x \in T : it[T] = f[x] + it[T \ {x}]
<1> DEFINE bad == {T \in SUBSET S : \E x \in T : it[T] # f[x] + it[T \ {x}]}
<1> SUFFICES ASSUME bad # {} PROVE FALSE
  OBVIOUS
<1>1. PICK T \in bad : \A x \in T : T \ {x} \notin bad
  <2>1. bad \in SUBSET SUBSET S
    OBVIOUS
  <2> HIDE DEF bad
  <2> QED  BY <2>1, SmallestSet
<1>2. PICK x \in T : it[T] # f[x] + it[T \ {x}]
  OBVIOUS
<1> DEFINE c == First(T)
<1>3. c \in T /\ T \in SUBSET S
  BY <1>2 DEF First
<1> HIDE DEF bad
<1>4. it[T] = f[c] + it[T \ {c}]
  BY <1>3 DEF Adds
<1>5. x # c
  BY <1>2, <1>4
<1>6. it[T \ {c}] = f[x] + it[(T \ {c}) \ {x}]
  <2>1. T \ {c} \notin bad
    BY <1>1, <1>3
  <2> QED  BY <1>3, <1>5, <2>1 DEF bad
<1>7. it[T \ {x}] = f[c] + it[(T \ {x}) \ {c}]
  <2>1. T \ {x} \notin bad
    BY <1>1
  <2> QED  BY <1>3, <1>5, <2>1 DEF bad
<1>8. (T \ {c}) \ {x} = (T \ {x}) \ {c}
  OBVIOUS
<1>9. it[(T \ {x}) \ {c}] \in Int
  <2>1. (T \ {x}) \ {c} \subseteq S /\ IsFiniteSet((T \ {x}) \ {c})
    BY <1>3, FS_Subset
  <2>2. \A y \in (T \ {x}) \ {c} : f[y] \in Int /\ f[y] <= f[y]
    BY <2>1
  <2> QED  BY <2>1, <2>2, PartsCompare
<1>10. f[x] \in Int /\ f[c] \in Int
  BY <1>3
<1> DEFINE rest == it[(T \ {x}) \ {c}]
<1>11. it[T] = f[c] + (f[x] + rest) /\ it[T \ {x}] = f[c] + rest
  BY <1>4, <1>6, <1>7, <1>8
<1> HIDE DEF c, rest
<1>12. f[c] + (f[x] + rest) = f[x] + (f[c] + rest)
  BY <1>9, <1>10 DEF rest
<1> QED  BY <1>2, <1>11, <1>12

\* What the lemmas on partial sums say, of the library's sum.
LEMMA SumParts ==
    ASSUME NEW f, NEW S, IsFiniteSet(S)
    PROVE  \E it : Adds(it, f, S) /\ SumFunctionOnSet(f, S) = it[S]
BY SumExists, SumFolds

\* A sum of larger terms is at least as large.
LEMMA SumAtMost ==
    ASSUME NEW f, NEW g, NEW S, IsFiniteSet(S),
           \A x \in S : f[x] \in Int /\ g[x] \in Int /\ f[x] <= g[x]
    PROVE  /\ SumFunctionOnSet(f, S) \in Int /\ SumFunctionOnSet(g, S) \in Int
           /\ SumFunctionOnSet(f, S) <= SumFunctionOnSet(g, S)
<1>1. PICK it1 : Adds(it1, f, S) /\ SumFunctionOnSet(f, S) = it1[S]
  BY SumParts
<1>2. PICK it2 : Adds(it2, g, S) /\ SumFunctionOnSet(g, S) = it2[S]
  BY SumParts
<1> QED  BY <1>1, <1>2, PartsCompare

\* One term taken out of a sum.
LEMMA SumSplits ==
    ASSUME NEW f, NEW S, IsFiniteSet(S), \A x \in S : f[x] \in Int, NEW x \in S
    PROVE  SumFunctionOnSet(f, S) = f[x] + SumFunctionOnSet(f, S \ {x})
<1>1. PICK it : Adds(it, f, S) /\ SumFunctionOnSet(f, S) = it[S]
  BY SumParts
<1>2. IsFiniteSet(S \ {x})
  BY FS_Subset
<1>3. PICK jt : Adds(jt, f, S \ {x}) /\ SumFunctionOnSet(f, S \ {x}) = jt[S \ {x}]
  BY <1>2, SumParts
<1>4. it[S] = f[x] + it[S \ {x}]
  BY <1>1, PartSplits
<1>5. it[S \ {x}] = jt[S \ {x}]
  <2>1. S \ {x} \subseteq S /\ \A y \in S \ {x} : f[y] \in Int /\ f[y] <= f[y]
    OBVIOUS
  <2>2. it[S \ {x}] \in Int /\ jt[S \ {x}] \in Int /\ it[S \ {x}] <= jt[S \ {x}]
    BY <1>1, <1>2, <1>3, <2>1, PartsCompare
  <2>3. jt[S \ {x}] <= it[S \ {x}]
    BY <1>1, <1>2, <1>3, <2>1, PartsCompare
  <2> QED  BY <2>2, <2>3
<1> QED  BY <1>1, <1>3, <1>4, <1>5

\* The sum of no terms.
LEMMA SumOfNone == ASSUME NEW f PROVE SumFunctionOnSet(f, {}) = 0
<1>1. PICK it : Adds(it, f, {}) /\ SumFunctionOnSet(f, {}) = it[{}]
  BY SumParts, FS_EmptySet
<1> QED  BY <1>1 DEF Adds

\* Whole sums of naturals are at least their parts, and none is negative.
LEMMA SumOfPart ==
    ASSUME NEW f, NEW S, IsFiniteSet(S), \A x \in S : f[x] \in Nat, NEW T \in SUBSET S
    PROVE  /\ SumFunctionOnSet(f, S) \in Nat /\ SumFunctionOnSet(f, T) \in Nat
           /\ SumFunctionOnSet(f, T) <= SumFunctionOnSet(f, S)
<1>1. ASSUME NEW U \in SUBSET S PROVE SumFunctionOnSet(f, U) \in Nat
  <2>1. IsFiniteSet(U)
    BY FS_Subset
  <2>2. PICK it : Adds(it, f, U) /\ SumFunctionOnSet(f, U) = it[U]
    BY <2>1, SumParts
  <2> DEFINE zero == [x \in U |-> 0]
             none == [V \in SUBSET U |-> 0]
  <2>3. Adds(none, zero, U)
    <3>1. \A V \in SUBSET U : V # {} => First(V) \in V
      BY DEF First
    <3>2. \A V \in SUBSET U : none[V] = IF V = {} THEN 0 ELSE zero[First(V)] + none[V \ {First(V)}]
      BY <3>1
    <3> QED  BY <3>2 DEF Adds
  <2>4. \A x \in U : zero[x] \in Int /\ f[x] \in Int /\ zero[x] <= f[x]
    OBVIOUS
  <2>5. none[U] = 0
    OBVIOUS
  <2> HIDE DEF zero, none
  <2>6. it[U] \in Int /\ none[U] <= it[U]
    BY <2>1, <2>2, <2>3, <2>4, PartsCompare
  <2> QED  BY <2>2, <2>5, <2>6
<1> DEFINE bad == {U \in SUBSET S : T \subseteq U /\ ~(SumFunctionOnSet(f, T) <= SumFunctionOnSet(f, U))}
<1>2. bad = {}
  <2> SUFFICES ASSUME bad # {} PROVE FALSE
    OBVIOUS
  <2>1. PICK U \in bad : \A x \in U : U \ {x} \notin bad
    <3>1. bad \in SUBSET SUBSET S
      OBVIOUS
    <3> HIDE DEF bad
    <3> QED  BY <3>1, SmallestSet
  <2>2. U # T
    BY <1>1
  <2>3. PICK x \in U : x \notin T
    BY <2>2
  <2>4. U \ {x} \in SUBSET S /\ T \subseteq U \ {x} /\ U \in SUBSET S /\ IsFiniteSet(U)
    BY <2>3, FS_Subset
  <2>5. SumFunctionOnSet(f, T) <= SumFunctionOnSet(f, U \ {x})
    BY <2>1, <2>4
  <2>6. SumFunctionOnSet(f, U) = f[x] + SumFunctionOnSet(f, U \ {x})
    BY <2>4, SumSplits
  <2>7. f[x] \in Nat
    BY <2>4
  <2>8. SumFunctionOnSet(f, T) <= SumFunctionOnSet(f, U)
    BY <1>1, <2>4, <2>5, <2>6, <2>7
  <2> QED  BY <2>8
<1> QED  BY <1>1, <1>2

\* Sums of the same terms are the same.
LEMMA SumSame ==
    ASSUME NEW f, NEW g, NEW S, IsFiniteSet(S), \A x \in S : f[x] \in Int /\ f[x] = g[x]
    PROVE  SumFunctionOnSet(f, S) = SumFunctionOnSet(g, S)
<1>1. \A x \in S : g[x] \in Int /\ f[x] <= g[x] /\ g[x] <= f[x]
  OBVIOUS
<1>2. /\ SumFunctionOnSet(f, S) \in Int /\ SumFunctionOnSet(g, S) \in Int
      /\ SumFunctionOnSet(f, S) <= SumFunctionOnSet(g, S)
  BY <1>1, SumAtMost
<1>3. SumFunctionOnSet(g, S) <= SumFunctionOnSet(f, S)
  BY <1>1, SumAtMost
<1> QED  BY <1>2, <1>3

-----------------------------------------------------------------------------
(* What requests hold of a product.                                         *)

\* The quantities of the items.
Qty(items) == [i \in DOMAIN items |-> items[i].qty]

\* Units of product p among the first k items.
UnitsTo(items, k, p) == SumFunctionOnSet(Qty(items), {i \in 1..k : items[i].p = p})

\* Where a request is about to place an order.
Ordering == {"check", "read", "take", "pay", "order", "items", "commit"}

\* How many items of its basket a request has been through.
Been(l) == Len(l.basket) - Len(l.todo)

\* What a request at l holds of product p: the units of its order row, or what
\* it has been through of its basket while it still may place the order.
Held(l, items, p) ==
    IF items # None THEN Units(items, p)
    ELSE IF l.at \in Ordering THEN UnitsTo(l.basket, Been(l), p) ELSE 0

\* The loop is over what is left of the basket.
Along(l) ==
    /\ l.at \in {"check", "read", "take"} =>
          /\ Len(l.todo) <= Len(l.basket)
          /\ \A i \in 1..Len(l.todo) : l.todo[i] = l.basket[Been(l) + i]
    /\ l.at \in {"pay", "order", "items", "commit"} => l.todo = <<>>

\* The requests that were made: finitely many, however many there may be.
Begun == {r \in Request : req[r].at # "new"}

\* What each request holds of product p.
HeldOf(p) == [r \in Request |-> Held(req[r], order[r], p)]

\* Stock and what requests hold are never more than there was.
Kept(p) ==
    /\ product[p].type = "physical" /\ product[p].stock \in Int
    /\ product[p].stock + SumFunctionOnSet(HeldOf(p), Begun) <= Catalog[p].stock

SoldInv ==
    /\ IsFiniteSet(Begun)
    /\ \A r \in Request : Along(req[r])
    /\ \A p \in Product \ mixed : Tracked(p) => Kept(p)
-----------------------------------------------------------------------------
\* The units among the first items, one item after the other.
LEMMA UnitsAdd ==
    ASSUME NEW items \in Seq(Item), NEW k \in 0..Len(items), NEW p
    PROVE  /\ UnitsTo(items, k, p) \in Nat
           /\ UnitsTo(items, 0, p) = 0
           /\ UnitsTo(items, Len(items), p) = Units(items, p)
           /\ k < Len(items) =>
                 /\ k + 1 \in 1..Len(items)
                 /\ UnitsTo(items, k + 1, p) =
                        UnitsTo(items, k, p) + IF items[k + 1].p = p THEN items[k + 1].qty ELSE 0
<1> DEFINE of(n) == {i \in 1..n : items[i].p = p}
<1>1. Len(items) \in Nat /\ DOMAIN items = 1..Len(items) /\ \A i \in 1..Len(items) : items[i] \in Item
  BY LenProperties, ElementOfSeq
<1>2. \A i \in 1..Len(items) : Qty(items)[i] = items[i].qty /\ Qty(items)[i] \in Nat
  BY <1>1 DEF Qty, Item
<1>3. ASSUME NEW n \in 0..Len(items)
      PROVE  of(n) \subseteq 1..Len(items) /\ IsFiniteSet(of(n)) /\ UnitsTo(items, n, p) \in Nat
  <2>1. of(n) \subseteq 1..Len(items)
    BY <1>1
  <2>2. IsFiniteSet(1..Len(items))
    BY <1>1, FS_Interval
  <2>3. IsFiniteSet(of(n))
    BY <2>1, <2>2, FS_Subset
  <2>4. \A i \in of(n) : Qty(items)[i] \in Nat
    BY <1>2, <2>1
  <2> HIDE DEF of
  <2>5. SumFunctionOnSet(Qty(items), of(n)) \in Nat
    BY <2>3, <2>4, SumOfPart
  <2> QED  BY <2>1, <2>3, <2>5 DEF of, UnitsTo
<1>4. UnitsTo(items, 0, p) = 0
  <2>1. of(0) = {}
    OBVIOUS
  <2> QED  BY <2>1, SumOfNone DEF UnitsTo
<1>5. UnitsTo(items, Len(items), p) = Units(items, p)
  BY <1>1 DEF UnitsTo, Units, Qty
<1>6. ASSUME k < Len(items)
      PROVE  /\ k + 1 \in 1..Len(items)
             /\ UnitsTo(items, k + 1, p) =
                        UnitsTo(items, k, p) + IF items[k + 1].p = p THEN items[k + 1].qty ELSE 0
  <2>1. k + 1 \in 1..Len(items) /\ k + 1 \in 0..Len(items) /\ k + 1 \notin of(k)
    BY <1>1, <1>6
  <2>2. CASE items[k + 1].p # p
    <3>1. of(k + 1) = of(k)
      BY <1>1, <2>1, <2>2
    <3>2. UnitsTo(items, k + 1, p) = UnitsTo(items, k, p)
      BY <3>1 DEF UnitsTo
    <3>3. UnitsTo(items, k, p) \in Nat
      BY <1>3
    <3> QED  BY <2>1, <2>2, <3>2, <3>3
  <2>3. CASE items[k + 1].p = p
    <3>1. k + 1 \in of(k + 1) /\ of(k + 1) \ {k + 1} = of(k)
      BY <1>1, <2>1, <2>3
    <3>2. IsFiniteSet(of(k + 1)) /\ \A i \in of(k + 1) : Qty(items)[i] \in Int
      BY <1>2, <1>3, <2>1
    <3>3. Qty(items)[k + 1] = items[k + 1].qty /\ items[k + 1].qty \in Nat
      BY <1>2, <2>1
    <3> HIDE DEF of
    <3>4. SumFunctionOnSet(Qty(items), of(k + 1)) = Qty(items)[k + 1] + SumFunctionOnSet(Qty(items), of(k))
      BY <3>1, <3>2, SumSplits
    <3>5. UnitsTo(items, k, p) \in Nat
      BY <1>3
    <3> QED  BY <2>1, <2>3, <3>3, <3>4, <3>5 DEF UnitsTo, of
  <2> QED  BY <2>1, <2>2, <2>3
<1> QED  BY <1>3, <1>4, <1>5, <1>6

\* A request at l: what it has been through is a beginning of its basket.
LEMMA BeenThrough ==
    ASSUME NEW l \in Req, Ready(l), Along(l), l.at \in Ordering
    PROVE  /\ l.basket \in Seq(Item) /\ Been(l) \in 0..Len(l.basket)
           /\ l.at \in {"check", "read", "take"} =>
                 /\ Been(l) < Len(l.basket) /\ Head(l.todo) = l.basket[Been(l) + 1]
                 /\ Len(l.basket) - Len(Tail(l.todo)) = Been(l) + 1
                 /\ Len(Tail(l.todo)) <= Len(l.basket)
                 /\ \A i \in 1..Len(Tail(l.todo)) : Tail(l.todo)[i] = l.basket[Been(l) + 1 + i]
           /\ l.at \in {"pay", "order", "items", "commit"} => Been(l) = Len(l.basket)
<1>1. l.basket \in Seq(Item) /\ l.todo \in Seq(Item)
  BY EmptySeq, CatalogAssumption DEF Req, CreateOrderDto
<1>2. Len(l.basket) \in Nat /\ Len(l.todo) \in Nat
  BY <1>1, LenProperties
<1>3. CASE l.at \in {"check", "read", "take"}
  <2>1. l.todo # <<>> /\ Len(l.todo) <= Len(l.basket)
    BY <1>3 DEF Ready, Along
  <2>2. \A i \in 1..Len(l.todo) : l.todo[i] = l.basket[Been(l) + i]
    BY <1>3 DEF Along
  <2>3. Len(l.todo) >= 1
    BY <1>1, <1>2, <2>1, EmptySeq
  <2>4. /\ Tail(l.todo) \in Seq(Item) /\ Len(Tail(l.todo)) = Len(l.todo) - 1
        /\ Head(l.todo) = l.todo[1]
        /\ \A i \in 1..Len(Tail(l.todo)) : Tail(l.todo)[i] = l.todo[i + 1]
    BY <1>1, <2>1, HeadTailProperties
  <2>5. Head(l.todo) = l.basket[Been(l) + 1]
    BY <1>2, <2>2, <2>3, <2>4
  <2>6. /\ Been(l) \in Nat /\ Been(l) < Len(l.basket)
        /\ Len(l.basket) - (Len(l.todo) - 1) = Been(l) + 1 /\ Len(l.todo) - 1 <= Len(l.basket)
    <3>1. \A n, m \in Nat : m <= n /\ m >= 1 =>
              n - m \in Nat /\ n - m < n /\ n - (m - 1) = (n - m) + 1 /\ m - 1 <= n
      OBVIOUS
    <3>2. Len(l.todo) <= Len(l.basket)
      BY <2>1
    <3> QED  BY <1>2, <2>3, <3>1, <3>2, Zenon DEF Been
  <2>7. ASSUME NEW i \in 1..Len(Tail(l.todo)) PROVE Tail(l.todo)[i] = l.basket[Been(l) + 1 + i]
    <3>1. i + 1 \in 1..Len(l.todo) /\ Been(l) + (i + 1) = Been(l) + 1 + i
      BY <1>2, <2>4, <2>6
    <3> QED  BY <2>2, <2>4, <3>1
  <2>8. Been(l) \in 0..Len(l.basket)
    BY <1>2, <2>6
  <2>9. Len(l.basket) - Len(Tail(l.todo)) = Been(l) + 1 /\ Len(Tail(l.todo)) <= Len(l.basket)
    BY <2>4, <2>6
  <2> QED  BY <1>1, <1>3, <2>5, <2>6, <2>7, <2>8, <2>9
<1>4. CASE l.at \in {"pay", "order", "items", "commit"}
  <2>1. Len(l.todo) = 0
    BY <1>1, <1>4, EmptySeq DEF Along
  <2>2. Been(l) = Len(l.basket) - 0
    BY <2>1 DEF Been
  <2>3. Been(l) = Len(l.basket) /\ Been(l) \in 0..Len(l.basket)
    BY <1>2, <2>2
  <2> QED  BY <1>1, <1>4, <2>3
<1> QED  BY <1>3, <1>4 DEF Ordering

\* What a request holds is a number of units.
LEMMA HeldNat ==
    ASSUME NEW l \in Req, Ready(l), Along(l), NEW items \in OrderRow, NEW p
    PROVE  Held(l, items, p) \in Nat
<1>1. CASE items # None
  <2>1. items \in Seq(Item)
    BY <1>1 DEF OrderRow
  <2>2. Len(items) \in 0..Len(items)
    BY <2>1, LenProperties
  <2> QED  BY <1>1, <2>1, <2>2, UnitsAdd DEF Held
<1>2. CASE items = None /\ l.at \in Ordering
  BY <1>2, BeenThrough, UnitsAdd DEF Held
<1>3. CASE items = None /\ l.at \notin Ordering
  BY <1>3 DEF Held
<1> QED  BY <1>1, <1>2, <1>3

\* What a step of request r does to the sum of what all hold.
LEMMA HeldStep ==
    ASSUME OrderInv, OrderInv', SoldInv, NEW r \in Request, req'[r].at # "new", Along(req'[r]),
           \A s \in Request \ {r} : req'[s] = req[s] /\ order'[s] = order[s],
           NEW p \in Product
    PROVE  /\ IsFiniteSet(Begun')
           /\ SumFunctionOnSet(HeldOf(p), Begun) \in Int
           /\ SumFunctionOnSet(HeldOf(p), Begun)' =
                  SumFunctionOnSet(HeldOf(p), Begun) - Held(req[r], order[r], p)
                      + Held(req'[r], order'[r], p)
<1> DEFINE others == Begun \ {r}
           before == SumFunctionOnSet(HeldOf(p), others)
<1>1. /\ IsFiniteSet(Begun) /\ IsFiniteSet(others) /\ others \subseteq Request
      /\ Begun' = others \cup {r} /\ IsFiniteSet(Begun') /\ r \in Begun' /\ r \notin others
      /\ Begun' \ {r} = others
  <2>1. IsFiniteSet(Begun) /\ IsFiniteSet(others)
    BY FS_Subset DEF SoldInv
  <2>2. Begun' = others \cup {r}
    BY DEF Begun
  <2> QED  BY <2>1, <2>2, FS_AddElement DEF Begun
<1>2. /\ \A s \in Request : HeldOf(p)[s] \in Nat /\ HeldOf(p)'[s] \in Nat
      /\ \A s \in others : HeldOf(p)[s] = HeldOf(p)'[s]
      /\ HeldOf(p)[r] = Held(req[r], order[r], p)
      /\ HeldOf(p)'[r] = Held(req'[r], order'[r], p)
  <2>1. \A s \in Request : Along(req[s]) /\ Along(req'[s])
    BY DEF SoldInv
  <2>2. \A s \in Request : /\ req[s] \in Req /\ req'[s] \in Req /\ Ready(req[s]) /\ Ready(req'[s])
                           /\ order[s] \in OrderRow /\ order'[s] \in OrderRow
    BY DEF OrderInv, TypeOK, Ready
  <2>3. \A s \in Request : Held(req[s], order[s], p) \in Nat /\ Held(req'[s], order'[s], p) \in Nat
    BY <2>1, <2>2, HeldNat
  <2> QED  BY <1>1, <2>3 DEF HeldOf
<1>3. SumFunctionOnSet(HeldOf(p), others) = SumFunctionOnSet(HeldOf(p)', others)
  BY <1>1, <1>2, SumSame
<1>4. before \in Nat
  BY <1>1, <1>2, SumOfPart
<1>5. SumFunctionOnSet(HeldOf(p)', Begun') = HeldOf(p)'[r] + SumFunctionOnSet(HeldOf(p)', others)
  <2>1. \A s \in Begun' : HeldOf(p)'[s] \in Int
    BY <1>1, <1>2
  <2> QED  BY <1>1, <2>1, SumSplits
<1>6. SumFunctionOnSet(HeldOf(p), Begun) = HeldOf(p)[r] + before
  <2>1. CASE r \in Begun
    <3>1. \A s \in Begun : HeldOf(p)[s] \in Int
      BY <1>2 DEF Begun
    <3> QED  BY <1>1, <2>1, <3>1, SumSplits
  <2>2. CASE r \notin Begun
    <3>1. others = Begun /\ req[r].at = "new"
      BY <2>2 DEF Begun
    <3>2. order[r] = None
      BY <3>1 DEF OrderInv, Whole
    <3>3. HeldOf(p)[r] = 0
      BY <1>2, <3>1, <3>2 DEF Held, Ordering
    <3> QED  BY <1>4, <3>1, <3>3
  <2> QED  BY <2>1, <2>2
<1>7. HeldOf(p)[r] \in Nat /\ HeldOf(p)'[r] \in Nat
  BY <1>2
<1> HIDE DEF before, others
<1> QED  BY <1>1, <1>2, <1>3, <1>4, <1>5, <1>6, <1>7 DEF before

\* A step of request r that leaves no product with more than its stock and what
\* r holds of it came to.
LEMMA SoldStep ==
    ASSUME OrderInv, OrderInv', SoldInv, NEW r \in Request, req'[r].at # "new", Along(req'[r]),
           \A s \in Request \ {r} : req'[s] = req[s] /\ order'[s] = order[s],
           mixed \subseteq mixed',
           \A p \in Product \ mixed' : Tracked(p) =>
              /\ product'[p].type = "physical" /\ product'[p].stock \in Int
              /\ product'[p].stock + Held(req'[r], order'[r], p)
                     <= product[p].stock + Held(req[r], order[r], p)
    PROVE  SoldInv'
<1>1. IsFiniteSet(Begun)'
  <2>1. Begun' \subseteq Begun \cup {r}
    BY DEF Begun
  <2> QED  BY <2>1, FS_AddElement, FS_Subset DEF SoldInv
<1>2. \A s \in Request : Along(req'[s])
  BY DEF SoldInv
<1>3. ASSUME NEW p \in Product \ mixed', Tracked(p) PROVE Kept(p)'
  <2>1. Kept(p)
    BY <1>3 DEF SoldInv
  <2>2. /\ SumFunctionOnSet(HeldOf(p), Begun) \in Int
        /\ SumFunctionOnSet(HeldOf(p), Begun)' =
               SumFunctionOnSet(HeldOf(p), Begun) - Held(req[r], order[r], p)
                   + Held(req'[r], order'[r], p)
    BY HeldStep
  <2>3. Held(req[r], order[r], p) \in Nat /\ Held(req'[r], order'[r], p) \in Nat
    <3>1. /\ req[r] \in Req /\ req'[r] \in Req /\ Ready(req[r]) /\ Ready(req'[r])
          /\ order[r] \in OrderRow /\ order'[r] \in OrderRow /\ Along(req[r])
      BY DEF OrderInv, TypeOK, Ready, SoldInv
    <3> QED  BY <3>1, HeldNat
  <2>4. product[p].stock \in Int /\ Catalog[p].stock \in Int
    BY <1>3, <2>1, CatalogAssumption DEF Kept, Tracked
  <2>5. /\ product'[p].type = "physical" /\ product'[p].stock \in Int
        /\ product'[p].stock + Held(req'[r], order'[r], p)
               <= product[p].stock + Held(req[r], order[r], p)
    BY <1>3
  <2>6. product[p].stock + SumFunctionOnSet(HeldOf(p), Begun) <= Catalog[p].stock
    BY <2>1 DEF Kept
  <2>7. product'[p].stock + SumFunctionOnSet(HeldOf(p), Begun)' <= Catalog[p].stock
    BY <2>2, <2>3, <2>4, <2>5, <2>6
  <2> QED  BY <2>5, <2>7 DEF Kept
<1>4. \A s \in Request : Along(req[s])'
  BY <1>2 DEF Along, Been
<1> QED  BY <1>1, <1>3, <1>4 DEF SoldInv, Tracked

\* A step that changes no product, and by which r comes to hold no more.
LEMMA NoMoreHeld ==
    ASSUME OrderInv, OrderInv', SoldInv, NEW r \in Request, req'[r].at # "new", Along(req'[r]),
           \A s \in Request \ {r} : req'[s] = req[s] /\ order'[s] = order[s],
           UNCHANGED <<product, mixed>>,
           \A p \in Product \ mixed : Tracked(p) =>
              Held(req'[r], order'[r], p) <= Held(req[r], order[r], p)
    PROVE  SoldInv'
<1>1. ASSUME NEW p \in Product \ mixed', Tracked(p)
      PROVE  /\ product'[p].type = "physical" /\ product'[p].stock \in Int
             /\ product'[p].stock + Held(req'[r], order'[r], p)
                    <= product[p].stock + Held(req[r], order[r], p)
  <2>1. /\ product'[p] = product[p] /\ product[p].type = "physical" /\ product[p].stock \in Int
        /\ Held(req'[r], order'[r], p) <= Held(req[r], order[r], p)
    BY <1>1 DEF SoldInv, Kept
  <2>2. Held(req[r], order[r], p) \in Nat /\ Held(req'[r], order'[r], p) \in Nat
    <3>1. /\ req[r] \in Req /\ req'[r] \in Req /\ Ready(req[r]) /\ Ready(req'[r])
          /\ order[r] \in OrderRow /\ order'[r] \in OrderRow /\ Along(req[r])
      BY DEF OrderInv, TypeOK, Ready, SoldInv
    <3> QED  BY <3>1, HeldNat
  <2> QED  BY <2>1, <2>2
<1> QED  BY <1>1, SoldStep

\* A request that has not ended and ends without an order holds nothing.
LEMMA EndHolds ==
    ASSUME OrderInv, NEW r \in Request, req[r].at # "end", Ends(r)
    PROVE  /\ req'[r].at = "end" /\ \A s \in Request \ {r} : req'[s] = req[s]
           /\ Along(req'[r]) /\ order[r] = None
           /\ \A p : Held(req'[r], None, p) = 0
<1>1. req'[r].at = "end" /\ \A s \in Request \ {r} : req'[s] = req[s]
  BY DEF OrderInv, TypeOK, Ends, Req
<1>2. order[r] = None
  BY DEF OrderInv, Whole
<1> QED  BY <1>1, <1>2 DEF Along, Held, Ordering

\* A request that ends changes no product and gives up what it held.
LEMMA EndSold ==
    ASSUME OrderInv, OrderInv', SoldInv, NEW r \in Request, req[r].at # "end", Ends(r),
           UNCHANGED <<product, order, mixed>>
    PROVE  SoldInv'
<1>1. /\ req'[r].at = "end" /\ \A s \in Request \ {r} : req'[s] = req[s]
      /\ Along(req'[r]) /\ order'[r] = None
      /\ \A p : Held(req'[r], order'[r], p) = 0
  BY EndHolds
<1>2. \A p : Held(req[r], order[r], p) \in Nat
  BY HeldNat DEF OrderInv, TypeOK, SoldInv
<1>3. \A p : Held(req'[r], order'[r], p) <= Held(req[r], order[r], p)
  BY <1>1, <1>2
<1> QED  BY <1>1, <1>3, NoMoreHeld

\* A request whose loop goes on from an item: what that adds to what it holds.
LEMMA NextHolds ==
    ASSUME OrderInv, SoldInv, NEW r \in Request, req[r].at \in {"check", "read", "take"}, NextItem(r)
    PROVE  /\ req'[r].at # "new" /\ \A s \in Request \ {r} : req'[s] = req[s]
           /\ Along(req'[r])
           /\ \A p : Held(req'[r], order[r], p) =
                         Held(req[r], order[r], p)
                             + IF Head(req[r].todo).p = p THEN Head(req[r].todo).qty ELSE 0
<1> DEFINE l == req[r]
           rest == Tail(l.todo)
           at == IF rest = <<>> THEN "pay" ELSE "check"
<1>1. l \in Req /\ Ready(l) /\ Along(l) /\ l.at \in Ordering /\ order[r] = None
  BY DEF OrderInv, TypeOK, SoldInv, Ordering, Whole
<1>2. /\ l.basket \in Seq(Item) /\ Been(l) \in 0..Len(l.basket) /\ Been(l) < Len(l.basket)
      /\ Head(l.todo) = l.basket[Been(l) + 1]
      /\ Len(l.basket) - Len(rest) = Been(l) + 1 /\ Len(rest) <= Len(l.basket)
      /\ \A i \in 1..Len(rest) : rest[i] = l.basket[Been(l) + 1 + i]
  BY <1>1, BeenThrough
<1>3. /\ req'[r].at = at /\ req'[r].basket = l.basket /\ req'[r].todo = rest
      /\ \A s \in Request \ {r} : req'[s] = req[s]
  BY DEF OrderInv, TypeOK, NextItem, Goes, Req
<1>4. at \in {"pay", "check"} /\ (at = "pay" => rest = <<>>)
  OBVIOUS
<1> HIDE DEF rest, at
<1>5. Been(req'[r]) = Been(l) + 1
  BY <1>2, <1>3 DEF Been
<1>6. Along(req'[r])
  BY <1>2, <1>3, <1>4, <1>5 DEF Along
<1>7. ASSUME NEW p
      PROVE  Held(req'[r], order[r], p) = Held(l, order[r], p)
                 + IF Head(l.todo).p = p THEN Head(l.todo).qty ELSE 0
  <2>1. /\ Held(req'[r], order[r], p) = UnitsTo(l.basket, Been(l) + 1, p)
        /\ Held(l, order[r], p) = UnitsTo(l.basket, Been(l), p)
    BY <1>1, <1>3, <1>4, <1>5 DEF Held, Ordering
  <2> QED  BY <1>2, <2>1, UnitsAdd
<1> QED  BY <1>3, <1>4, <1>6, <1>7

\* An item of a product whose stock is not counted is passed over.
LEMMA PassSold ==
    ASSUME OrderInv, OrderInv', SoldInv, NEW r \in Request,
           req[r].at \in {"check", "read"}, NextItem(r), UNCHANGED <<product, order, mixed>>,
           \/ product[Head(req[r].todo).p].stock = None
           \/ product[Head(req[r].todo).p].type # "physical"
    PROVE  SoldInv'
<1> DEFINE item == Head(req[r].todo)
<1>1. ASSUME NEW p \in Product \ mixed, Tracked(p)
      PROVE  Held(req'[r], order'[r], p) <= Held(req[r], order[r], p)
  <2>1. p # item.p
    BY <1>1, CatalogAssumption DEF SoldInv, Kept
  <2>2. Held(req[r], order[r], p) \in Nat
    BY HeldNat DEF OrderInv, TypeOK, SoldInv
  <2>3. Held(req'[r], order[r], p) = Held(req[r], order[r], p) + 0
    BY <2>1, NextHolds
  <2> QED  BY <2>2, <2>3
<1>2. /\ req'[r].at # "new" /\ \A s \in Request \ {r} : req'[s] = req[s]
      /\ Along(req'[r])
  BY NextHolds
<1> QED  BY <1>1, <1>2, NoMoreHeld

\* A request that goes on with the same items to do holds what it held.
LEMMA SameSold ==
    ASSUME OrderInv, OrderInv', SoldInv, NEW r \in Request, NEW at, NEW saved,
           \/ req[r].at \in {"check", "read"} /\ at \in {"read", "take"}
           \/ req[r].at \in {"pay", "order", "items"} /\ at \in {"order", "items", "commit"},
           req'[r].at = at, req'[r].basket = req[r].basket, req'[r].todo = req[r].todo,
           \A s \in Request \ {r} : req'[s] = req[s],
           UNCHANGED <<product, order, mixed>>
    PROVE  SoldInv'
<1>1. Been(req'[r]) = Been(req[r]) /\ req[r].at \in Ordering /\ at \in Ordering /\ at # "new"
  BY DEF Been, Ordering
<1>2. Along(req'[r])
  BY <1>1 DEF SoldInv, Along
<1>3. \A p : Held(req'[r], order'[r], p) = Held(req[r], order[r], p)
  BY <1>1 DEF Held
<1>4. \A p : Held(req[r], order[r], p) \in Nat
  BY HeldNat DEF OrderInv, TypeOK, SoldInv
<1>5. \A p : Held(req'[r], order'[r], p) <= Held(req[r], order[r], p)
  BY <1>3, <1>4
<1> QED  BY <1>1, <1>2, <1>5, NoMoreHeld

\* A request that begins holds nothing.
LEMMA BeginSold ==
    ASSUME OrderInv, OrderInv', SoldInv, NEW r \in Request, req[r].at = "new",
           \/ \E basket \in Basket : Create(r, basket)
           \/ \E p \in Product, edit \in Edit \cup {None} :
                  StartEdit(r, p, "update", edit) \/ StartEdit(r, p, "deactivate", edit)
    PROVE  SoldInv'
<1>1. order[r] = None /\ \A p : Held(req[r], order[r], p) \in Nat
  BY HeldNat DEF OrderInv, TypeOK, SoldInv, Whole
<1>2. UNCHANGED <<product, order, mixed>>
  BY DEF Create, StartEdit
<1>3. CASE Ends(r)
  BY <1>2, <1>3, EndSold
<1>4. ASSUME \A s \in Request \ {r} : req'[s] = req[s], req'[r].at # "new", Along(req'[r]),
             \A p : Held(req'[r], order[r], p) = 0
      PROVE  SoldInv'
  <2>1. \A p : Held(req'[r], order'[r], p) <= Held(req[r], order[r], p)
    BY <1>1, <1>2, <1>4
  <2> QED  BY <1>2, <1>4, <2>1, NoMoreHeld
<1>5. ASSUME NEW basket \in Basket, Create(r, basket) PROVE SoldInv'
  <2> DEFINE at == IF basket = <<>> THEN "pay" ELSE "check"
  <2>1. basket \in Seq(Item) /\ Len(basket) \in Nat
    BY LenProperties, CatalogAssumption DEF CreateOrderDto
  <2>2. at \in {"check", "pay"} /\ (at = "pay" => basket = <<>>)
    OBVIOUS
  <2>3. /\ req'[r].at = at /\ req'[r].basket = basket /\ req'[r].todo = basket
        /\ \A s \in Request \ {r} : req'[s] = req[s]
    BY <1>5 DEF Create, Goes, OrderInv, TypeOK, NewReq
  <2> HIDE DEF at
  <2>4. Been(req'[r]) = 0
    BY <2>1, <2>3 DEF Been
  <2>5. \A i \in 1..Len(basket) : basket[i] = basket[0 + i]
    BY <2>1
  <2>6. Along(req'[r])
    BY <2>1, <2>2, <2>3, <2>4, <2>5 DEF Along
  <2>7. ASSUME NEW p PROVE Held(req'[r], order[r], p) = 0
    <3>1. Held(req'[r], order[r], p) = UnitsTo(basket, 0, p)
      BY <1>1, <2>2, <2>3, <2>4 DEF Held, Ordering
    <3>2. 0 \in 0..Len(basket)
      BY <2>1
    <3> QED  BY <2>1, <3>1, <3>2, UnitsAdd
  <2>8. req'[r].at # "new"
    BY <2>2, <2>3
  <2> QED  BY <1>4, <2>3, <2>6, <2>7, <2>8
<1>6. ASSUME NEW p \in Product, NEW edit, NEW at \in {"update", "deactivate"},
             StartEdit(r, p, at, edit), ~Ends(r)
      PROVE  SoldInv'
  <2>1. req \in [Request -> Req]
    BY DEF OrderInv, TypeOK
  <2>2. req'[r].at = at /\ \A s \in Request \ {r} : req'[s] = req[s]
    <3> DEFINE l == [NewReq EXCEPT !.at = at, !.p = p, !.row = product[p], !.edit = edit]
    <3>1. req' = [req EXCEPT ![r] = l]
      BY <1>6 DEF StartEdit, Goes
    <3>2. l.at = at
      BY DEF NewReq
    <3> HIDE DEF l
    <3> QED  BY <2>1, <3>1, <3>2
  <2>3. Along(req'[r]) /\ \A q : Held(req'[r], order[r], q) = 0
    BY <1>1, <2>2 DEF Along, Held, Ordering
  <2> QED  BY <1>4, <2>2, <2>3
<1> QED  BY <1>3, <1>5, <1>6

\* Looking at a product takes nothing from it.
LEMMA LookSold ==
    ASSUME OrderInv, OrderInv', SoldInv, NEW r \in Request, CheckItem(r) \/ ReadInventory(r)
    PROVE  SoldInv'
<1> DEFINE item == Head(req[r].todo)
<1>1. req[r].at \in {"check", "read"} /\ UNCHANGED <<product, order, mixed>> /\ req[r].at # "end"
  BY DEF CheckItem, ReadInventory
<1>2. CASE Ends(r)
  BY <1>1, <1>2, EndSold
<1>3. CASE NextItem(r) /\ (product[item.p].stock = None \/ product[item.p].type # "physical")
  BY <1>1, <1>3, PassSold
<1>4. CASE Goes(r, [req[r] EXCEPT !.at = "read"])
  <2>1. /\ req'[r].at = "read" /\ req'[r].basket = req[r].basket /\ req'[r].todo = req[r].todo
        /\ \A s \in Request \ {r} : req'[s] = req[s]
    BY <1>4 DEF Goes, OrderInv, TypeOK, Req
  <2> QED  BY <1>1, <2>1, SameSold
<1>5. CASE Goes(r, [req[r] EXCEPT !.at = "take", !.row = product[item.p]])
  <2>1. req \in [Request -> Req]
    BY DEF OrderInv, TypeOK
  <2>2. /\ req'[r].at = "take" /\ req'[r].basket = req[r].basket /\ req'[r].todo = req[r].todo
        /\ \A s \in Request \ {r} : req'[s] = req[s]
    BY <1>5, <2>1 DEF Goes, Req
  <2> QED  BY <1>1, <2>2, SameSold
<1> QED  BY <1>2, <1>3, <1>4, <1>5 DEF CheckItem, ReadInventory

\* What is taken from a stock that is not saved over goes to the request.
LEMMA TakeSold ==
    ASSUME OrderInv, OrderInv', SoldInv, NEW r \in Request, TakeInventory(r)
    PROVE  SoldInv'
<1> DEFINE item == Head(req[r].todo)
           left == req[r].row.stock - item.qty
           row == [req[r].row EXCEPT !.stock = left]
<1>1. /\ req[r].at = "take" /\ order' = order
      /\ product' = [product EXCEPT ![item.p] = row]
      /\ mixed' = IF product[item.p] = req[r].row THEN mixed ELSE mixed \cup {item.p}
      /\ Ends(r) \/ NextItem(r)
  BY DEF TakeInventory, Save
<1>2. item \in Item
  BY <1>1, ItemTyped
<1>3. req[r].row \in ProductRow /\ req[r].row.stock \in Int
  BY <1>1 DEF OrderInv, TypeOK, Req, Ready
<1>4. left \in Int /\ row.stock = left /\ row.type = req[r].row.type
  BY <1>2, <1>3 DEF Item, ProductRow
<1>5. \A p : Held(req[r], order[r], p) \in Nat
  BY HeldNat DEF OrderInv, TypeOK, SoldInv
<1>6. /\ req'[r].at # "new" /\ Along(req'[r])
      /\ \A s \in Request \ {r} : req'[s] = req[s] /\ order'[s] = order[s]
  BY <1>1, EndHolds, NextHolds
<1>7. \A p : \/ Held(req'[r], order'[r], p) = 0
             \/ Held(req'[r], order'[r], p) = Held(req[r], order[r], p) + IF item.p = p THEN item.qty ELSE 0
  BY <1>1, EndHolds, NextHolds
<1>8. ASSUME NEW p \in Product \ mixed', Tracked(p)
      PROVE  /\ product'[p].type = "physical" /\ product'[p].stock \in Int
             /\ product'[p].stock + Held(req'[r], order'[r], p)
                    <= product[p].stock + Held(req[r], order[r], p)
  <2>1. product[p].type = "physical" /\ product[p].stock \in Int
    BY <1>1, <1>8 DEF SoldInv, Kept
  <2>2. item.qty \in Nat
    BY <1>2 DEF Item
  <2>3. CASE item.p = p
    <3>1. product[p] = req[r].row /\ product'[p] = row
      BY <1>1, <1>8, <2>3 DEF OrderInv, TypeOK
    <3>2. /\ product'[p].stock = product[p].stock - item.qty
          /\ product'[p].type = "physical" /\ product'[p].stock \in Int
      BY <1>4, <2>1, <3>1
    <3>3. \/ Held(req'[r], order'[r], p) = 0
          \/ Held(req'[r], order'[r], p) = Held(req[r], order[r], p) + item.qty
      BY <1>7, <2>3
    <3>4. Held(req[r], order[r], p) \in Nat
      BY <1>5
    <3> HIDE DEF item
    <3> QED  BY <2>1, <2>2, <3>2, <3>3, <3>4
  <2>4. CASE item.p # p
    <3>1. product'[p] = product[p]
      BY <1>1, <1>8, <2>4 DEF OrderInv, TypeOK
    <3>2. \/ Held(req'[r], order'[r], p) = 0
          \/ Held(req'[r], order'[r], p) = Held(req[r], order[r], p) + 0
      BY <1>7, <2>4
    <3>3. Held(req[r], order[r], p) \in Nat
      BY <1>5
    <3> QED  BY <2>1, <3>1, <3>2, <3>3
  <2> QED  BY <2>3, <2>4
<1>9. mixed \subseteq mixed'
  BY <1>1
<1> QED  BY <1>6, <1>8, <1>9, SoldStep

\* Between the loop and the commit a request holds what it took.
LEMMA PlaceSold ==
    ASSUME OrderInv, OrderInv', SoldInv, NEW r \in Request,
           CreatePayment(r) \/ SaveOrder(r) \/ SaveItem(r)
    PROVE  SoldInv'
<1>1. /\ req[r].at \in {"pay", "order", "items"} /\ req[r].at # "end"
      /\ UNCHANGED <<product, order, mixed>>
  BY DEF CreatePayment, SaveOrder, SaveItem
<1>2. CASE Ends(r)
  BY <1>1, <1>2, EndSold
<1>3. CASE ~Ends(r)
  <2>1. req \in [Request -> Req]
    BY DEF OrderInv, TypeOK
  <2>2. \E at \in {"order", "items", "commit"} :
            \/ req' = [req EXCEPT ![r] = [req[r] EXCEPT !.at = at]]
            \/ \E saved : req' = [req EXCEPT ![r] = [req[r] EXCEPT !.saved = saved, !.at = at]]
    BY <1>3 DEF CreatePayment, SaveOrder, SaveItem, Goes
  <2>3. /\ req'[r].at \in {"order", "items", "commit"}
        /\ req'[r].basket = req[r].basket /\ req'[r].todo = req[r].todo
        /\ \A s \in Request \ {r} : req'[s] = req[s]
    BY <2>1, <2>2 DEF Req
  <2> QED  BY <1>1, <2>3, SameSold
<1> QED  BY <1>2, <1>3

\* The order row holds the basket the request has been through.
LEMMA CommitSold ==
    ASSUME OrderInv, OrderInv', SoldInv, NEW r \in Request, Commit(r)
    PROVE  SoldInv'
<1>1. /\ req[r].at = "commit" /\ Ends(r) /\ UNCHANGED <<product, mixed>>
      /\ order' = [order EXCEPT ![r] = req[r].saved]
  BY DEF Commit
<1>2. /\ req[r] \in Req /\ Ready(req[r]) /\ Along(req[r]) /\ req[r].at \in Ordering
      /\ req[r].saved = req[r].basket /\ order[r] = None
  BY <1>1 DEF OrderInv, TypeOK, SoldInv, Whole, Ordering
<1>3. /\ req[r].basket \in Seq(Item) /\ Been(req[r]) \in 0..Len(req[r].basket)
      /\ Been(req[r]) = Len(req[r].basket)
  BY <1>1, <1>2, BeenThrough
<1>4. /\ req'[r].at = "end" /\ Along(req'[r])
      /\ \A s \in Request \ {r} : req'[s] = req[s] /\ order'[s] = order[s]
      /\ order'[r] = req[r].basket
  BY <1>1, <1>2, EndHolds DEF OrderInv, TypeOK
<1>5. ASSUME NEW p PROVE Held(req'[r], order'[r], p) <= Held(req[r], order[r], p)
  <2>1. order'[r] # None => Held(req'[r], order'[r], p) = Units(req[r].basket, p)
    BY <1>4 DEF Held
  <2>2. order'[r] = None => Held(req'[r], order'[r], p) = 0
    BY <1>4 DEF Held, Ordering
  <2>3. Held(req[r], order[r], p) = UnitsTo(req[r].basket, Len(req[r].basket), p)
    BY <1>2, <1>3 DEF Held
  <2>4. /\ Held(req[r], order[r], p) \in Nat
        /\ Held(req[r], order[r], p) = Units(req[r].basket, p)
    BY <1>3, <2>3, UnitsAdd
  <2> QED  BY <2>1, <2>2, <2>4
<1> QED  BY <1>1, <1>4, <1>5, NoMoreHeld

\* A merchant's save leaves the stock as it was, or the product is mixed.
LEMMA EditSold ==
    ASSUME OrderInv, OrderInv', SoldInv, NEW r \in Request, SaveUpdate(r) \/ SaveDeactivate(r)
    PROVE  SoldInv'
<1>1. PICK row : /\ product' = [product EXCEPT ![req[r].p] = row]
                 /\ mixed \subseteq mixed' /\ Ends(r) /\ req[r].at # "end" /\ order' = order
                 /\ req[r].p \in mixed' \/ row = [product[req[r].p] EXCEPT !.active = FALSE]
  <2>1. CASE SaveUpdate(r)
    BY <2>1 DEF SaveUpdate
  <2>2. CASE SaveDeactivate(r)
    BY <2>2 DEF SaveDeactivate, Save
  <2> QED  BY <2>1, <2>2
<1>2. /\ req'[r].at = "end" /\ Along(req'[r])
      /\ \A s \in Request \ {r} : req'[s] = req[s] /\ order'[s] = order[s]
      /\ \A p : Held(req'[r], order'[r], p) = 0
  BY <1>1, EndHolds
<1>3. \A p : Held(req[r], order[r], p) \in Nat
  BY HeldNat DEF OrderInv, TypeOK, SoldInv
<1>4. ASSUME NEW p \in Product \ mixed', Tracked(p)
      PROVE  /\ product'[p].type = "physical" /\ product'[p].stock \in Int
             /\ product'[p].stock + Held(req'[r], order'[r], p)
                    <= product[p].stock + Held(req[r], order[r], p)
  <2>1. product[p] \in ProductRow /\ product[p].type = "physical" /\ product[p].stock \in Int
    BY <1>1, <1>4 DEF SoldInv, Kept, OrderInv, TypeOK
  <2>2. product'[p] = product[p] \/ product'[p] = [product[p] EXCEPT !.active = FALSE]
    BY <1>1, <1>4 DEF OrderInv, TypeOK
  <2>3. product'[p].type = "physical" /\ product'[p].stock = product[p].stock
    BY <2>1, <2>2 DEF ProductRow
  <2> QED  BY <1>2, <1>3, <2>1, <2>3
<1> QED  BY <1>1, <1>2, <1>4, SoldStep

\* At the start nothing is held and the stock is the catalog's.
LEMMA SoldStart == Init => SoldInv
<1> SUFFICES ASSUME Init PROVE SoldInv
  OBVIOUS
<1>1. Begun = {} /\ IsFiniteSet({})
  BY FS_EmptySet DEF Init, Begun, NewReq
<1>2. \A r \in Request : Along(req[r])
  BY DEF Init, NewReq, Along
<1>3. ASSUME NEW p \in Product, Tracked(p) PROVE Kept(p)
  <2>1. product[p] = Catalog[p] /\ Catalog[p].type = "physical" /\ Catalog[p].stock \in Nat
    BY <1>3, CatalogAssumption DEF Init, Tracked
  <2>2. SumFunctionOnSet(HeldOf(p), Begun) = 0
    BY <1>1, SumOfNone
  <2> QED  BY <2>1, <2>2 DEF Kept
<1> QED  BY <1>1, <1>2, <1>3 DEF SoldInv

\* What requests hold and the stock are never more than there was.
LEMMA SoldInvariant == Spec => []SoldInv
<1>1. ASSUME OrderInv, OrderInv', SoldInv, [Next]_vars PROVE SoldInv'
  <2>1. CASE UNCHANGED vars
    <3>1. Begun' = Begun /\ \A p : HeldOf(p)' = HeldOf(p)
      BY <2>1 DEF vars, Begun, HeldOf
    <3>2. \A p : Kept(p)' <=> Kept(p)
      BY <2>1, <3>1 DEF vars, Kept
    <3>3. \A r \in Request : Along(req[r])'
      BY <1>1, <2>1 DEF vars, SoldInv, Along, Been
    <3> QED  BY <1>1, <2>1, <3>1, <3>2, <3>3 DEF vars, SoldInv, Tracked
  <2>2. CASE Next
    <3> SUFFICES ASSUME NEW r \in Request,
                        \/ OrderEndpoints(r) \/ ProductEndpoints(r)
                        \/ CheckItem(r) \/ ReadInventory(r) \/ TakeInventory(r)
                        \/ CreatePayment(r) \/ SaveOrder(r) \/ SaveItem(r) \/ Commit(r)
                        \/ SaveUpdate(r) \/ SaveDeactivate(r)
                        \/ Fails(r)
                 PROVE  SoldInv'
      BY <2>2 DEF Next
    <3>1. CASE OrderEndpoints(r) \/ ProductEndpoints(r)
      <4>1. req[r].at = "new"
        BY <3>1 DEF OrderEndpoints, ProductEndpoints, Create, StartEdit
      <4> QED  BY <1>1, <3>1, <4>1, BeginSold DEF OrderEndpoints, ProductEndpoints
    <3>2. CASE Fails(r)
      BY <1>1, <3>2, EndSold DEF Fails
    <3> QED  BY <1>1, <3>1, <3>2, LookSold, TakeSold, PlaceSold, CommitSold, EditSold
  <2> QED  BY <1>1, <2>1, <2>2
<1> QED  BY <1>1, SoldStart, OrderInvariant, PTL DEF Spec

-----------------------------------------------------------------------------
\* OrderService.create: the units of the orders that exist and the units in
\* stock are never more than there were, for any number of requests and any
\* baskets, unless two saves of the product overlapped or its merchant set
\* the stock.
THEOREM StockIsSoldOnce == Spec => []NothingSoldTwice
<1>1. OrderInv /\ SoldInv => NothingSoldTwice
  <2> SUFFICES ASSUME OrderInv, SoldInv, NEW p \in Product, Tracked(p), p \notin mixed
               PROVE  product[p].stock + Ordered(p) <= Catalog[p].stock
    BY DEF NothingSoldTwice
  <2> DEFINE placed == {r \in Request : order[r] # None}
             units == [r \in placed |-> Units(order[r], p)]
  <2>1. Kept(p) /\ IsFiniteSet(Begun)
    BY DEF SoldInv
  <2>2. placed \subseteq Begun
    BY DEF OrderInv, Whole, Begun
  <2>3. IsFiniteSet(placed)
    BY <2>1, <2>2, FS_Subset
  <2>4. \A r \in Request : HeldOf(p)[r] \in Nat
    BY HeldNat DEF OrderInv, TypeOK, SoldInv, HeldOf
  <2>5. \A r \in placed : HeldOf(p)[r] = units[r]
    BY DEF HeldOf, Held
  <2>6. Begun \subseteq Request /\ placed \subseteq Request
    BY DEF Begun
  <2> HIDE DEF placed, units
  <2>7. SumFunctionOnSet(HeldOf(p), placed) = SumFunctionOnSet(units, placed)
    <3>1. \A r \in placed : HeldOf(p)[r] \in Int /\ HeldOf(p)[r] = units[r]
      BY <2>4, <2>5, <2>6
    <3> QED  BY <2>3, <3>1, SumSame
  <2>8. /\ SumFunctionOnSet(HeldOf(p), placed) <= SumFunctionOnSet(HeldOf(p), Begun)
        /\ SumFunctionOnSet(HeldOf(p), placed) \in Nat /\ SumFunctionOnSet(HeldOf(p), Begun) \in Nat
    <3>1. \A r \in Begun : HeldOf(p)[r] \in Nat
      BY <2>4, <2>6
    <3> QED  BY <2>1, <2>2, <3>1, SumOfPart
  <2>9. Ordered(p) = SumFunctionOnSet(units, placed)
    BY DEF Ordered, placed, units
  <2>10. Catalog[p].stock \in Int
    BY CatalogAssumption DEF Tracked
  <2> QED  BY <2>1, <2>7, <2>8, <2>9, <2>10 DEF Kept
<1> QED  BY <1>1, OrderInvariant, SoldInvariant, PTL
=============================================================================
