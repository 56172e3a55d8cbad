\* Three requests: orders of one and two items, deactivations and the product
\* updates that set, clear and turn a product digital.  Two evaluations after
\* earlier ones that are one short of a threshold.
SPECIFICATION SalesSpec
CONSTANTS
    Request = {r1, r2, r3}
    p1 = p1
    p2 = p2
    Product = {p1, p2}
    Catalog <- TwoProducts
    Basket <- Baskets
    Edit <- SomeEdits
    LowStock = 1
    Same = Same
    None = None
    Evaluated = {e1, e2}
    Charge = {1000, 10000}
    EarlierScores = {19, 49}
    EarlierAlerts = {4}
SYMMETRY Symmetry
CHECK_DEADLOCK FALSE
INVARIANTS
    StockNeverNegative
    NothingSoldTwice
    OrdersAreWhole
    ApprovedIsOnRecord
    BurstIsRejected
