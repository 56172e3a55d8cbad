\* Three calls in each part, on two rows of a table, but two calls about
\* keys and four about sellers; the billing rows of two years.
SPECIFICATION Spec
CONSTANTS
    None = None
    KeyId = {k1, k2}
    KeyName = {n1}
    KeyRequest = {r1, r2}
    MaxSecret = 3
    DocumentCall = {q1, q2, q3}
    DocumentRow = {d1, d2}
    DocumentName = {n1, n2}
    Regular = d1
    Same = Same
    SellerCall = {q1, q2, q3, q4}
    SellerRow = {s1, s2}
    Rate = {0, 10}
    Price = {7}
    AccountCall = {q1, q2, q3}
    Email = {e1, e2}
    UserId = {u1, u2, u3}
    Founder = u1
    HttpRequest = {q1, q2, q3}
    Client = {i1}
    Other = {"GET"}
    Query = {s1}
    Points = 2
    RoutePoints = 1
    Requests = {q1, q2, q3}
    Amounts = {1}
    Values = {a}
    FirstYear = 2024
    LastYear = 2025
    Count = {1, 2}
    Late = {0, 1, 40}
    Punctual = 12
SYMMETRY Symmetry
INVARIANTS
    TwinsExplained
    OrphansExplained
    NamesTakenOnce
    InvoicesNumbered
    OneDefaultMethod
    SplitsMakeThePayment
    RemovedSellerIsOut
    MerchantsHaveAccounts
    ResetsHold
    AnswersAreEarned
    BalanceAddsUp
    ApprovedIsVerified
    BillingDatesKept
PROPERTIES
    DeactivationHolds
    SuspensionHolds
    RowsKeepApart
CHECK_DEADLOCK FALSE
