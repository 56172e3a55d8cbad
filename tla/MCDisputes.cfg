\* Two requests at a time, a dispute and two refunds of 1 or 2 of a payment of 2.
SPECIFICATION DisputesSpec
CONSTANTS
    Worker = {w1, w2}
    Payment = {p1}
    Refund = {r1, r2}
    Dispute = {d1}
    DisputeUpdate = {"resolved", "closed"}
    Amount = {2}
    RefundAmount = {1, 2}
    WebhookStatus = {"completed"}
    RefundWebhookStatus = {}
    Processed = {}
    None = None
SYMMETRY Symmetry
PROPERTIES
    NoRefundInDispute
    ResolutionReachesPayment
    RefundsKeepBook
