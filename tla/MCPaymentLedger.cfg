\* Two requests at a time on one payment of 2, two refund ids, processing by the Pi network.
SPECIFICATION Spec
CONSTANTS
    Worker = {w1, w2}
    Payment = {p1}
    Refund = {r1, r2}
    Amount = {2}
    RefundAmount = {1, 2}
    WebhookStatus = {"completed"}
    RefundWebhookStatus = {"failed"}
    Processed = {p1}
    None = None
SYMMETRY Symmetry
INVARIANTS
    RefundsWithinPayment
    RefundedMeansCovered
    LedgerComplete
    FullRefundMarksPayment
    PiPaymentRecorded
