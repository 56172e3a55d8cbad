\* Two replicas settle two merchants over two midnights.
SPECIFICATION Spec
CONSTANTS
    Replica = {rep1, rep2}
    Merchant = {m1, m2}
    Payment = {p1}
    DayLength = 2
    PaymentTicks = {0, 1}
    MaxClock = 2
    MaxManual = 1
    None = None
SYMMETRY Symmetry
INVARIANT
    EveryMerchantTried
PROPERTY
    SettlesOnceOnly
CHECK_DEADLOCK FALSE
