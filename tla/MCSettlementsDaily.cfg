\* One payment in the middle of the day.
SPECIFICATION Spec
CONSTANTS
    Replica = {rep1}
    Merchant = {m1}
    Payment = {p1}
    DayLength = 3
    PaymentTicks = {1}
    MaxClock = 3
    MaxManual = 0
    None = None
SYMMETRY Symmetry
INVARIANT
    DailySettlement
CHECK_DEADLOCK FALSE
