\* One replica checks one settlement of an administrator.
SPECIFICATION Spec
CONSTANTS
    Replica = {rep1}
    Merchant = {m1}
    Payment = {p1}
    DayLength = 2
    PaymentTicks = {0}
    MaxClock = 1
    MaxManual = 1
    None = None
SYMMETRY Symmetry
PROPERTY
    CompletedStays
CHECK_DEADLOCK FALSE
