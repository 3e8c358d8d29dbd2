SPECIFICATION Spec
CONSTANTS
    NoOrder = NoOrder
    Order = {o1, o2}
    Thread = {t1, t2}
    Prices = {100}
    Fees = {2}
    Charges = {5}
    Rates = {10}
    Slices = {45}
    MaxRefunds = 2
    MaxPayouts = 2
    MaxCrashes = 1
SYMMETRY Alike
CHECK_DEADLOCK FALSE
INVARIANTS
    RefundWithinPrice
    NothingLostOrPaidTwice
    SettledAsPaid
PROPERTY SettledStandsStill
