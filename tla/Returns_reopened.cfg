SPECIFICATION Spec
CONSTANTS
    Thread = {t1, t2}
    Total = 3
    Values = {1, 2, 3}
    AdHoc = {1, 2}
    Overlapping = {{"receive", "refund"}}
    MaxRequests = 1
    MaxAdHoc = 2
    MaxRefusals = 1
    MaxLost = 0
    MaxUnbooked = 0
    MaxCrashes = 0
CHECK_DEADLOCK FALSE
INVARIANT OneRefundPerReturn
