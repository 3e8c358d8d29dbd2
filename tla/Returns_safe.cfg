SPECIFICATION FairSpec
CONSTANTS
    Thread = {t1, t2}
    Total = 3
    Values = {2, 3}
    AdHoc = {0, 1}
    Overlapping = {{"refund", "adhoc"}, {"request", "reject", "approve", "receive"}}
    MaxRequests = 2
    MaxAdHoc = 1
    MaxRefusals = 1
    MaxLost = 1
    MaxUnbooked = 1
    MaxCrashes = 1
CHECK_DEADLOCK FALSE
INVARIANTS
    OneRefundPerReturn
    RestockedOnce
    RefundsAccounted
PROPERTY ClaimEnds
