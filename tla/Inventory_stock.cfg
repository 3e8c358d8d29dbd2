SPECIFICATION Spec
CONSTANTS
    small = small
    large = large
    t1 = t1
    t2 = t2
    t3 = t3
    r1 = r1
    r2 = r2
    p1 = p1
    p2 = p2
    NoPage = NoPage
    Missing = Missing
    Process = {p1}
    Reader = {t3}
    Variant = {small, large}
    Initial <- MCInitial
    Thread = {t1, t2}
    Home <- MCHome
    Quantity = {1}
    Adjustment <- MCAdjustment
    Typed = {1}
    Receiving = {r1}
    Incoming <- MCIncoming
    Threshold = 0
    MaxOps = 2
CHECK_DEADLOCK FALSE
INVARIANTS
    HistoryExplainsStock
    ReceivedOnce
    ServesNothingStale
    ChangeShows
PROPERTY ReceivedAsPreviewed
