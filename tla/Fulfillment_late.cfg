SPECIFICATION FairSpec
CONSTANTS
    mug = mug
    cap = cap
    ann = ann
    bob = bob
    cid = cid
    None = None
    Item = {mug}
    Online = {ann, bob}
    Cod = {}
    Legacy = {}
    Worker = {w1}
    InitialStock <- MCOneItemStock
    Want <- MCOneItemWant
    SweepLimit = 1
    MaxCrashes = 0
    SlowHandlers = FALSE
CHECK_DEADLOCK FALSE
PROPERTY CapturedIsResolved
