SPECIFICATION Spec
CONSTANTS
    mug = mug
    cap = cap
    ann = ann
    bob = bob
    cid = cid
    None = None
    Item = {mug}
    Online = {ann, bob}
    Cod = {cid}
    Legacy = {}
    Worker = {w1, w2}
    InitialStock <- MCOneItemStock
    Want <- MCOneItemWant
    SweepLimit = 1
    MaxCrashes = 1
    SlowHandlers = TRUE
CHECK_DEADLOCK FALSE
INVARIANTS
    OrderBacked
    SoldWithinStock
    NoOverRelease
