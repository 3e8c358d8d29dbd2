SPECIFICATION Spec
CONSTANTS
    mug = mug
    cap = cap
    ann = ann
    bob = bob
    cid = cid
    None = None
    Item = {mug, cap}
    Online = {ann, bob, cid}
    Cod = {}
    Legacy = {cid}
    Worker = {w1, w2}
    InitialStock <- MCStock
    Want <- MCWant
    SweepLimit = 1
    MaxCrashes = 1
    SlowHandlers = FALSE
CHECK_DEADLOCK FALSE
INVARIANTS
    TypeOK
    NotBothSoldAndRefunded
    NothingLeaks
    FulfilledIsComplete
PROPERTY FinalStatusStays
