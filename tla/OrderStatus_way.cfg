SPECIFICATION Spec
CONSTANTS
    Thread = {t1, t2}
    StaffOverlap = FALSE
    SyncOverlap = TRUE
    MaxSyncs = 3
CHECK_DEADLOCK FALSE
INVARIANTS
    RestockedIffCancelled
    CancelledIsRefunded
PROPERTIES
    TrackingMovesForward
