SPECIFICATION Spec
CONSTANTS
    Readers = {r1}
    N = 3
    MaxSeq = 7
INVARIANTS
    TypeOK
    RingStamped
    InOrder
    UnlappedComplete
    LossIsWholeRings
PROPERTIES
    DeliveryMovesForward
    ResetOnlyWhenCleared
CHECK_DEADLOCK FALSE
