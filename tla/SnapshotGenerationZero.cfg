SPECIFICATION Spec
CONSTANTS
    OrderId = {o1}
    Price = {p1}
    MaxQty = 1
    PoisonFreed = FALSE
    PartialFills = FALSE
    SnapshotFirst = FALSE
    MaxSeq = 3
    MaxGen = 1
    MaxHeld = 2
CHECK_DEADLOCK FALSE
INVARIANT PublishedIsBook
