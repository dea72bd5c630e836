SPECIFICATION Spec
CONSTANTS
    OrderId = {o1}
    Price = {p1}
    MaxQty = 1
    PoisonFreed = FALSE
    PartialFills = FALSE
    SnapshotFirst = TRUE
    MaxSeq = 3
    MaxGen = 2
    MaxHeld = 2
CHECK_DEADLOCK FALSE
INVARIANT PublishedIsIndexed
