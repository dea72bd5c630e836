SPECIFICATION Spec
CONSTANTS
    OrderId = {o1}
    Price = {p1}
    MaxQty = 1
    PoisonFreed = FALSE
    PartialFills = FALSE
    SnapshotFirst = TRUE
    MaxSeq = 4
    MaxGen = 2
    MaxHeld = 2
INVARIANTS
    HistoryExact
    WatermarksExact
PROPERTIES
    FeedSpec
CHECK_DEADLOCK FALSE
