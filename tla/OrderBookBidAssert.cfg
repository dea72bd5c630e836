SPECIFICATION Spec
CONSTANTS
    OrderId = {o1}
    Price = {p1}
    MaxQty = 2
    PoisonFreed = FALSE
    PartialFills = TRUE
    MaxDepth = 4
PROPERTY BidAssertHolds
