SPECIFICATION Spec
CONSTANTS
    OrderId = {o1, o2}
    Price = {p1, p2}
    MaxQty = 2
    PoisonFreed = FALSE
    PartialFills = TRUE
    MaxDepth = 4
SYMMETRY Symmetry
INVARIANTS
    Consistent
    BookIsSound
    DepthsCover
    LoadIsFoldOfAdds
PROPERTIES
    StaysInStep
