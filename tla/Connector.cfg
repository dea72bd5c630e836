SPECIFICATION FairSpec
CONSTANT MaxSends = 3
INVARIANTS
    Consistent
    NothingSkipped
PROPERTIES
    LostOnlyWithLink
    ImplementsUplink
    StopEnds
    Reconnects
    InterruptEnds
    QueueDrains
CHECK_DEADLOCK FALSE
