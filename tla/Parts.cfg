SPECIFICATION PartsSpec
CONSTANTS
    Capacity = 2
    MaxLines = 5
    Op = {o1, o2, o3}
    InitialCount = 1
    View = {v1, v2}
    Text <- MCText
    Limit = {1, 4}
    MaxStrings = 3
    MaxName = 4
    Row = {0, 2}
    Column = {0, 1, 3}
    Width = {0, 1, 4}
    KeyVar = {k1, k2}
    Name = {"host"}
    Val = {1, 2}
    MaxCached = 2
    Entity = {e1, e2}
    Executor = {x1, x2}
    Web = x1
    MaxPages = 2
    Watcher = {u1, u2}
    Kind = {"snapshot", "order_added"}
    MaxMessages = 2
    MaxOpen = 2
INVARIANTS
    FileIsPrefix
    EndsComplete
    NoUnitLost
    ShowsItsText
    MarketNamed
    ColumnsAlign
    OneEntryPerKey
    StartedThenStopped
    PageListsOwn
    HearsAll
    SlotsFreed
PROPERTIES
    LogEnds
    ServedInOrder
    EntitiesEnd
    QuitEnds
CHECK_DEADLOCK FALSE
