SPECIFICATION FairSpec
CONSTANTS
    Endpoint = {e1, e2}
    Client = {c1, c2}
    Request <- MCRequest
    MaxRequests = 2
INVARIANTS
    AnswersInOrder
    ListensTogether
PROPERTIES
    NobodyWaits
    ShutdownEnds
    LeaversEnd
CHECK_DEADLOCK FALSE
