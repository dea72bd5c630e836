SPECIFICATION FairSpec
CONSTANTS
    Message = {"subscribe"}
    Executors = {1, 2}
    MaxVer = 3
    MaxRises = 2
    MaxJobs = 2
INVARIANTS
    ConditionIsCurrentOnOne
    GoodIsVenueBookOnOne
PROPERTIES
    LossIsShown
    Recovers
CHECK_DEADLOCK FALSE
