SPECIFICATION Spec
CONSTANTS
    Message = {"subscribe"}
    Executors = {2}
    MaxVer = 3
    MaxRises = 2
    MaxJobs = 2
INVARIANT ConditionIsCurrent
CHECK_DEADLOCK FALSE
