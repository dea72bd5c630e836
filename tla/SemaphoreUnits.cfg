SPECIFICATION SemSpec
CONSTANTS
    Op = {o1, o2, o3}
    InitialCount = 1
INVARIANT UnitsHeldOnce
CHECK_DEADLOCK FALSE
