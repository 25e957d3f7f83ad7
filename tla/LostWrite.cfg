SPECIFICATION Spec
CONSTANTS
    Callers = {c1}
    MaxKeys = 3
    MaxCrashes = 0
    MaxFaults = 1
INVARIANT
    GeneratedLoads
CHECK_DEADLOCK FALSE
