SPECIFICATION Spec
CONSTANTS
    Callers = {c1}
    MaxKeys = 3
    MaxCrashes = 1
    MaxFaults = 0
INVARIANT
    ReturnedLoads
CHECK_DEADLOCK FALSE
