SPECIFICATION CliSpec
CONSTANTS
    Callers = {c1}
    MaxKeys = 3
    MaxCrashes = 2
    MaxFaults = 1
    MaxRuns = 7
INVARIANTS
    WrittenLoads
    UndisturbedReturnLoads
    PairedStaysUsable
PROPERTY
    IdentityIsKept
CHECK_DEADLOCK FALSE
