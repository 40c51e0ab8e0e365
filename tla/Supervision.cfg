CONSTANTS
    x = x
    Ids = {i1}
    SpecVals <- MCSpecs
    None = None
    Grace = 1
    MaxCooldown = 2
    RestartCap = 3
    MaxSyncs = 3
    MaxFaults = 2
    MaxBinChanges = 2
    Procs = {s1, s2, s3}
    Nil = Nil
    Callers = {"apply", "update", "main"}
    MaxFails = 1
    Interval = 3
    MinBackoff = 1
    MaxBackoff = 9
    Stable = 5
SPECIFICATION MCSpec
INVARIANTS Serves PassedOver CoreAsOrdered AttemptBound
PROPERTIES Resolved Throttled Recovers ComesBack CallsReturn
\* the daemon stops
CHECK_DEADLOCK FALSE
