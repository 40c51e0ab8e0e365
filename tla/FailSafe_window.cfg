CONSTANTS
    Grace = 2
    Interval = 1
    RollbackAfter = 1
    RebootAfter = 5
    KeepWindow = 3
    CheckTimeout = 1
    RollbackTime = 1
    AllowReboot = TRUE
    MaxArms = 2
    Operators = {o1}
    MaxTime = 12
    LastArm = 3
    ClockSteps = {3}
    MaxSteps = 1
SPECIFICATION FairSpec
INVARIANTS FireOnce RollbackIsReal
PROPERTIES WindowCloses ImplementsWindow
