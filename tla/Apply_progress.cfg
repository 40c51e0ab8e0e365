CONSTANTS
    None = None
    MaxArms = 2
    Operators = {}
    Profiles = {p1, p2}
    Native = {p2}
    Planned = {p2}
    Faults = {"pbr", "backup"}
    MaxFaults = 1
    MaxApplies = 2
    MaxReboots = 0
    BootRace = FALSE
SPECIFICATION FairSpec
INVARIANTS NoCoreOverNative
PROPERTIES ApplyReturns
