CONSTANTS
    None = None
    MaxArms = 1
    Operators = {o1}
    Profiles = {p1, p2}
    Native = {p2}
    Planned = {p2}
    Faults = {}
    MaxFaults = 0
    MaxApplies = 1
    MaxReboots = 0
    BootRace = FALSE
SPECIFICATION Spec
PROPERTIES RollbackAvoidsBlackHole
