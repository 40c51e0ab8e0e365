CONSTANTS
    None = None
    MaxArms = 2
    Operators = {o1}
    Profiles = {p1, p2}
    Native = {}
    Planned = {p2}
    Faults = {}
    MaxFaults = 0
    MaxApplies = 2
    MaxReboots = 1
    BootRace = FALSE
SPECIFICATION Spec
PROPERTIES UnsavedGoneAfterReboot
