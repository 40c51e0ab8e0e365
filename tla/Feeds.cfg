CONSTANTS
    b1 = b1
    c1 = c1
    c2 = c2
    c3 = c3
    u = u
    a1 = a1
    a2 = a2
    Bases = {b1}
    Creds = {c1, c2, c3}
    Offers <- MCOffers
    Junk = Junk
    NoLink = NoLink
    HourSettings = {0, 1}
    MaxEdits = 2
    MaxRotations = 1
    MaxSubFaults = 1
    Lists = {l1, l2}
    NoList = NoList
    Origins = {u, a1, a2}
    Noise = Noise
    Unreachable = Unreachable
    Sources <- MCSources
    Requests = {r1}
    MaxListEdits = 2
    MaxFeedMoves = 2
    Endpoints = {"e1"}
    i1 = i1
    i2 = i2
    x1 = x1
    x2 = x2
    prx = prx
    Layouts <- MCLayouts
    KernelIface <- MCKernelIface
    Direct = Direct
    Block = Block
    NoRoute = NoRoute
    MaxKills = 1
    healthWindow = 3
    flapThreshold = 2
SPECIFICATION MCSpec
INVARIANTS NoDuplicates  HealthHonest
PROPERTIES CatchesUp  LeavesReluctantly ReturnsToTunnel
\* the edits of the lists and the moves of the feeds run out
CHECK_DEADLOCK FALSE
