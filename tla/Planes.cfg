CONSTANTS
    a = a  b = b  srv = srv  c4 = c4  d4 = d4  x = x  c6 = c6
    ext = ext  awg = awg  prx = prx  wg = wg  g1 = g1  g2 = g2
    m1 = m1  m2 = m2  d1 = d1  d2 = d2  dx = dx  p1 = p1  p2 = p2
    Addr4 = {a, b, srv, c4, d4}
    Addr6 = {x, c6}
    Private = {c4, d4, c6}
    Direct = Direct
    Block = Block
    Nobody = Nobody
    TagOrder <- MCTagOrder
    Packets <- MCPackets
    Flows <- MCFlows
    NextProfiles <- Live
    StartModes = {"hybrid", "fast", "tun"}
    Resolved <- MCResolved
    Offload = TRUE
    MaxApplies = 1
    narrow = narrow
    wide = wide
    excl = excl
    rule1 = rule1
    rule2 = rule2
    Plans <- MCPlans
    Rules <- MCRules
    RulesOf <- MCRulesOf
    Excludes <- MCExcludes
    None = None
    MaxFaults = 1
    MaxFlushes = 1
    MaxRestarts = 1
SPECIFICATION MCSpec
INVARIANTS ProfileHonoured RouteResolves MarkedIsCarried NeverBricks PlaneMatches
PROPERTIES Sticky
\* "still" and "outbound" have no steps
CHECK_DEADLOCK FALSE
