CONSTANTS
    narrow = narrow
    wide = wide
    excl = excl
    rule1 = rule1
    rule2 = rule2
    Plans <- MCPlans
    Rules <- MCRules
    RulesOf <- MCRulesOf
    Excludes <- MCExcludes
    None = None
    MaxFaults = 0
    MaxFlushes = 0
    MaxRestarts = 0
SPECIFICATION Spec
INVARIANTS SingleAuthority
