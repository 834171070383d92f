SPECIFICATION BucketsSpec
CONSTANTS
    c1 = c1
    c2 = c2
    k1 = k1
    k2 = k2
    k3 = k3
    Callers <- MCCallers
    Ids <- MCIds
    Plans <- MCPlans
    PlanOf <- MCPlanOf
    Unit = 3
    TTL = 5
    MaxEntries = 2
    MaxLag = 1
    MaxClock = 6
    Handlers = {h1, h2, h3}
    Ips = {a1}
    Burst = 4
    Rate = 1
    FailUnit = 2
    RetryAfter = 3
    GuardTTL = 6
    MaxRoutes = 1
    GateMaxClock = 7
INVARIANTS TypeOK GrantsBounded GateRight
PROPERTY RetriesRight
SYMMETRY MCSymmetry
CHECK_DEADLOCK FALSE
