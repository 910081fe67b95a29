SPECIFICATION Spec
CONSTANTS
    NoEntry = NoEntry
    Orgs = {o1}
    Requests = {q1, q2}
    Tiers = {"free", "pro"}
    Limits <- MCLimits
    PeriodLength = 2
    CounterTTL = 3
    EntryLag = 0
    Static = TRUE
    RedisOutcomes = {"ok"}
    MayCrash = FALSE
    MaxTime = 4
    MaxArrivals = 4
INVARIANT
    CapIsMonthly
CHECK_DEADLOCK FALSE
