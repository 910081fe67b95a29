SPECIFICATION Spec
CONSTANTS
    NoEntry = NoEntry
    Orgs = {o1, o2}
    Requests = {q1, q2}
    Tiers = {"free", "pro"}
    Limits <- MCLimits
    PeriodLength = 2
    CounterTTL = 4
    EntryLag = 1
    Static = FALSE
    RedisOutcomes = {"ok", "lost", "unacked", "twice"}
    MayCrash = TRUE
    MaxTime = 4
    MaxArrivals = 3
SYMMETRY Symmetry
INVARIANTS
    TypeOK
    CapHolds
    RefusalEarned
    ExpiryUnlessFault
PROPERTIES
    ExpirySetOnce
CHECK_DEADLOCK FALSE
