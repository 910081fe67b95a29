SPECIFICATION FairSpec
CONSTANTS
    Requests = {r1, r2, r3}
    QueueCapacity = 2
    XAddOutcomes = {"ok", "lost", "unacked", "twice"}
    None = None
INVARIANTS
    TypeOK
    AccountedFor
    SentAtMostOnce
    AlertsExact
PROPERTIES
    KeepsLedger
    ShutdownCompletes
    QueueDrains
    DropsSurface
