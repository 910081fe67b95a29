SPECIFICATION Spec
CONSTANTS
    Keys = {"k1", "k2"}
    Items <- MCItems
    MaxItems = 2
    FreeLimit = 1
    Requests = {r1, r2}
    Malformed = "malformed"
    Rows <- MCRows
    RequestTimeout = 4
    LookupTimeout = 1
    OpTimeout = 0
    RedisTimeout = 1
    Attempts = 4
    InferTimeout = 2
    Injections = {0, 2}
SYMMETRY Symmetry
INVARIANTS
    TypeOK
    NothingMissingInSilence
    OperatorNotLockedOut
    EventsMatchGates
    BilledWasCounted
    GatesLeaveTime
