SPECIFICATION Spec
CONSTANTS
    Keys = {k1}
    Malformed = {bad}
    Slots = {s1}
    Slot <- MCSlot
    Damaged = damaged
    Requests = {q1}
    CacheSize = 1
    VerifiedTTL = 1
    LookupTimeout = 1
    RedisTTL = 1
    VerifyMax = 0
    CloudFaults = FALSE
    MaxTime = 2
    None = None
INVARIANT
    RedisBlipNoLockout
