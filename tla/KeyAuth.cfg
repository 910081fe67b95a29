SPECIFICATION Spec
CONSTANTS
    Keys = {k1, k2}
    Malformed = {bad}
    Slots = {s1}
    Slot <- MCSlot
    Damaged = damaged
    Requests = {q1, q2}
    CacheSize = 1
    VerifiedTTL = 1
    LookupTimeout = 1
    RedisTTL = 1
    VerifyMax = 0
    CloudFaults = TRUE
    MaxTime = 4
    None = None
SYMMETRY Symmetry
INVARIANTS
    TypeOK
    NoCrossTenant
    RevocationTakesEffect
PROPERTIES
    RefusalJustified
    KeepsGate
