SPECIFICATION Spec
CONSTANTS
    IPs = {a}
    Requests = {q1, q2}
    One = 2
    Burst = 4
    IdleTTL = 6
    MaxSkew = 1
    MaxTime = 10
SYMMETRY Symmetry
INVARIANTS
    TypeOK
    RateBound
PROPERTIES
    PatientClientAdmitted
