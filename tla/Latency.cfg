SPECIFICATION Spec
CONSTANTS
    InfBucket = 100000
    Latencies <- MCLatencies
    BatchSizes = {1, 7, 18}
    Targets <- MCTargets
    RoundedUp <- MCRoundedUp
    MaxBatches = 3
INVARIANTS
    TypeOK
    InRightBucket
    PercentilesOrdered
PROPERTIES
    SlowerHardlyLowers
