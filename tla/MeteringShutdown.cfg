SPECIFICATION Spec
CONSTANTS
    Requests = {r1, r2}
    QueueCapacity = 1
    XAddOutcomes = {"ok"}
    None = None
SYMMETRY Symmetry
INVARIANT
    GracefulShutdownKeepsEvents
