SPECIFICATION Spec
CONSTANTS
    p1 = p1
    p2 = p2
    w1 = w1
    w2 = w2
    Procs = {p1, p2}
    WorkerOf <- SameWorker
    NumWindows = 1
    MaxBatch = 1
    Topology <- ReductionOnly
    Payloads = {a, b}
    MaxAttempts = 2
    MaxRenewals = 1
    MaxCrashes = 1
    None = None
SYMMETRY Symmetry
INVARIANTS
    TypeOK
    LedgersAgree
    MembersAreEvidence
PROPERTIES
    FactsAreFinal
