SPECIFICATION Spec
CONSTANTS
    p1 = p1
    p2 = p2
    w1 = w1
    w2 = w2
    Procs = {p1, p2}
    WorkerOf <- TwoWorkers
    NumWindows = 2
    MaxBatch = 2
    Topology <- ReductionOnly
    Payloads = {a}
    MaxAttempts = 1
    MaxRenewals = 0
    MaxCrashes = 1
    None = None
INVARIANTS
    FinalizationIsLast
    PublicationOrder
