SPECIFICATION Spec
CONSTANTS
    p1 = p1
    p2 = p2
    w1 = w1
    w2 = w2
    Procs = {p1}
    WorkerOf <- OneProc
    NumWindows = 1
    MaxBatch = 1
    Topology <- ReductionOnly
    Payloads = {a}
    MaxAttempts = 1
    MaxRenewals = 0
    MaxCrashes = 0
    None = None
INVARIANT ExhaustionHasEvidence
