SPECIFICATION FairSpec
CONSTANTS
    p1 = p1
    p2 = p2
    w1 = w1
    w2 = w2
    Procs = {p1}
    WorkerOf <- OneProc
    NumWindows = 1
    MaxBatch = 1
    Topology <- FullTopology
    Payloads = {a}
    MaxAttempts = 2
    MaxRenewals = 0
    MaxCrashes = 2
    None = None
INVARIANTS
    CausalInputs
PROPERTIES
    UsesContract
    SuccessIsAccepted
    DeclaredIsPublished
