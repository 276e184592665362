SPECIFICATION FairSpec
CONSTANTS
    p1 = p1
    p2 = p2
    k1 = k1
    k2 = k2
    g = g
    h = h
    Procs = {p1, p2}
    Parts = {k1, k2}
    Bytes = {g, h}
    Inputs <- MCInputs
    MaxAttempts = 2
    MaxBatch = 2
    MaxFaults = 3
    None = None
INVARIANTS
    EvidenceChain
    OneOutcome
PROPERTIES
    FactsAreFinal
    SettledNotRepeated
    CallsSettle
