SPECIFICATION FairSpec
CONSTANTS
    Items = {1, 2, 3}
    Workers = {w1}
    Batches <- ChainBatches
    LeaseDuration = 2
    RetryDelays = {1}
    Skew = 1
    MaxClock = 4
    PlanHorizon = 0
    DirectStates = {"CANCELLED"}
    Never <- MCNever
    NoWorker = NoWorker
    NoLease = NoLease
PROPERTY NoWorkStranded
