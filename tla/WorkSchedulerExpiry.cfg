SPECIFICATION FairSpec
CONSTANTS
    Items = {1, 2}
    Workers = {w1}
    Batches <- ExpiryBatches
    LeaseDuration = 1
    RetryDelays = {1}
    Skew = 0
    MaxClock = 2
    PlanHorizon = 0
    DirectStates = {}
    Never <- MCNever
    NoWorker = NoWorker
    NoLease = NoLease
PROPERTY HardExpiryHonoured
CHECK_DEADLOCK FALSE
