SPECIFICATION Spec
CONSTANTS
    Items = {1, 2, 3}
    Workers = {w1, w2}
    Batches <- JoinBatches
    LeaseDuration = 2
    RetryDelays = {1}
    Skew = 1
    MaxClock = 3
    PlanHorizon = 1
    DirectStates = {"INVALIDATED", "SKIPPED_POLICY"}
    Never <- MCNever
    NoWorker = NoWorker
    NoLease = NoLease
SYMMETRY Symmetry
INVARIANTS
    TypeOK
    AttemptLedger
    DependenciesHonoured
    ReadinessCurrent
    ExclusiveExecution
PROPERTIES
    TerminalIsFinal
    SuccessIsFenced
    ImplementsContract
