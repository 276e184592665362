SPECIFICATION FairSpec
CONSTANTS
    p1 = p1
    p2 = p2
    Procs = {p1, p2}
    Runs = {1, 2}
    Hyps = {1, 2, 3}
    Inputs <- MCInputs
    Fingerprint <- MCFingerprint
    MaxAttempts = 3
    LeaseDuration = 1
    Skew = 0
    MaxClock = 3
    MaxCrashes = 1
    None = None
INVARIANTS
    SuccessHasCompletion
    EventsAreUnique
    AnnouncedOnce
    CompletionsHold
PROPERTY RunsPublish
