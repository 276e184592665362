SPECIFICATION FairSpec
CONSTANTS
    Messages = {0, 1}
    Relays = {r1, r2}
    MaxAttempts = 3
    LeaseDuration = 2
    BaseDelay = 1
    MaxDelay = 3
    Skew = 1
    MaxCrashes = 1
    ClockRuns = TRUE
    None = None
INVARIANTS
    TypeOK
    DeliveredOnce
    DeadLettersAreSpent
PROPERTIES
    AnsweredByHolder
    SettledIsFinal
    EveryMessageSettles
