SPECIFICATION FairSpec
CONSTANTS
    Works = {1, 2, 3}
    OptionalStage = {}
    Providers = {"provider1", "provider2"}
    Publishers = {"publisher"}
    IngressCapacity = 1
    ProviderCapacity = 1
    PublishCapacity = 1
    WatermarkPercent = 80
    MaxAttempts = 2
    Scripts <- LaneScripts
INVARIANTS ScheduledIsHeld ExclusiveCallbacks RenewersReleased
PROPERTIES WorkEnds CloseReturns
CHECK_DEADLOCK FALSE
