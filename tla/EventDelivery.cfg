SPECIFICATION FairSpec
CONSTANTS
    None = None
    Nobody = Nobody
    OutboundEnabled = TRUE
    HourlyLimit = 1
    Deliveries = {d1, d2}
    Workers = {w1, w2}
    Settings <- SampleSettings
    MaxAttempts = 3
    MaxCrashes = 1
INVARIANTS
    TypeOK
    LimitNearlyHeld
PROPERTIES
    KeepsPromise
    SettlesUnlessCrashed
CHECK_DEADLOCK FALSE
