SPECIFICATION FairSpec
CONSTANTS
    None = None
    Nobody = Nobody
    OutboundEnabled = TRUE
    HourlyLimit = 1
    Deliveries = {d1}
    Workers = {w1}
    Settings <- SampleSettings
    MaxAttempts = 3
    MaxCrashes = 1
PROPERTY
    RetriedUntilSettled
CHECK_DEADLOCK FALSE
