\* Two replicas, an event that may be delivered twice, two faults.
SPECIFICATION FairSpec
CONSTANTS
    Events = {e1, e2}
    Exhausted = {e2}
    RetryCount <- MCRetryCount
    Consumers = {c1, c2}
    MaxRetries = 1
    MaxLog = 3
    MaxFaults = 2
    Nobody = nobody
INVARIANTS
    EffectOnce
    NothingSkipped
PROPERTIES
    OffsetNeverGoesBack
    ConsumedOrStopped
CHECK_DEADLOCK FALSE
