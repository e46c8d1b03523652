\* Two replicas on two rows, one row at a time: a row that cannot be sent
\* stands before the other.
SPECIFICATION FairRelaySpec
CONSTANTS
    Messages = {m1, m2}
    Relays = {r1, r2}
    Times <- MCTimes
    BatchSize = 1
    RelayRetries = 2
INVARIANTS
    ProcessedIsPublished
    AbandonedOnlyAfterRetries
PROPERTIES
    PublishedOrAbandoned
CHECK_DEADLOCK FALSE
