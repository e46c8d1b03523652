\* A broker that comes back after every outage.
SPECIFICATION ReachableBrokerSpec
CONSTANTS
    Messages = {m1}
    Relays = {r1}
    Times <- MCTimes
    BatchSize = 1
    RelayRetries = 2
PROPERTIES
    AtLeastOnceDelivery
CHECK_DEADLOCK FALSE
