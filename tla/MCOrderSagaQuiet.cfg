\* No timeouts and no declined payments, two consumer tasks.
SPECIFICATION Spec
CONSTANTS
    Orders = {o1, o2}
    Products = {p1}
    Items <- MCItems
    Supply <- OneUnit
    Declined = {}
    Workers = {w1, w2}
    Sweepers = {}
    NoTask = none
INVARIANTS
    ConsistentWhenQuiet
PROPERTIES
    FollowsLifecycle
CHECK_DEADLOCK FALSE
