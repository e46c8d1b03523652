\* Every actor: two consumer tasks, a fair sweeper, a declined payment, one unit.
SPECIFICATION FairSpec
CONSTANTS
    Orders = {o1, o2}
    Products = {p1}
    Items <- MCItems
    Supply <- OneUnit
    Declined = {o2}
    Workers = {w1, w2}
    Sweepers = {s1}
    NoTask = none
INVARIANTS
    OutcomesExclusive
    ConfirmedIsPaid
    CancelledIsCompensated
    UnitsAccounted
PROPERTIES
    ConfirmedUndoneOnlyBySweep
    FollowsLifecycleUntilUndone
    EveryOrderSettles
CHECK_DEADLOCK FALSE
