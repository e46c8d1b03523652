\* One order, one consumer task and the sweeper.
SPECIFICATION Spec
CONSTANTS
    Orders = {o1}
    Products = {p1}
    Items <- MCItems
    Supply <- OneUnit
    Declined = {}
    Workers = {w1}
    Sweepers = {s1}
    NoTask = none
PROPERTIES
    ConfirmedIsFinal
CHECK_DEADLOCK FALSE
