\* Two carts over two products, restocks, two sessions, fair workers.
SPECIFICATION FairSpec
CONSTANTS
    p1 = p1
    p2 = p2
    Products = {p1, p2}
    Workers = {w1, w2}
    Nobody = nobody
    Carts <- MCCarts
    RestockQuantities = {1}
    MaxRetries = 2
    MaxVersion = 2
INVARIANTS
    StockSound
PROPERTIES
    AtomicStock
    SessionsEnd
CHECK_DEADLOCK FALSE
