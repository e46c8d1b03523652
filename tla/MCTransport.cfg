\* Two page requests race for a refresh; a login and a logout post interfere.
\* Two sockets, so that a late close of one meets the other.
SPECIFICATION MCSpec
CONSTANTS
    Requests = {r1, r2}
    Logins = {l1}
    Logouts = {o1}
    NoCall = nocall
    MaxPairs = 2
    e1 = e1
    e2 = e2
    Sockets = {s1, s2}
    None = none
    FeedEvents = {e1}
    PageEvents = {e2}
    Category <- MCCategory
    MaxReconnectAttempts = 2
    MaxTimers = 2
    MaxLoads = 2
INVARIANTS
    RotatesOnce
    StoredPairUsable
    WaitersHaveRefresh
    OneSocket
    ReconnectPending
PROPERTIES
    FeedSettles
CHECK_DEADLOCK FALSE
