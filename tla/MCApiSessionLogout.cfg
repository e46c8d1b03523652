\* What a logout's post can revoke.
SPECIFICATION LogoutSpec
CONSTANTS
    Requests = {r1}
    Logins = {l1}
    Logouts = {o1}
    NoCall = nocall
    MaxPairs = 1
PROPERTIES
    LogoutRevokes
CHECK_DEADLOCK FALSE
