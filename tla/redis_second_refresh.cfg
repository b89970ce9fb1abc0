\* The clock is bounded: once its last second is used up no operation starts.
CHECK_DEADLOCK FALSE
SPECIFICATION Spec
CONSTANTS
    User = {u1}
    Worker = {w1}
    Ops = {"login", "refresh"}
    MaxTime = 2
    AccessTTL = 1
    RefreshTTL = 2
    MaxActive = 3
    MaxAttempts = 2
    OncePerSecond = TRUE
    MaxMishaps = 0
INVARIANTS
    CurrentPairIsAccepted
