SPECIFICATION FairSpec
CONSTANTS
    User = {u1}
    Worker = {w1, w2}
    Ops = {"login", "refresh", "logout", "sweep"}
    MaxTime = 1
    AccessTTL = 1
    RefreshTTL = 2
    MaxActive = 1
    MaxAttempts = 2
    OncePerSecond = TRUE
    MaxMishaps = 1
INVARIANTS
    LockExclusion
    SessionLimit
    MarksAreTransient
PROPERTIES
    OperationsEnd
    LockIsFreed
\* The clock is bounded: once its last second is used up no login starts.
CHECK_DEADLOCK FALSE
