SPECIFICATION Spec
CONSTANTS
    User = {u1}
    Worker = {w1, w2}
    Ops = {"login", "logout"}
    MaxTime = 1
    AccessTTL = 1
    RefreshTTL = 2
    MaxActive = 2
    MaxAttempts = 2
    OncePerSecond = TRUE
    MaxMishaps = 0
SYMMETRY WorkerSymmetry
INVARIANTS
    LogoutEndsSessions
