SPECIFICATION Spec
CONSTANTS
    User = {u1}
    Worker = {w1}
    MaxTime = 3
    AccessTTL = 1
    RefreshTTL = 2
    MaxActive = 1
    MaxMints = 4
INVARIANT
    SweepTakesExpiredOnly
