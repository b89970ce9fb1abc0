SPECIFICATION FairSpec
CONSTANTS
    User = {u1}
    Worker = {w1, w2}
    MaxTime = 4
    AccessTTL = 1
    RefreshTTL = 2
    MaxActive = 2
    MaxMints = 4
INVARIANTS
    ExcessIsUnmatched
    RotatedStaysDead
PROPERTIES
    ExpiredIsSwept
    ContractSpec
