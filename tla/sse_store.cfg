SPECIFICATION Spec
CONSTANTS
    Message = {m1, m2, m3, m4}
    Thread = {t1, t2}
    MaxSize = 2
SYMMETRY Symmetry
INVARIANTS
    QueueIsStored
    StoredIsQueued
    StoreIsBounded
    NewestAreRetained
    FoundIsReplayed
PROPERTY
    LogSpec
