SPECIFICATION FairSpec
CONSTANTS
    u1 = u1
    u2 = u2
    u3 = u3
    User = {u1, u2, u3}
    Message = {m1}
    Author <- WrittenByOne
    Consumer = {c1, c2}
    MaxMishaps = 3
    MaxChanges = 1
INVARIANTS
    AtMostOnce
    PushedIsCreated
    UndisturbedIsComplete
    OnlyEnabledHear
PROPERTY
    EventsSettle
\* The messages are finitely many: the system stops when all are settled.
CHECK_DEADLOCK FALSE
