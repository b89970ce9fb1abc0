SPECIFICATION Spec
CONSTANTS
    File = {f1, f2, f3, f4}
    Thread = {t1, t2}
    CorePoolSize = 1
    QueueCapacity = 1
    MaxAttempts = 2
    MaxMishaps = 1
SYMMETRY Symmetry
INVARIANTS
    SuccessIsStored
    HeardIsStatus
    AdminIsTold
    AlarmIsRecorded
PROPERTY
    StatusIsFinal
\* The files are finitely many: the system stops when all are dealt with.
CHECK_DEADLOCK FALSE
