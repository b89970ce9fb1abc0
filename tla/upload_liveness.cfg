SPECIFICATION FairSpec
CONSTANTS
    File = {f1, f2}
    Thread = {t1, t2}
    CorePoolSize = 1
    QueueCapacity = 1
    MaxAttempts = 2
    MaxMishaps = 1
PROPERTY
    UploadsEnd
\* The files are finitely many: the system stops when all are dealt with.
CHECK_DEADLOCK FALSE
