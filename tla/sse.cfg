SPECIFICATION SseSpec
CONSTANTS
    User = {u1, u2}
    Conn = {c1, c2}
    Event = {e1, e2}
    Thread = {t1}
SYMMETRY Symmetry
INVARIANTS
    QuietConnectIsListed
    OverIsForgotten
    NothingIsSkipped
    SilentIsExplained
\* All connections are over, and everything has been sent.
CHECK_DEADLOCK FALSE
