SPECIFICATION Spec
CONSTANTS
    Message = {m1, m2}
    ReadStatus = {s1}
    Manager = {d1}
    PageSize = 1
    MaxTime = 2
SYMMETRY Symmetry
INVARIANTS
    OrphanIsRaced
    AnnouncedIsGone
    AllIsShown
\* The messages are finitely many, and all pages have been read.
CHECK_DEADLOCK FALSE
