SPECIFICATION Spec
CONSTANTS
    User = {u1, u2, stranger}
    stranger = stranger
    Viewer = {u1}
    Room = {r1}
    AnyRoom = AnyRoom
    Message = {m1, m2, m3}
    Unsent = Unsent
    Reader = {t1}
    Writer = {w1}
    Limit = 2
    Around = 1
    Overlap = FALSE
    MaxTime = 3
    MaxMarks = 2
    MaxDeletes = 1
    Stamp = {2}
ACTION_CONSTRAINT Bounds
SYMMETRY Symmetry
INVARIANTS
    TypeOK
    ClearedStaysHidden
    PagesSkipNothing
CHECK_DEADLOCK FALSE
