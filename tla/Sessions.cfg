\* Four calls of any kind; the version key and the sessions expire.
SPECIFICATION Spec
CONSTANTS
    c1 = c1  c2 = c2  c3 = c3  c4 = c4
    NULL = NULL
    Calls = {c1, c2, c3, c4}
    AccessTime = 2
    SessionTime = 3
    MaxTime = 3
INVARIANTS TypeOK RotatesOnce EarlierAccessRejected
PROPERTIES EndedStaysEnded
SYMMETRY MCSymmetry
CHECK_DEADLOCK FALSE
