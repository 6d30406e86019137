\* Three requests or three failures; clocks that are one off, calls that last.
SPECIFICATION MCSpec
CONSTANTS
    c1 = c1  c2 = c2  c3 = c3
    f1 = f1  f2 = f2  f3 = f3
    NULL = NULL
    Requests = {c1, c2, c3}
    Failures = {f1, f2, f3}
    Window = 5
    MaxRequests = 1
    Second = 2
    Skew = 1
    Delay = 1
    RecordTime = 1
    FailWindow = 5
    Threshold = 2
    LockTime = 2
    MaxTime = 8
INVARIANTS TypeOK WindowLimit RefusedOnlyWhenFull RetryAfterSuffices FailuresLockOut LockedForCause
SYMMETRY MCSymmetry
CHECK_DEADLOCK FALSE
