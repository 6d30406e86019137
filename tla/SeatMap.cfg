\* One reservation; a reader, a client that joins and leaves, faults everywhere.
SPECIFICATION Spec
CONSTANTS
    r1 = r1
    a = a
    p1 = p1
    c1 = c1
    NULL = NULL
    Ids = {r1}
    Slots = {a}
    SlotOf <- MCSlotOf
    Readers = {p1}
    Clients = {c1}
    HoldTime = 1
    TTL = 2
    CallTime = 1
    MaxHold = 1
    MaxTime = 3
    MaxPending = 1
    Faults = TRUE
INVARIANTS TypeOK BoundedStaleness WrongForAReason
CHECK_DEADLOCK FALSE
