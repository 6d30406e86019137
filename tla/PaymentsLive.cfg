\* Two payments for one seat in turn; the first may spoil the list of the second.
SPECIFICATION Spec
CONSTANTS
    r1 = r1  r2 = r2
    c1 = c1  c2 = c2
    w1 = w1  w2 = w2
    k1 = k1  k2 = k2
    a = a
    NULL = NULL
    Ids = {r1, r2}
    Slots = {a}
    SlotOf <- MCSlotOf
    Checkouts = {c1, c2}
    ForRes <- MCForOwn
    Workers = {w1}
    Cancels = {}
    HoldTime = 1
    CheckoutTime = 1
    Grace = 0
    CallTime = 0
    MaxHold = 1
    MaxTime = 3
    LateSettlement = TRUE
PROPERTIES PaidIsRecorded LinkedTimeoutResolved
CHECK_DEADLOCK FALSE
