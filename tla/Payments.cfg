\* Two checkouts race for r1, whose seat r2 may take; late settlement.
SPECIFICATION Spec
CONSTANTS
    r1 = r1  r2 = r2
    c1 = c1  c2 = c2
    w1 = w1  w2 = w2
    k1 = k1  k2 = k2
    a = a
    NULL = NULL
    Ids = {r1, r2}
    Slots = {a}
    SlotOf <- MCSlotOf
    Checkouts = {c1, c2}
    ForRes <- MCForOne
    Workers = {w1, w2}
    Cancels = {k1}
    HoldTime = 1
    CheckoutTime = 2
    Grace = 1
    CallTime = 1
    MaxHold = 2
    MaxTime = 3
    LateSettlement = TRUE
INVARIANTS TypeOK NoDoubleBooking ConfirmedOnlyIfPaid ChargedAtMostOnce RefundedAtMostOnce PaidNeverWrittenOff
SYMMETRY MCSymmetry
CHECK_DEADLOCK FALSE
