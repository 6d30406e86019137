\* Three reserve calls, one cancel call, a guard of two.
SPECIFICATION Spec
CONSTANTS
    r1 = r1  r2 = r2  r3 = r3
    seatA = seatA  seatB = seatB
    s1 = s1  s2 = s2
    NULL = NULL  NoOne = NoOne
    k1 = k1
    Ids = {r1, r2, r3}
    Slots <- MCSlots
    SlotOf <- MCSlotOf
    Seats = {seatA, seatB}
    Screenings = {s1, s2}
    SeatIn <- MCSeatIn
    ScreeningIn <- MCScreeningIn
    HallSeats <- MCHallSeats
    StartTime <- MCStartTime
    HoldTime = 1
    MaxHold = 1
    MaxTime = 2
    MaxActive = 2
    Cancels = {k1}
INVARIANTS TypeOK NoDoubleBooking HeldHasDeadline GuardCountsCalls CheckStaysTrue
SYMMETRY MCRivalSymmetry
CHECK_DEADLOCK FALSE
