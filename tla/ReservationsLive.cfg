\* Two rivals and a call for an unknown seat; the clock and the cron run on.
SPECIFICATION FairSpec
CONSTANTS
    r1 = r1  r2 = r2  r3 = r3
    seatA = seatA  seatB = seatB
    s1 = s1  s2 = s1
    NULL = NULL  NoOne = NoOne
    k1 = k1
    Ids = {r1, r2, r3}
    Slots <- MCSlots
    SlotOf <- MCSlotOfLive
    Seats = {seatA, seatB}
    Screenings = {s1}
    SeatIn <- MCSeatIn
    ScreeningIn <- MCScreeningIn
    HallSeats <- MCHallSeats
    StartTime <- MCStartTime
    HoldTime = 1
    MaxHold = 1
    MaxTime = 2
    MaxActive = 2
    Cancels = {}
PROPERTIES ReserveTerminates ExpiredHoldsReleased ImplementsInventory
CHECK_DEADLOCK FALSE
