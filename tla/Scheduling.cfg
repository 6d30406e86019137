\* Two administrators at a time, a customer, two halls.
SPECIFICATION Spec
CONSTANTS
    h1 = h1  h2 = h2  m1 = m1  m2 = m2
    s1 = s1  s2 = s2
    r1 = r1  a1 = a1  a2 = a2
    NULL = NULL
    Halls = {h1, h2}
    Movies = {m1}
    Screens = {s1, s2}
    Ids = {r1}
    ScreenOf <- MCScreenOf
    HallOf <- MCHallOf
    Starts = {0}
    Cuts <- MCCutsFixed
    Admins = {a1, a2}
INVARIANTS TypeOK NoOrphans
PROPERTIES CancelIsFinal ImplementsProgramme
CHECK_DEADLOCK FALSE
