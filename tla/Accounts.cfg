\* Two calls at a time: one account at the start, one address free.
SPECIFICATION Spec
CONSTANTS
    u1 = u1  u2 = u2  e1 = e1  e2 = e2  g1 = g1
    c1 = c1  c2 = c2
    NULL = NULL
    Users = {u1, u2}
    Emails = {e1, e2}
    Googles = {g1}
    Calls = {c1, c2}
    GoogleMail <- MCGoogleMail
    Seeded = {u1}
    SeedMail <- MCSeedMail
    TTL = 2
    Cooldown = 1
    MaxAttempts = 1
    MaxCodes = 2
    MaxTime = 1
INVARIANTS TypeOK AddressProven GuessesBounded OneAccountEach
SYMMETRY MCSymmetry
CHECK_DEADLOCK FALSE
