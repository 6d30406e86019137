\* One call at a time on an empty table.
SPECIFICATION Spec
CONSTANTS
    u1 = u1  u2 = u2  e1 = e1  e2 = e2  g1 = g1
    c1 = c1  c2 = c2
    NULL = NULL
    Users = {u1, u2}
    Emails = {e1, e2}
    Googles = {g1}
    Calls = {c1}
    GoogleMail <- MCGoogleMail
    Seeded = {}
    SeedMail <- MCNoSeedMail
    TTL = 2
    Cooldown = 1
    MaxAttempts = 1
    MaxCodes = 2
    MaxTime = 1
INVARIANTS OneHash
CHECK_DEADLOCK FALSE
