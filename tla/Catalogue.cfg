\* Two movies, a screening that moves between them, two calls at a time.
SPECIFICATION CatalogueSpec
CONSTANTS
    m1 = m1  m2 = m2  s1 = s1  h1 = h1  v1 = v1  v2 = v2
    c1 = c1  c2 = c2
    NULL = NULL
    Movies = {m1, m2}
    Screens = {s1}
    Halls = {h1}
    Calls = {c1, c2}
    Editions = {v1, v2}
    Starts = {1}
    Patches <- MCPatches
    TTL <- MCTTL
    CallTime = 1
    MaxTime = 2
INVARIANTS CatalogueTypeOK BoundedStaleness StaleForAReason
SYMMETRY MCSymmetry
CHECK_DEADLOCK FALSE
