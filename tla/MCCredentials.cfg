SPECIFICATION SpecParts
CONSTANTS
    c1 = c1
    c2 = c2
    c3 = c3
    d1 = d1
    d2 = d2
    g1 = g1
    g2 = g2
    p1 = p1
    r1 = r1
    t1 = t1
    t2 = t2
    u1 = u1
    u2 = u2
    Grants = {g1, g2}
    Once = {g1}
    Users = {u1, u2}
    Revokers = {r1}
    None = None
INVARIANTS
    OnceIsOnce
    AnswersHold
PROPERTIES
    RevokedStays
    NewestStays
CHECK_DEADLOCK FALSE
