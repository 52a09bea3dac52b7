SPECIFICATION SpecParts
CONSTANTS
    None = None
    d1 = d1
    d2 = d2
    f1 = f1
    f2 = f2
    g1 = g1
    k1 = k1
    m1 = m1
    m2 = m2
    w1 = w1
    w2 = w2
    Workers = {w1, w2}
    ThreadOf <- Alternating
    First = 1
    Last = 3
    PageSize = 2
    Toggles = 1
    MaxFaults = 1
INVARIANTS
    SlotsFireOnce
    WorkShipsOnce
    MailIsCovered
PROPERTIES
    AttemptsAreFenced
CHECK_DEADLOCK FALSE
