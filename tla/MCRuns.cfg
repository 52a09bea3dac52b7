SPECIFICATION SpecParts
CONSTANTS
    a1 = a1
    k1 = k1
    s1 = s1
    s2 = s2
    sweeper = sweeper
    x1 = x1
    x2 = x2
    RunIds = {r1, r2}
    Sessions = {t1}
    Keys = {k1}
    Texts = {x1, x2}
    Workers = {w1, w2}
    Reapers = {p1, p2}
    Nil = Nil
    MaxAttempts = 2
    MaxClaims = 3
    LeaseLostLimit = 1
    MaxHandbacks = 1
    MaxStalls = 1
SYMMETRY Symmetry
INVARIANTS
    LeaseExclusive
    SessionFifo
    ErrorBudget
    OneSuccessPerKey
    TextAgrees
    SignalsUsedOnce
PROPERTIES
    TerminalIsFinal
    ImplementsSessionQueue
CHECK_DEADLOCK FALSE
