SPECIFICATION SpecParts
CONSTANTS
    A = A
    B = B
    Null = Null
    Unset = Unset
    c1 = c1
    c2 = c2
    c3 = c3
    c4 = c4
    d1 = d1
    m1 = m1
    p1 = p1
    p2 = p2
    p3 = p3
    q1 = q1
    q2 = q2
    r1 = r1
    r2 = r2
    s1 = s1
    w1 = w1
    w2 = w2
    w3 = w3
    Callers = {c1, c2, c3, c4}
    None = None
INVARIANTS
    NoOvertaking
    ComputersTracked
    ProcessesTracked
PROPERTIES
    KeepsPromise
    RecordsAdvance
CHECK_DEADLOCK FALSE
