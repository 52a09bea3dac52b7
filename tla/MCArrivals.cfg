SPECIFICATION SpecParts
CONSTANTS
    c1 = c1
    c2 = c2
    d1 = d1
    h1 = h1
    h2 = h2
    h3 = h3
    h4 = h4
    i1 = i1
    i2 = i2
    k1 = k1
    k2 = k2
    p1 = p1
    p2 = p2
    push = push
    q1 = q1
    r1 = r1
    r2 = r2
    slack = slack
    t1 = t1
    w1 = w1
    web = web
    Processes = {p1, p2}
    LeaseKeys = {k1, k2}
    Holds = {h1, h3, h4}
    ProcessOf <- LeaseProcess
    KeyOf <- LeaseKey
    MaxConns = 2
    MaxFaults = 1
    None = None
INVARIANTS
    OneLeader
PROPERTIES
    RequestsEnd
    MessagesLand
CHECK_DEADLOCK FALSE
