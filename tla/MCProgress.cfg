SPECIFICATION SpecParts
CONSTANTS
    Nil = Nil
    NoDeployment = NoDeployment
    NoRequest = NoRequest
    None = None
    b1 = b1
    b2 = b2
    blue = blue
    c1 = c1
    c2 = c2
    c3 = c3
    green = green
    new1 = new1
    newTask = newTask
    old1 = old1
    oldTask = oldTask
    p1 = p1
    p2 = p2
    r1 = r1
    r2 = r2
    s1 = s1
    sweeper = sweeper
    t1 = t1
    w1 = w1
    x1 = x1
PROPERTIES
    RunsEnd
    WaitsEnd
CHECK_DEADLOCK FALSE
