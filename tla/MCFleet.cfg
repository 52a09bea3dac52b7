SPECIFICATION SpecParts
CONSTANTS
    None = None
    b1 = b1
    b2 = b2
    b3 = b3
    bell = bell
    blue = blue
    c1 = c1
    c2 = c2
    c3 = c3
    cast = cast
    green = green
    h1 = h1
    h2 = h2
    h3 = h3
    h4 = h4
    k1 = k1
    k2 = k2
    kid = kid
    late = late
    new1 = new1
    newTask = newTask
    none = none
    old1 = old1
    oldTask = oldTask
    p1 = p1
    p2 = p2
    root = root
    s1 = s1
    s2 = s2
    Instances = {old1, new1}
    Deployment <- MCDeployment
    Task <- MCTask
    Legacy = {blue}
    NoDeployment = NoDeployment
    NoRequest = NoRequest
    MayFail = {"admit", "relinquished"}
    Stops = TRUE
    Crashes = TRUE
    MaxGeneration = 2
    MaxFaults = 1
INVARIANTS
    OneOwner
    ClaimsAdmitted
    HeldThenFreed
    ReadyIsHeard
PROPERTIES
    LocksKeepPromise
CHECK_DEADLOCK FALSE
