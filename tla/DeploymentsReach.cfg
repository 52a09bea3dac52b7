SPECIFICATION Spec
CONSTANTS
    Callers = {c1, c2}
    MaxVersions = 2
    MaxCalls = 3
    MaxFaults = 1
    Kinds = {"redeploy", "reach"}
    Addresses = {1, 2}
    StartsOn = FALSE
    Creating = FALSE
    None = None
PROPERTY AppendOnly
CHECK_DEADLOCK FALSE
