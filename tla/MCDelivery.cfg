SPECIFICATION SpecParts
CONSTANTS
    None = None
    c1 = c1
    c2 = c2
    c3 = c3
    c4 = c4
    k1 = k1
    k2 = k2
    p1 = p1
    p2 = p2
    r1 = r1
    r2 = r2
    Procs = {p1, p2}
    Callers = {c1, c2, c3, c4}
    Home <- MCHome
    Ids = {i1}
    Tags = {t1}
    Unset = Unset
    Absent = Absent
    Yes = Yes
    No = No
    Failed = Failed
    MaxHits = 1
    Kinds = {"get", "select", "all", "put", "putIfAbsent", "insertIfAbsent", "merge", "update", "deleteIf", "delete", "take"}
SYMMETRY Symmetry
INVARIANTS
    ListingIsRecent
    ResultsPostedOnce
PROPERTIES
    KeepsPromise
CHECK_DEADLOCK FALSE
