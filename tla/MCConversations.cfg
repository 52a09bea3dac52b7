SPECIFICATION SpecParts
CONSTANTS
    h1 = h1
    h2 = h2
    i1 = i1
    i2 = i2
    push = push
    r1 = r1
    r2 = r2
    slack = slack
    w1 = w1
    web = web
    Writers = {v1, v2}
    Activities = {"turn", "revision", "backfill", "compaction"}
    MaxEntries = 4
    MaxLeases = 3
SYMMETRY Symmetry
INVARIANTS
    WritesInLeaseOrder
    FoldIsHonest
    SummariesAdvance
    MessagesKept
    DecisionsHold
PROPERTIES
    RequestsWait
CHECK_DEADLOCK FALSE
