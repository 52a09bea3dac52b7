SPECIFICATION Spec
CONSTANTS
    MaxLines = 2
    MaxRead = 2
    Matches = {1, 2}
    MaxWatches = 1
    MaxCrashes = 1
    MaxQuiet = 0
    Rewatches = FALSE
    Lapses = FALSE
    RowsVanish = FALSE
    None = None
INVARIANT NoLineSkipped
CHECK_DEADLOCK FALSE
