\* The full-scan fallback reads the first top * pages submissions only.
SPECIFICATION FairSpec
CONSTANTS
    Entries = {1, 2, 3}
    Polls = {p1}
    Configs <- CappedScan
    MaxClock = 1
    MaxTies = 3
    TiesByArrival = TRUE
    Poison = {}
    CanCrash = FALSE
    CanReset = FALSE
PROPERTIES EventuallyIngested
CHECK_DEADLOCK FALSE
