\* An edit between two pages moves the others up and one out of sight.
SPECIFICATION Spec
CONSTANTS
    Entries = {1, 2, 3}
    Polls = {p1}
    Configs <- PagedUpdates
    MaxClock = 3
    MaxTies = 3
    TiesByArrival = TRUE
    Poison = {}
    CanCrash = FALSE
    CanReset = FALSE
INVARIANTS NoSkip
CHECK_DEADLOCK FALSE
