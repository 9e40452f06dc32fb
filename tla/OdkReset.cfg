\* A reset during a poll is overwritten when the poll commits.
SPECIFICATION Spec
CONSTANTS
    Entries = {1, 2}
    Polls = {p1}
    Configs <- ShortPolls
    MaxClock = 2
    MaxTies = 2
    TiesByArrival = TRUE
    Poison = {}
    CanCrash = FALSE
    CanReset = TRUE
INVARIANTS ResetTakesEffect
CHECK_DEADLOCK FALSE
