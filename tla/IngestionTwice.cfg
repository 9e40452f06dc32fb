\* Two sessions, one record, nothing goes wrong: the record is ingested twice.
SPECIFICATION Spec
CONSTANTS
    Sessions = {s1, s2}
    Sources = {x}
    Keyless = {}
    NoSource = NoSource
    MaxRuns = 3
    MaxBatch = 1
    MaxSends = 2
    CanClear = FALSE
    CanCrash = FALSE
SYMMETRY Symmetry
INVARIANTS IngestedOnce
CHECK_DEADLOCK FALSE
