\* Two sessions that can deadlock on their keys; two polls by date; the
\* containers of two services over the schemas of older releases.
SPECIFICATION AllSpec
CONSTANTS
    Sessions = {s1, s2}
    Sources = {x, y, z}
    Keyless = {z}
    NoSource = NoSource
    MaxRuns = 3
    MaxBatch = 2
    MaxSends = 2
    CanClear = FALSE
    CanCrash = FALSE
    Entries = {1, 2, 3}
    Polls = {p1, p2}
PROPERTIES SessionsEnd EventuallyIngested EventuallyServing
CHECK_DEADLOCK FALSE
