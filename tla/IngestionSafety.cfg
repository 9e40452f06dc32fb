\* Two sessions race over two records with a key, with crashes, lost replies and
\* cleared keys.
SPECIFICATION Spec
CONSTANTS
    Sessions = {s1, s2}
    Sources = {x, y}
    Keyless = {}
    NoSource = NoSource
    MaxRuns = 3
    MaxBatch = 2
    MaxSends = 2
    CanClear = TRUE
    CanCrash = TRUE
INVARIANTS TypeOK NothingLost KeyBacked OnceUnlessExposed
PROPERTIES KeyStable ImplementsDelivery
CHECK_DEADLOCK FALSE
