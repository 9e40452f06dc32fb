\* Overlapping polls with failures, crashes and cursor resets; one poll at a
\* time by date, by update and by full scan, with edits in the source; and the
\* other parts of the service on instances that ConnectorServiceMC gives.
SPECIFICATION ServiceSpec
CONSTANTS
    Entries = {1, 2, 3}
    Polls = {p1, p2}
    Alone = p3
    NULL = NULL
    Configs <- ShortPolls
    MaxClock = 2
    MaxTies = 2
    TiesByArrival = TRUE
    Poison = {2}
    CanCrash = TRUE
    CanReset = TRUE
    AloneConfigs <- AllModes
    AloneTies = 3
    Sessions = {s1, s2, s3}
    MaxHits = 4
    Body <- Bodies
    Paths <- Envelopes
    Raising = {"odd"}
    MaxQueued = 1
    Topics <- TwoTopics
    Callbacks = {c, d}
    MaxEdits = 1
    Ids = {"c"}
    Seeded = "d"
    SeedName = "default"
    Names = {"n"}
    Slugs = {"s"}
    Blank = ""
    Interval = 1
    MaxTicks = 1
    PageSize = 1
    MaxPages = 2
    MaxRetries = 1
    MaxSubmissions = 3
    Root = "root"
    Trees <- Forms
    Depths <- UpToFive
    Tables <- Listed
    Arriving <- ToCome
    Ranks <- NameRanks
    Limit = 2
    MaxTime = 5
SYMMETRY Symmetry
INVARIANTS PartTypeOK NothingSkipped OnceWhenAlone CountersSound IntakeSound
    ReportHolds ConnectorsSound FormRead AnswersComplete
PROPERTIES AdvancesWhenAlone StartKeeps
CHECK_DEADLOCK FALSE
