\* Every part of the farmer extension on the instances FarmerRegistryMC gives;
\* the boot on rows that older releases may have left.
SPECIFICATION RegistrySpec
CONSTANTS
    Names = {a, b}
    Blank = Blank
    Absent = Absent
    Legacy <- OldRows
    NULL = NULL
    Registered = {1, 2}
    Homes = {"home"}
    Lands = {"l1", "l2"}
    Versions <- Recorded
    Units <- HalfHectares
    Minted = {1}
    Real = {2, 3}
    Subscribers = {"x"}
    Junk = "junk"
    Criteria = {"PHONE_NUMBER", "HOUSEHOLD_OVERLAP"}
    Values = {"x"}
    Requests = {"q1", "q2"}
    Anchors <- NewYears
    Span = 800
    Horizon = 4
    MaxTimers = 2
    MaxJobs = 2
    MaxRows = 2
    People = {2, 5, 6}
    HomeIn <- Housed
    Seed <- Snapshot
    Leaves = {"kebele"}
    Size = 3
    Depth = 2
    LandIds = {1}
    ParcelUnits <- SquareKm
    Figures = {0, 1}
    MaxDocs = 2
    Lists <- OneList
    Normal <- Normalised
    Syncs = {"s1", "s2"}
    Releases = {"r1", "r2"}
    Nameable = {"r1"}
    Procs = {"staff-api", "partner-api"}
    LandSizes = {"missing", "old", "new"}
    MaxCrashes = 1
INVARIANTS PartTypeOK NamesKept BootsSettle StaffNotPartner OneHeadNamed
    TotalsFollow PhonesAgree PairsFlagged CalendarsAgree FormsSound BrowserSound
    ScreenTruthful SeedsSound MergesSound ServesCurrentSchema
CHECK_DEADLOCK FALSE
