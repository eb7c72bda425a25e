SPECIFICATION MCSpec
CONSTANTS
    NumRuns = 2
    StaleAfter = 0
    RecentFor = 1
    MarkerName <- MCMarkerName
    MatchLen <- MCMatchLen
    NumServices = 1
    Override = {}
    NumPrisms = 1
    MaxIntents = 1
    NumSkills = 1
    Templates <- MCTemplates
    NoVerifyGate = FALSE
    MaxQuery = 1
    MaxNow = 1
    MaxChanges = 1
CHECK_DEADLOCK FALSE
INVARIANTS
    TypeOK
    SelectionInRange
    ArchiveExact
    LaunchReportTrue
PROPERTIES
    BoardCatchesUp
    UnseenLaunchReturns
