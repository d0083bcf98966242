\* Two uploads of two owners, two runs of the pipeline, three instants, between them
\* the turn of a year, and walks through two lists.
CONSTANTS
    None = None
    MaxFloat = 2000000
    Owner = {alice, bob}
    File <- Files
    Reading <- Readings
    Text <- Texts
    Response <- Responses
    FailCode = {"extraction_failed", "processing_timeout"}
    Question <- Questions
    Reply <- Replies
    MaxInputChars = 2400
    DayLength = 1
    MonthLength = 2
    StartMonth = 24311
    WindowLength = 1
    PageSize = 1
    TopUploaders = 1
    Months = {1, 2, 12}
    Filter <- Filters
    MaxDocs = 2
    MaxRuns = 2
    MaxTime = 2
    Skew = 0
SPECIFICATION Spec
SYMMETRY OwnerSymmetry
VIEW View
INVARIANTS
    TypeOK
    OnlyTruncationDiscards
    CrashesAreExplained
    PanelsAgree
    PercentilesBracket
    RulesNeverOutrank
    DashboardsAgree
    SeriesIsComplete
    PagingIsComplete
    AnswersAreGrounded
CHECK_DEADLOCK FALSE
