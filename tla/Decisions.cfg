SPECIFICATION QuestionSpec
CONSTANTS
    Null = Null
    MonthDays = 2
    MonthLengths <- MCMonthLengths
    FirstWeekday = 2
    ScheduleConfigs <- MCSchedules
    ZoneClocks <- MCZones
    Instants <- MCInstants
    Todays <- MCTodays
    LastDayCounts <- MCLastDayCounts
    OrderRows <- MCOrderRows
    OtherRows <- MCOtherRows
    Targets <- MCTargets
    CompileRequests <- MCRequests
    RowSizes <- MCRowSizes
    Limits <- MCLimits
    MaxLines = 2
    DisplayLists <- MCDisplayLists
    AnswerLines <- MCAnswers
    PublishRequests <- MCPublishRequests
    NumberOfCaveats = {0, 2}
    CallTools <- MCCallTools
    CallArguments <- MCCallArguments
    Grants <- MCGrants
    FileTrees <- MCFileTrees
    PathRequests <- MCPathRequests
    Contents <- MCContents
    ReadLimit = 1
    WriteLimit = 2
    Chunks <- MCChunks
    CaptureLimits <- MCCaptureLimits
    Stores <- MCStores
    RecallRequests <- MCRecallRequests
    RunHistories <- MCRunHistories
    ParentIterations = 3
    SubagentIterations = 2
    MaxParallel = 2
    MaxResult = 4
    RequestBatches <- MCBatches
    RecentObservations = 2
    MaxIterations = 3
    MaxToolCalls = 3
    MaxErrors = 3
    MaxDelegations = 3
    MaxCitations = 2
    CustomPrices <- MCCustomPrices
    Models <- MCModels
    Usages <- MCUsages
    RunStates <- MCRunStates
    Skills = {"s", "t"}
    ToolKinds <- MCToolKinds
    Offers <- MCOffers
    RateLimit = 2
    Window = 2
    Timeout = 4
    Grace = 2
    MaxCharts = 2
    MaxChartSize = 1
    Attempts <- MCAttempts
    Processes <- MCProcesses
    ChartSizes <- MCChartSizes
    Databases <- MCDatabases
    Catalogs <- MCCatalogs
    Statements <- MCStatements
    Profiled <- MCProfiled
    CallHistories <- MCCallHistories
    Outputs <- MCOutputs
INVARIANTS CalendarOK FiguresOK ReportsOK PolicyOK BoundsOK RecallOK ModelCallsOK
