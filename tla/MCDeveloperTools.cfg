SPECIFICATION BenchSpec
CONSTANTS
    Scripts <- MCScripts
    Spots <- MCSpots
    Expressions <- MCExpressions
    LineCount = 3
    WatchLimit = 1
    BreakpointLimit = 2
    FewBreakpoints = 1
    FewDebugRuns = 2
    MaxDebugRuns = 4
    HistoryLimit = 2
    MaxRecordings = 3
    MaxProfilerRuns = 5
    MaxCallPairs = 2
    MaxTargets = 2
    Objects = {x, y, z}
    Reports <- MCReports
    LaterReports <- MCLaterReports
    MaxDepth = 3
    Queries <- MCQueries
    MaxChecks = 3
    MaxInstalls = 3
    Entries <- MCStoredEntries
    MaxSettingSteps = 3
SYMMETRY MCSymmetry
CHECK_DEADLOCK FALSE
INVARIANTS
    ToolRunsAreOwned
    StopIsTheProviders
    RecordingIsHeld
    OffersAreAccepted
    WindowIsSound
    SettingsAreSound
PROPERTIES
    EndedStaysEnded
    BreakpointsSurvive
    ExplorerIsSound
