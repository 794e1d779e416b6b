SPECIFICATION Spec
CONSTANTS
    Instances = {"i1", "i2"}
    RdsTicks = 2
    RdsChanges = 2
    PgRounds = 2
    HbaEdits = 1
    HuLength = 2
    TfLines = 2
    PgPlans <- MCPgPlans
    SettingValues = {"", "on", "off", "all", "0600", "0", "local", "error", "log", "warning", "verbose", "escapes", "none", "pgaudit"}
    RdsJobs <- MCRdsJobs
    HbaFiles <- MCHbaFiles
    HuFiles <- MCHuFiles
    HuConnections <- MCHuConnections
    HuMembers <- MCHuMembers
    CfFollows <- MCFollows
    DbRuns = 3
    PickLimit = 2
    DbReports <- MCDbReports
    DbWatched <- MCDbWatched
    ScConfigs <- MCScConfigs
    ScGaps <- MCScGaps
    ScChanges = 1
    ScLate = 1
    MrRequests <- MCMrRequests
    SpTexts <- MCSpTexts
    LogLayouts <- MCLogLayouts
CHECK_DEADLOCK FALSE
INVARIANTS
    PgReportSound
    VerdictsRight
    HbaCopiesAgree
    UnusedExact
    LostByCrossing
    RdsReportSound
    BroughtDown
    GeneratedFits
    VerdictsEarned
    ScansDelivered
    RunTells
    AnswersBelong
