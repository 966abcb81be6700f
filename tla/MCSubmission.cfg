SPECIFICATION Spec
CONSTANTS
    Client <- MCClient
    JobId <- MCJobId
    JobKey <- MCJobKey
    Tasks <- MCTasks
    MaxRetries = 2
    Reports = 1
INVARIANTS
    LaunchedWhole
    LaunchedSuffix
    TotalsAreOfLaunches
PROPERTY SubmissionsAreLaunched
CHECK_DEADLOCK FALSE
