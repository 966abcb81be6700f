SPECIFICATION Spec
CONSTANTS
    Client <- MCClient
    JobId <- MCJobId
    JobKey <- MCJobKey
    Tasks <- MCTasks
    MaxRetries = 2
    Reports = 1
PROPERTY FailureSparesOthers
CHECK_DEADLOCK FALSE
