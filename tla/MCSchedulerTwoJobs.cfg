SPECIFICATION SchedulerSpec
CONSTANTS
    Tasks <- TwoAndEmpty
    Nid <- MCNid
    Job <- MCJob
    JobId <- MCJob
    JobOf <- MCJobOf
    Pre <- MCPre
    Succ <- MCSucc
    Created <- MCCreated
    MaxRetries = 2
INVARIANT FinishFindsTotal
PROPERTY JobsEnd
CHECK_DEADLOCK FALSE
