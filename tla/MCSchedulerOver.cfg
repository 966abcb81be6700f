SPECIFICATION SchedulerSpec
CONSTANTS
    Tasks <- ChainAndEmpty
    Nid <- MCNid
    Job <- MCJob
    JobId <- MCJob
    JobOf <- MCJobOf
    Pre <- MCPre
    Succ <- MCSucc
    Created <- MCCreated
    MaxRetries = 2
PROPERTY OverComesLast
CHECK_DEADLOCK FALSE
