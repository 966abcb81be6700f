SPECIFICATION SchedulerSpec
CONSTANTS
    Tasks <- JoinAndEmpty
    Nid <- MCNid
    Job <- MCJob
    JobId <- MCJob
    JobOf <- MCJobOf
    Pre <- MCPre
    Succ <- MCSucc
    Created <- MCCreated
    MaxRetries = 2
INVARIANT ProgressIsPercent
CHECK_DEADLOCK FALSE
