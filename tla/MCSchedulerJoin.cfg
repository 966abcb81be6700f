SPECIFICATION SchedulerSpec
CONSTANTS
    Tasks <- JoinAndEmpty
    Nid <- MCNid
    Job <- MCJob
    JobId <- MCJob
    JobOf <- MCJobOf
    Pre <- MCPre
    Succ <- MCSucc
    Created <- MCCreated
    MaxRetries = 2
INVARIANT OverMeansAllRan
PROPERTIES
    HandlerSpec
    JobsEnd
CHECK_DEADLOCK FALSE
