SPECIFICATION FairSpec
CONSTANTS
    JobTasks <- OneTriangle
    Nid <- MCNid
    Job <- MCJob
    JobOf <- MCJobOf
    Pre <- MCPre
    Succ <- MCSucc
    Created <- MCCreated
INVARIANT ReadyMeansRunnable
CHECK_DEADLOCK FALSE
