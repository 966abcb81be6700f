SPECIFICATION FairSpec
CONSTANTS
    JobTasks <- ChainAndGap
    Nid <- MCNid
    Job <- MCJob
    JobOf <- MCJobOf
    Pre <- MCPre
    Succ <- MCSucc
    Created <- MCCreated
PROPERTY ReadyNodesRun
CHECK_DEADLOCK FALSE
