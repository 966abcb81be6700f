SPECIFICATION FairSpec
CONSTANTS
    JobTasks <- OneTriangle
    Nid <- MCNid
    Job <- MCJob
    JobOf <- MCJobOf
    Pre <- MCPre
    Succ <- MCSucc
    Created <- MCCreated
INVARIANTS
    TypeOK
    PredecessorsFirst
    NoLostWakeup
    FinishedMeansHandedOn
PROPERTIES
    ReadyNodesRun
    OrderSpec
CHECK_DEADLOCK FALSE
