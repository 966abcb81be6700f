SPECIFICATION WorkFlowSpec
CONSTANTS
    MaxTasks = 3
    MaxNode = 5
    TaskLists <- ForkJoinFlow
    WorkFlows = {}
INVARIANT NoIsolatedNodeIsCounted
CHECK_DEADLOCK FALSE
