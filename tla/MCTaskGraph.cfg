SPECIFICATION WorkFlowSpec
CONSTANTS
    MaxTasks = 3
    MaxNode = 5
    TaskLists <- AllShortLists
    WorkFlows <- MCWorkFlows
INVARIANTS
    TypeOK
    ChainInv
    PredecessorsAreSignallers
    StartNodesAreRegistered
    GraphIsWorkFlow
CHECK_DEADLOCK FALSE
