------------------------------ MODULE TaskGraph ------------------------------
(***************************************************************************)
(* service/job/TaskGraph.scala: the adjacency structure the node manager   *)
(* builds from the task descriptions of one job.  Every task is an edge    *)
(* from its source node to its target node; the edges that leave a node    *)
(* are a linked list threaded through two arrays, firstEdge (by node) and  *)
(* nextEdge (by edge).  Everything the scheduler knows of a job's shape -  *)
(* which nodes exist, which start, who precedes and who follows whom - is  *)
(* read off these arrays, whose sizes are guessed from the number of       *)
(* tasks.                                                                  *)
(*                                                                         *)
(* Edge e of this module is edge e - 1 of the code and NoEdge is its -1.   *)
(* The arrays from and to are the fields of the tasks they copy.           *)
(***************************************************************************)
EXTENDS Integers, Sequences, FiniteSets

CONSTANT TaskLists   \* the task lists jobs are run with

(***************************************************************************)
(* TaskDesContainer.getTasksByJob throws for a job without tasks, so the   *)
(* graph is never built from an empty list.                                *)
(***************************************************************************)
TaskDesc == [source : Nat, target : Nat]

ASSUME TaskListsAssumption == TaskLists \subseteq Seq(TaskDesc) \ {<<>>}

VARIABLES
    tasks,      \* the task list being indexed
    i,          \* the loop index of init
    firstEdge,  \* node -> the edge its list starts with
    nextEdge,   \* edge -> the following edge of the same list
    nodeInfo,   \* node -> the edge whose command the node got, NoEdge for null
    state       \* "building", "built", or "failed" (init threw)

vars == <<tasks, i, firstEdge, nextEdge, nodeInfo, state>>

NoEdge == 0

Edges == 1 .. Len(tasks)

(* Node numbers the arrays of newCapacity have room for. *)
Slots == 0 .. Len(tasks) + 1

TypeOK ==
    /\ tasks \in Seq(TaskDesc) \ {<<>>}
    /\ i \in 1 .. Len(tasks) + 1
    /\ firstEdge \in [Slots -> 0 .. Len(tasks)]
    /\ nextEdge \in [Edges -> 0 .. Len(tasks)]
    /\ nodeInfo \in [Slots -> 0 .. Len(tasks)]
    /\ state \in {"building", "built", "failed"}

(* Mutant of NewGraph: newCapacity leaves out the slot of the last target. *)
NewShortGraph(list) ==
    /\ tasks = list
    /\ i = 1
    /\ firstEdge = [v \in 0 .. Len(tasks) |-> NoEdge]
    /\ nextEdge = [e \in Edges |-> NoEdge]
    /\ nodeInfo = [v \in 0 .. Len(tasks) |-> NoEdge]
    /\ state = "building"

(***************************************************************************)
(* TaskGraph.apply: new arrays for the tasks, every list empty.            *)
(***************************************************************************)
NewGraph(list) ==
    /\ tasks = list
    /\ i = 1
    /\ firstEdge = [v \in Slots |-> NoEdge]
    /\ nextEdge = [e \in Edges |-> NoEdge]
    /\ nodeInfo = [v \in Slots |-> NoEdge]
    /\ state = "building"

Init == \E list \in TaskLists : NewGraph(list)

(* Mutant of Link: the edge does not point to the rest of the list. *)
LinkForgetsTail ==
    /\ state = "building"
    /\ tasks[i].source \in Slots
    /\ nodeInfo' = [nodeInfo EXCEPT ![tasks[i].source] = i]
    /\ firstEdge' = [firstEdge EXCEPT ![tasks[i].source] = i]
    /\ i' = i + 1
    /\ state' = IF i = Len(tasks) THEN "built" ELSE "building"
    /\ UNCHANGED <<tasks, nextEdge>>

(* One iteration of init: edge i becomes the head of its source's list. *)
Link ==
    /\ state = "building"
    /\ tasks[i].source \in Slots
    /\ nodeInfo' = [nodeInfo EXCEPT ![tasks[i].source] = i]
    /\ nextEdge' = [nextEdge EXCEPT ![i] = firstEdge[tasks[i].source]]
    /\ firstEdge' = [firstEdge EXCEPT ![tasks[i].source] = i]
    /\ i' = i + 1
    /\ state' = IF i = Len(tasks) THEN "built" ELSE "building"
    /\ UNCHANGED tasks

(* The store into nodeInfo is out of bounds and init throws. *)
OutOfBounds ==
    /\ state = "building"
    /\ tasks[i].source \notin Slots
    /\ state' = "failed"
    /\ UNCHANGED <<tasks, i, firstEdge, nextEdge, nodeInfo>>

Next == Link \/ OutOfBounds

Spec == Init /\ [][Next]_vars

-----------------------------------------------------------------------------
(***************************************************************************)
(* The queries DataNodeManager asks of a built graph.                      *)
(***************************************************************************)

(* Mutant of GetPrenodes: the scan stops one edge early. *)
PrenodesScanShort(id) ==
    {tasks[e].source : e \in {d \in 1 .. Len(tasks) - 1 : /\ tasks[d].target = id
                                                         /\ tasks[d].source # id}}

GetPrenodes(id) ==
    {tasks[e].source : e \in {d \in Edges : /\ tasks[d].target = id
                                            /\ tasks[d].source # id}}

(* The walk along the list; every link leads to an earlier edge. *)
Walk[e \in 0 .. Len(tasks)] ==
    IF e = NoEdge THEN <<>> ELSE <<e>> \o Walk[nextEdge[e]]

FindNodeEdges(id) == Walk[firstEdge[id]]

GetSuccnodes(id) ==
    LET edges == FindNodeEdges(id)
    IN [p \in DOMAIN edges |-> tasks[edges[p]].target]

MaxNum == Len(tasks) + 1

(* Mutant of GetNodeNum: the last slot never counts. *)
NodeNumOfTasks == MaxNum - 1

GetNodeNum ==
    IF firstEdge[MaxNum] = NoEdge /\ GetPrenodes(MaxNum) = {}
    THEN MaxNum - 1 ELSE MaxNum

FindStartNodes ==
    {id \in 1 .. MaxNum : firstEdge[id] # NoEdge /\ GetPrenodes(id) = {}}

-----------------------------------------------------------------------------
(* The nodes the tasks name. *)
Endpoints == {tasks[e].source : e \in Edges} \cup {tasks[e].target : e \in Edges}

(* x is the last edge before b that leaves v, or NoEdge if there is none. *)
IsLastBefore(x, v, b) ==
    /\ x \in 0 .. b - 1
    /\ x # NoEdge => tasks[x].source = v
    /\ \A e \in 1 .. b - 1 : tasks[e].source = v => e <= x

(***************************************************************************)
(* At every iteration of init, the list of each node starts with the       *)
(* latest edge linked so far that leaves the node, and each linked edge    *)
(* points to the previous one with its source: no list loses, shares or    *)
(* repeats an edge, and every walk descends, so findNodeEdges terminates.  *)
(***************************************************************************)
ChainInv ==
    /\ \A v \in Slots : IsLastBefore(firstEdge[v], v, i)
    /\ \A e \in 1 .. i - 1 : IsLastBefore(nextEdge[e], tasks[e].source, e)

(***************************************************************************)
(* What getSuccnodes reads along the lists and what getPrenodes scans from *)
(* the arrays is the same relation: a node waits for exactly the nodes     *)
(* that will signal it, and each signals it once per edge.                 *)
(***************************************************************************)
PredecessorsAreSignallers ==
    state = "built" =>
        \A u, v \in Slots : u # v =>
            /\ (u \in GetPrenodes(v)) <=> (\E p \in DOMAIN GetSuccnodes(u) :
                                                GetSuccnodes(u)[p] = v)
            /\ Cardinality({p \in DOMAIN GetSuccnodes(u) : GetSuccnodes(u)[p] = v})
                 = Cardinality({e \in Edges : tasks[e] = [source |-> u, target |-> v]})

(***************************************************************************)
(* checkNodes registers the nodes 1 .. getNodeNum, and getParallelTasks    *)
(* looks the start nodes up among them: none may be missing, or run would  *)
(* die on the cast in findNode.  A start node also has a command: it is    *)
(* the source of some task.                                                *)
(***************************************************************************)
StartNodesAreRegistered ==
    state = "built" =>
        \A v \in FindStartNodes : v \in 1 .. GetNodeNum /\ nodeInfo[v] # NoEdge

(***************************************************************************)
(* The comment over the correction in getNodeNum calls what it discounts   *)
(* an isolated point; taken at its word, no node that is counted is one.   *)
(***************************************************************************)
NoIsolatedNodeIsCounted ==
    state = "built" => \A v \in 1 .. GetNodeNum : v \in Endpoints

=============================================================================
