--------------------------- MODULE WorkFlowParser ---------------------------
(***************************************************************************)
(* utils/runtime/WorkFlowParser.scala: how an Oozie workflow becomes the   *)
(* task list of a job.  Every action is a task, from its own node to the   *)
(* node its transition ok leads to; nodes are numbered as they are met,    *)
(* joins are replaced by what they lead to, and the transition to "end" is *)
(* an edge of the action's node to itself.  The start, the forks and the   *)
(* transitions error are not looked at: the graph has to make up for them. *)
(***************************************************************************)
EXTENDS TaskGraph, SequencesExt

CONSTANT WorkFlows   \* the workflows that are submitted

(* The start, forks and joins by name, and the actions in the order of the
   XML; every ok has one target, and a join one. *)
ActionDesc == [name : STRING, to : STRING]

IsWorkFlow(w) ==
    /\ w.start \in STRING
    /\ w.forks \in [DOMAIN w.forks -> SUBSET STRING]
    /\ w.joins \in [DOMAIN w.joins -> STRING] /\ IsFiniteSet(DOMAIN w.joins)
    /\ w.actions \in Seq(ActionDesc) \ {<<>>}

ASSUME WorkFlowsAssumption == \A w \in WorkFlows : IsWorkFlow(w)

VARIABLE workflow    \* the one the tasks are of, NoWorkFlow if they came as a list

NoWorkFlow == [start |-> "none", forks |-> <<>>, joins |-> <<>>, actions |-> <<>>]

ActionNames(w) == {w.actions[k].name : k \in DOMAIN w.actions}

(* getJoinPoint: as many joins as there are can be followed. *)
GetJoinPoint(w, name) ==
    LET n == Cardinality(DOMAIN w.joins)
        point[k \in 0 .. n] ==
            IF k = 0 THEN name
            ELSE IF point[k - 1] \in DOMAIN w.joins THEN w.joins[point[k - 1]]
                                                    ELSE point[k - 1]
    IN  point[n]

(***************************************************************************)
(* Without any join initJoints throws, as the array is null; and a cycle   *)
(* of joins is followed for ever.  Either happens in the client, before    *)
(* anything is sent.                                                       *)
(***************************************************************************)
Parses(w) ==
    /\ DOMAIN w.joins # {}
    /\ \A k \in DOMAIN w.actions :
          {GetJoinPoint(w, w.actions[k].name), GetJoinPoint(w, w.actions[k].to)}
              \cap DOMAIN w.joins = {}

(* createNodeIndex: nodeMap is the sequence of the names in it. *)
WithNode(nodeMap, name) == IF Contains(nodeMap, name) THEN nodeMap ELSE Append(nodeMap, name)

NodeIndex(nodeMap, name) == CHOOSE k \in DOMAIN nodeMap : nodeMap[k] = name

(* Mutant of ParseAction: the target is not looked up among the joins. *)
ParseActionPlain(w, parsed, action) ==
    LET source == GetJoinPoint(w, action.name)
        target == IF action.to = "end" THEN action.name ELSE action.to
        nodeMap == WithNode(WithNode(parsed.nodeMap, source), target)
    IN  [nodeMap |-> nodeMap,
         tasks |-> Append(parsed.tasks, [source |-> NodeIndex(nodeMap, source),
                                         target |-> NodeIndex(nodeMap, target)])]

(* One iteration of toNativeWorkFlow. *)
ParseAction(w, parsed, action) ==
    LET source == GetJoinPoint(w, action.name)
        target == GetJoinPoint(w, IF action.to = "end" THEN action.name ELSE action.to)
        nodeMap == WithNode(WithNode(parsed.nodeMap, source), target)
    IN  [nodeMap |-> nodeMap,
         tasks |-> Append(parsed.tasks, [source |-> NodeIndex(nodeMap, source),
                                         target |-> NodeIndex(nodeMap, target)])]

(* The task RUN that follows these is no edge of the graph. *)
ToNativeWorkFlow(w) ==
    LET parse(parsed, action) == ParseAction(w, parsed, action)
    IN  FoldLeft(parse, [nodeMap |-> <<>>, tasks |-> <<>>], w.actions)

(***************************************************************************)
(* The graph of a job that was submitted as a workflow, or as tasks.       *)
(***************************************************************************)
WorkFlowInit ==
    \/ workflow = NoWorkFlow /\ Init
    \/ /\ workflow \in WorkFlows
       /\ Parses(workflow)
       /\ NewGraph(ToNativeWorkFlow(workflow).tasks)

WorkFlowNext == Next /\ UNCHANGED workflow

WorkFlowSpec == WorkFlowInit /\ [][WorkFlowNext]_<<vars, workflow>>

-----------------------------------------------------------------------------
(* The actions that what is named leads to, through joins and forks. *)
LeadsTo(w, name) ==
    LET through == DOMAIN w.joins \cup DOMAIN w.forks
        Next1(n) == IF n \in DOMAIN w.joins THEN {w.joins[n]}
                    ELSE IF n \in DOMAIN w.forks THEN w.forks[n] ELSE {}
        closed == {s \in SUBSET (through \cup ActionNames(w)) :
                      /\ name \in through \cup ActionNames(w) => name \in s
                      /\ \A n \in s : Next1(n) \cap (through \cup ActionNames(w)) \subseteq s}
    IN  ActionNames(w) \cap {n \in UNION closed : \A s \in closed : n \in s}

(* Action a of w precedes b. *)
Precedes(w, a, b) ==
    \E k \in DOMAIN w.actions : w.actions[k].name = a /\ b \in LeadsTo(w, w.actions[k].to)

(***************************************************************************)
(* Workflows as those the repository keeps: no two elements have the same  *)
(* name, forks are entered from the start and from other forks only, joins *)
(* lead to actions, no action to itself, and every action is reached.      *)
(***************************************************************************)
NamesDiffer(w) ==
    /\ \A k, l \in DOMAIN w.actions : w.actions[k].name = w.actions[l].name => k = l
    /\ ActionNames(w) \cap (DOMAIN w.joins \cup DOMAIN w.forks) = {}
    /\ "end" \notin ActionNames(w) \cup DOMAIN w.joins \cup DOMAIN w.forks

Ordinary(w) ==
    /\ NamesDiffer(w)
    /\ \A k \in DOMAIN w.actions :
          \/ w.actions[k].to = "end"
          \/ GetJoinPoint(w, w.actions[k].to) \in ActionNames(w) \ {w.actions[k].name}
    /\ \A a \in ActionNames(w) :
          a \in LeadsTo(w, w.start) \/ \E b \in ActionNames(w) : Precedes(w, b, a)

(* The node of an action. *)
NodeOf(a) == NodeIndex(ToNativeWorkFlow(workflow).nodeMap, a)

(* Every action has one node with its command, and there are no others. *)
NodesAreActions ==
    /\ GetNodeNum = Cardinality(ActionNames(workflow))
    /\ {NodeOf(a) : a \in ActionNames(workflow)} = 1 .. GetNodeNum
    /\ \A k \in DOMAIN workflow.actions : nodeInfo[NodeOf(workflow.actions[k].name)] = k

(* A node waits for the actions that precede its own. *)
OrderIsKept ==
    \A a, b \in ActionNames(workflow) :
        (NodeOf(a) \in GetPrenodes(NodeOf(b))) <=> Precedes(workflow, a, b)

(* What starts is what the start leads to and nothing precedes. *)
StartIsKept ==
    FindStartNodes =
        {NodeOf(a) : a \in {c \in LeadsTo(workflow, workflow.start) :
                               \A b \in ActionNames(workflow) : ~Precedes(workflow, b, c)}}

(* The nodes that announce the end are those of actions that lead to it. *)
EndIsKept ==
    \A k \in DOMAIN workflow.actions :
        (GetSuccnodes(NodeOf(workflow.actions[k].name)) = <<NodeOf(workflow.actions[k].name)>>)
            <=> workflow.actions[k].to = "end"

(***************************************************************************)
(* The graph of a job is its workflow - nodes, order, start and end -      *)
(* though the parser sees neither start nor forks, numbers nodes in the    *)
(* order of the XML, and getNodeNum only guesses how many there are.  It   *)
(* is not if a fork is entered from an action or a join leads to the end:  *)
(* either name becomes a node without a command.                           *)
(***************************************************************************)
GraphIsWorkFlow ==
    (state = "built" /\ workflow # NoWorkFlow) =>
        (Ordinary(workflow) => NodesAreActions /\ OrderIsKept /\ StartIsKept /\ EndIsKept)

=============================================================================
