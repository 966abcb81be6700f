---------------------------- MODULE MCTaskGraph ----------------------------
(* Task lists and workflows for TLC. *)
EXTENDS WorkFlowParser

CONSTANTS MaxTasks, MaxNode

Task(s, t) == [source |-> s, target |-> t]

(* Every list of 1 .. MaxTasks tasks between the nodes 1 .. MaxNode. *)
AllShortLists ==
    UNION {[1 .. n -> {Task(s, t) : s, t \in 1 .. MaxNode}] : n \in 1 .. MaxTasks}

(* Test3.scala lines 40-46, "Test Fork & Join Flow". *)
ForkJoinFlow ==
    {<<Task(1, 2), Task(2, 3), Task(2, 4), Task(3, 5), Task(4, 5), Task(5, 6), Task(6, 6)>>}

Name == <<"a", "b", "c">>

(* The actions a .. of n, in any order and with any transitions. *)
Actions(n) ==
    {[k \in 1 .. n |-> [name |-> Name[order[k]], to |-> to[k]]] :
        order \in {f \in [1 .. n -> 1 .. n] : \A x, y \in 1 .. n : x # y => f[x] # f[y]},
        to \in [1 .. n -> {Name[k] : k \in 1 .. n} \cup {"j", "f", "end"}]}

(* Joins that lead to actions, to each other, to the end, in a cycle; none. *)
Joins ==
    {[j |-> "b", k |-> "c"], [j |-> "k", k |-> "c"], [j |-> "end"], [j |-> "k", k |-> "j"], <<>>}

(* Up to three actions and two joins, and a fork from the start or an action. *)
SmallWorkFlows ==
    {[start |-> "f", forks |-> [f |-> started], joins |-> joins, actions |-> actions] :
        started \in {{"a"}, {"a", "b"}}, joins \in Joins,
        actions \in UNION {Actions(n) : n \in 1 .. 3}}

(* oozie-job-define.xml: a fork, one branch of two actions, a join. *)
JobDefine ==
    [start |-> "fork0", forks |-> [fork0 |-> {"read1", "read2"}], joins |-> [join0 |-> "predict"],
     actions |-> <<[name |-> "read1", to |-> "mlp"], [name |-> "mlp", to |-> "join0"],
                   [name |-> "predict", to |-> "write"], [name |-> "write", to |-> "end"],
                   [name |-> "read2", to |-> "join0"]>>]

(* oozie-job-define22.xml: forks in forks, and three joins. *)
JobDefine22 ==
    [start |-> "fork2",
     forks |-> [fork2 |-> {"read8", "fork0"}, fork0 |-> {"fork1", "read5"},
                fork1 |-> {"read2", "read1"}],
     joins |-> [join2 |-> "predict", join0 |-> "merge4", join1 |-> "merge3"],
     actions |-> <<[name |-> "read8", to |-> "join2"], [name |-> "predict", to |-> "write"],
                   [name |-> "write", to |-> "end"], [name |-> "read2", to |-> "join1"],
                   [name |-> "merge3", to |-> "join0"], [name |-> "merge4", to |-> "tree6"],
                   [name |-> "tree6", to |-> "join2"], [name |-> "read1", to |-> "join1"],
                   [name |-> "read5", to |-> "join0"]>>]

MCWorkFlows == SmallWorkFlows \cup {JobDefine, JobDefine22}

=============================================================================
