--------------------------- MODULE MCDataHandler ---------------------------
(***************************************************************************)
(* Small jobs for TLC.  Edges are listed as tasks <<source, target>> per   *)
(* job; predecessors and successors are what TaskGraph's queries return    *)
(* for them (successors latest task first), and the nodes created are 1 to *)
(* the job's getNodeNum.                                                   *)
(***************************************************************************)
EXTENDS DataHandler, SequencesExt

CONSTANT JobTasks   \* job -> its task list; node n of a job is <<job, n>>

(* A node whose predecessors are also each other's, the task of the short
   cut listed first and thus signalled last; the last node's task targets
   the node itself. *)
Triangle == <<<<1, 3>>, <<1, 2>>, <<2, 3>>, <<3, 3>>>>

Chain == <<<<1, 2>>, <<2, 2>>>>

(* A node number beyond those created, before the other one in the list of
   successors of the first node; no task leaves either. *)
Gap == <<<<1, 2>>, <<1, 4>>>>

OneTriangle == [j \in {"a"} |-> Triangle]
ChainAndGap == [j \in {"a", "b"} |-> IF j = "a" THEN Chain ELSE Gap]

MCJob == DOMAIN JobTasks

Numbers(tasks) == {tasks[e][d] : e \in DOMAIN tasks, d \in {1, 2}}

(* One more than the tasks if some task touches that number. *)
SlotsOf(tasks) ==
    IF Len(tasks) + 1 \in Numbers(tasks) THEN Len(tasks) + 1 ELSE Len(tasks)

MCCreated == UNION {{<<j, n>> : n \in 1 .. SlotsOf(JobTasks[j])} : j \in MCJob}

MCNid == MCCreated \cup UNION {{<<j, n>> : n \in Numbers(JobTasks[j])} : j \in MCJob}

MCJobOf == [n \in MCNid |-> n[1]]

MCPre ==
    [n \in MCNid |-> {m \in MCNid \ {n} :
        m[1] = n[1] /\ \E e \in DOMAIN JobTasks[n[1]] : JobTasks[n[1]][e] = <<m[2], n[2]>>}]

MCSucc ==
    [n \in MCNid |->
        LET Leaves(t) == t[1] = n[2]
            leaving == Reverse(SelectSeq(JobTasks[n[1]], Leaves))
        IN [i \in DOMAIN leaving |-> <<n[1], leaving[i][2]>>]]

=============================================================================
