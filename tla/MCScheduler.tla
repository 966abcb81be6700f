---------------------------- MODULE MCScheduler ----------------------------
(***************************************************************************)
(* Jobs for TLC: one of a few shapes, and one without tasks whose RUN      *)
(* throws.                                                                 *)
(***************************************************************************)
EXTENDS Scheduler, SequencesExt

Task(s, t) == [source |-> s, target |-> t]

Join == <<Task(1, 3), Task(2, 3), Task(3, 3)>>

Chain == <<Task(1, 2), Task(2, 2)>>

Single == <<Task(1, 1)>>

JoinAndEmpty == [j \in {"a", "b"} |-> IF j = "a" THEN Join ELSE <<>>]
ChainAndEmpty == [j \in {"a", "b"} |-> IF j = "a" THEN Chain ELSE <<>>]
TwoAndEmpty ==
    [j \in {"a", "b", "c"} |-> IF j = "a" THEN Chain ELSE IF j = "b" THEN Single ELSE <<>>]

MCJob == DOMAIN Tasks

(* Node n of a job is <<job, n>>; predecessors and successors as TaskGraph's
   queries return them (successors latest task first). *)
Numbers(tasks) ==
    {tasks[e].source : e \in DOMAIN tasks} \cup {tasks[e].target : e \in DOMAIN tasks}

MCCreated == UNION {{<<j, n>> : n \in 1 .. NodeNum(Tasks[j])} : j \in MCJob}

MCNid == MCCreated \cup UNION {{<<j, n>> : n \in Numbers(Tasks[j])} : j \in MCJob}

MCJobOf == [n \in MCNid |-> n[1]]

MCPre ==
    [n \in MCNid |-> {m \in MCNid \ {n} :
        m[1] = n[1] /\ \E e \in DOMAIN Tasks[n[1]] : Tasks[n[1]][e] = Task(m[2], n[2])}]

MCSucc ==
    [n \in MCNid |->
        LET Leaves(t) == t.source = n[2]
            leaving == Reverse(SelectSeq(Tasks[n[1]], Leaves))
        IN [i \in DOMAIN leaving |-> <<n[1], leaving[i].target>>]]

(* The jobs above are acyclic. *)
ASSUME MCJobsDescend == \E rank \in [Nid -> 0 .. Cardinality(Nid)] : Descends(rank)

=============================================================================
