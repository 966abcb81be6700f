------------------------------ MODULE Scheduler ------------------------------
(***************************************************************************)
(* The node manager and the node handlers together: the manager launches   *)
(* jobs, the handlers of DataHandler run them and send it messages, it     *)
(* counts them and tells the UI, and a message it throws on makes its      *)
(* supervisor replace it while the handlers go on.                         *)
(*                                                                         *)
(* The tasks of every job are assembled at the start (Submission has the   *)
(* assembling); the RUN message of each is on its way.  A job without      *)
(* tasks stands for all whose RUN throws.                                  *)
(***************************************************************************)
EXTENDS DataHandler, DataNodeManager, FiniteSets

CONSTANT Tasks   \* job -> its tasks

VARIABLES
    runs,       \* the jobs whose RUN the manager has not received
    over,       \* history: the jobs whose end the manager announced
    restarted   \* history: the manager has thrown

ASSUME SchedulerAssumption ==
    /\ JobId = Job
    /\ Tasks \in [Job -> Seq(TaskDesc)]
    /\ \A j \in Job : /\ Tasks[j] = <<>> <=> NodesOf(j) = {}
                       /\ Cardinality(CreatedNodes(j)) = NodeNum(Tasks[j])
    /\ MaxRetries \in Nat \ {0}

schedulerVars == <<vars, managerVars, runs, over, restarted>>

SchedulerInit ==
    /\ Init
    /\ container = Tasks
    /\ total = [j \in Job |-> 0]
    /\ success = [j \in Job |-> 0]
    /\ retries = 0
    /\ status = "running"
    /\ runs = Job
    /\ over = {}
    /\ restarted = FALSE

(* The manager's thread is not inside run. *)
ManagerFree == ~NodesBeingAdded

Fails == Supervise /\ restarted' = TRUE

-----------------------------------------------------------------------------
TakeRun(j) ==
    /\ j \in runs
    /\ CanRun(j)
    /\ BeginLaunch(j)
    /\ runs' = runs \ {j}
    /\ UNCHANGED <<managerVars, over, restarted>>

(* The number of nodes is announced before the start nodes begin. *)
CompleteRun(j) ==
    /\ EndLaunch(j)
    /\ CountAndRemove(j)
    /\ UNCHANGED <<runs, over, restarted>>

(* Mutant of RunFails: the new manager cleans the shared container. *)
RunFailsCleans(j) ==
    /\ ManagerFree
    /\ j \in runs
    /\ RunThrows(j)
    /\ Fails
    /\ runs' = runs \ {j}
    /\ nodeStatus' = {}
    /\ UNCHANGED <<dataRef, nodeRef, mailbox, raced, launch, handlerVars, over>>

RunFails(j) ==
    /\ ManagerFree
    /\ j \in runs
    /\ RunThrows(j)
    /\ Fails
    /\ runs' = runs \ {j}
    /\ UNCHANGED <<vars, over>>

(* The manager receives the message m, sent by a node of job j. *)
Receives(m, j) ==
    /\ ManagerFree
    /\ Take
    /\ m = Head(inbox)
    /\ j = JobOf[m.node]

HandleFinish(m, j) ==
    /\ Receives(m, j)
    /\ m.type = "FINISH"
    /\ CountFinish(j)
    /\ UNCHANGED <<runs, over, restarted>>

HandleFinishFails(m, j) ==
    /\ Receives(m, j)
    /\ m.type = "FINISH"
    /\ FinishThrows(j)
    /\ Fails
    /\ UNCHANGED <<runs, over>>

HandleOver(m, j) ==
    /\ Receives(m, j)
    /\ m.type = "OVER"
    /\ status = "running"
    /\ over' = over \cup {j}
    /\ UNCHANGED <<managerVars, runs, restarted>>

(* handleFirstNode and handlePrestart only tell the UI; and what a stopped
   manager is sent goes to the dead letters. *)
HandleOther(m, j) ==
    /\ Receives(m, j)
    /\ m.type \in {"FIRST", "PRE_START"} \/ status = "stopped"
    /\ UNCHANGED <<managerVars, runs, over, restarted>>

Handles(n) == Handle(n) /\ UNCHANGED <<managerVars, runs, over, restarted>>

HandleMessage ==
    /\ inbox # <<>>
    /\ LET m == Head(inbox)
           j == JobOf[m.node]
       IN HandleFinish(m, j) \/ HandleFinishFails(m, j) \/ HandleOver(m, j) \/ HandleOther(m, j)

SchedulerNext ==
    \/ \E j \in Job : TakeRun(j) \/ CompleteRun(j) \/ RunFails(j)
    \/ \E n \in Nid : Handles(n)
    \/ HandleMessage

SchedulerSpec ==
    /\ SchedulerInit
    /\ [][SchedulerNext]_schedulerVars
    /\ \A n \in Nid : WF_schedulerVars(Handles(n))
    /\ \A j \in Job : WF_schedulerVars(CompleteRun(j))
    /\ WF_schedulerVars(HandleMessage)

-----------------------------------------------------------------------------
(***************************************************************************)
(* With the real manager around them the handlers do nothing DataHandler   *)
(* does not allow: what is proved of them there holds here.                *)
(***************************************************************************)
HandlerSpec == Spec

(***************************************************************************)
(* A NODE_FINISH always finds the total of its job, so that getJobProgress *)
(* does not throw - unless a restart has emptied the counters of the jobs  *)
(* that were running.                                                      *)
(***************************************************************************)
FinishFindsTotal ==
    \A x \in DOMAIN inbox :
        (inbox[x].type = "FINISH" /\ ~restarted) => total[JobOf[inbox[x].node]] # 0

(* Nodes that signal no other; in an acyclic job every node leads to one. *)
IsEnd(n) == \A i \in DOMAIN Succ[n] : Succ[n][i] = n
OneEnd(j) == \A m, n \in NodesOf(j) : (IsEnd(m) /\ IsEnd(n)) => m = n

(* Acyclic but for nodes that are their own successors: every other
   successor is nearer to an end.  The code does not check it of a job. *)
Descends(rank) ==
    \A n \in Nid : \A i \in DOMAIN Succ[n] :
        Succ[n][i] # n => rank[Succ[n][i]] < rank[n]

(***************************************************************************)
(* The end of an acyclic job with one last node is never announced before  *)
(* the tasks of all its nodes have succeeded, whatever the maps lose and   *)
(* however often the manager is restarted.                                 *)
(***************************************************************************)
OverMeansAllRan == \A j \in over : OneEnd(j) => NodesOf(j) \subseteq ran

(***************************************************************************)
(* Every launched job whose nodes are numbered without gaps comes to its   *)
(* end, announced and with a progress of at least 100 percent, unless one  *)
(* of its tasks failed, one of its handlers did not find a successor, or a *)
(* map lost a result or status.  A manager that has thrown knows nothing   *)
(* of the progress any more, but announces the end all the same, as long   *)
(* as its supervisor does not stop it.                                     *)
(***************************************************************************)
NumberedWell(j) == \A n \in NodesOf(j) : n \in Created /\ ~Isolated(n)

Completed(j) == j \in over /\ (restarted \/ (total[j] # 0 /\ Progress(j) >= 100))

JobsEnd ==
    \A j \in Job :
        (launch[j] = "launched" /\ NumberedWell(j)) ~>
            \/ Completed(j) \/ failed \cap NodesOf(j) # {} \/ raced
            \/ (\E n \in NodesOf(j) : CutOff(n)) \/ status = "stopped"

(***************************************************************************)
(* getJobProgress returns the "job progress percent": a percentage is at   *)
(* most 100.                                                               *)
(***************************************************************************)
ProgressIsPercent == \A j \in Job : total[j] # 0 => Progress(j) <= 100

(***************************************************************************)
(* NODE_OVER is the message of the "last node in current job": when it is  *)
(* handled, every node of the job has reported.                            *)
(***************************************************************************)
OverComesLast ==
    [][\A n \in Nid : LET j == JobOf[n]
                      IN HandleOver(Message("OVER", n), j) => success[j] >= total[j]]_schedulerVars

=============================================================================
