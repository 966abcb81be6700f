--------------------------- MODULE DataNodeManager ---------------------------
(***************************************************************************)
(* service/job/DataNodeManager.scala with what it owns: the container in   *)
(* which tasks wait for their job's RUN (data/job/TaskDesContainer.scala), *)
(* the counters behind the progress the UI shows                           *)
(* (observer/JobCountObserver.scala), and the supervision it runs under    *)
(* (JobScheduleListener in MasterSystem.scala).                            *)
(*                                                                         *)
(* Its state and its handlers; Submission puts clients around them,        *)
(* Scheduler the node handlers.                                            *)
(***************************************************************************)
EXTENDS Integers, Sequences

CONSTANTS
    JobId,         \* the full ids (user and job id) of jobs
    MaxRetries   \* maxNrOfRetries of the supervisor

TaskDesc == [source : Nat, target : Nat]

VARIABLES
    container,  \* job -> its assembled tasks, <<>> where the map has no entry
    total,      \* job -> number of nodes, 0 where the map has no entry
    success,    \* job -> NODE_FINISH messages counted
    retries,    \* restarts the supervisor counts in the current time range
    status      \* "running" or "stopped"

managerVars == <<container, total, success, retries, status>>

ManagerTypeOK ==
    /\ container \in [JobId -> Seq(TaskDesc)]
    /\ total \in [JobId -> Nat]
    /\ success \in [JobId -> Nat]
    /\ retries \in 0 .. MaxRetries
    /\ status \in {"running", "stopped"}

(* The number of nodes TaskGraph makes of the tasks: the last slot of its
   arrays counts when some edge touches it. *)
NodeNum(tasks) ==
    LET last == Len(tasks) + 1
    IN IF \E e \in DOMAIN tasks : last \in {tasks[e].source, tasks[e].target}
       THEN last ELSE Len(tasks)

(* Every source has a slot in those arrays; otherwise building them throws. *)
Builds(tasks) == \A e \in DOMAIN tasks : tasks[e].source <= Len(tasks) + 1

(* Mutants of AddTask: the new list holds only the new task, the task goes
   to the front, the other jobs' lists are dropped. *)
AddTaskOverwrites(j, task) ==
    /\ status = "running"
    /\ container' = [container EXCEPT ![j] = <<task>>]
    /\ UNCHANGED <<total, success, retries, status>>

AddTaskInFront(j, task) ==
    /\ status = "running"
    /\ container' = [container EXCEPT ![j] = <<task>> \o @]
    /\ UNCHANGED <<total, success, retries, status>>

AddTaskEvicts(j, task) ==
    /\ status = "running"
    /\ container' = [i \in JobId |-> IF i = j THEN Append(container[j], task) ELSE <<>>]
    /\ UNCHANGED <<total, success, retries, status>>

(* ASSIGN: addTask. *)
AddTask(j, task) ==
    /\ status = "running"
    /\ container' = [container EXCEPT ![j] = Append(@, task)]
    /\ UNCHANGED <<total, success, retries, status>>

(* RUN: getTasksByJob finds tasks and the graph can be built ... *)
CanRun(j) ==
    /\ status = "running"
    /\ container[j] # <<>>
    /\ Builds(container[j])

(* Mutants of CountAndRemove: tasks are counted for nodes; nothing is. *)
CountTasks(j) ==
    /\ total' = [total EXCEPT ![j] = Len(container[j])]
    /\ container' = [container EXCEPT ![j] = <<>>]
    /\ UNCHANGED <<success, retries, status>>

CountNothing(j) ==
    /\ container' = [container EXCEPT ![j] = <<>>]
    /\ UNCHANGED <<total, success, retries, status>>

(* ... and run announces the number of nodes and forgets the tasks. *)
CountAndRemove(j) ==
    /\ total' = [total EXCEPT ![j] = NodeNum(container[j])]
    /\ container' = [container EXCEPT ![j] = <<>>]
    /\ UNCHANGED <<success, retries, status>>

RunThrows(j) ==
    /\ status = "running"
    /\ container[j] = <<>> \/ ~Builds(container[j])

(* Mutant of CountFinish: the old count is not found. *)
CountFinishOnce(j) ==
    /\ status = "running"
    /\ total[j] # 0
    /\ success' = [success EXCEPT ![j] = 1]
    /\ UNCHANGED <<container, total, retries, status>>

(* NODE_FINISH: handleFinish, the update of the observer. *)
CountFinish(j) ==
    /\ status = "running"
    /\ total[j] # 0
    /\ success' = [success EXCEPT ![j] = @ + 1]
    /\ UNCHANGED <<container, total, retries, status>>

(* getJobProgress does not know the job. *)
FinishThrows(j) ==
    /\ status = "running"
    /\ total[j] = 0

(* getJobProgress, of a job it knows (in doubles there; the rounding can only
   differ below 100, and for totals larger than the ones TLC meets). *)
Progress(j) == (success[j] * 100) \div total[j]

(***************************************************************************)
(* The supervisor's answer to an exception: the failing message is gone    *)
(* and a new instance, with nothing in its maps, takes over the mailbox;   *)
(* after too many restarts within the time range it stops instead.  The    *)
(* time range may have run out and a new one begun at any failure.         *)
(***************************************************************************)
Restart ==
    /\ retries' \in {retries + 1, 1} \cap 1 .. MaxRetries
    /\ container' = [j \in JobId |-> <<>>]
    /\ total' = [j \in JobId |-> 0]
    /\ success' = [j \in JobId |-> 0]
    /\ UNCHANGED status

Stop ==
    /\ retries = MaxRetries
    /\ status' = "stopped"
    /\ UNCHANGED <<container, total, success, retries>>

Supervise == Restart \/ Stop

=============================================================================
