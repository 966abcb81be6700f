----------------------------- MODULE Submission -----------------------------
(***************************************************************************)
(* Clients that submit jobs (service/client/SchedulerSubmit.scala and      *)
(* SingleService.scala) to the node manager.  A submission is its tasks,   *)
(* one ASSIGN message each, and a RUN message.  Every one is an ask that   *)
(* nobody answers and nobody repeats: it may be lost, and the client never *)
(* learns.  The messages of one client keep their order (one association   *)
(* carries them), those of different clients interleave, and so do the     *)
(* NODE_FINISH messages of the jobs that run.                              *)
(*                                                                         *)
(* The job id is a time of day with a resolution of one second: clients    *)
(* may share one.  Running nodes are reduced to their messages; Scheduler  *)
(* has them in full.                                                       *)
(***************************************************************************)
EXTENDS DataNodeManager, SequencesExt

CONSTANTS
    Client,   \* submissions
    JobKey,   \* client -> the full id of the job it submits
    Tasks,    \* client -> the tasks it submits
    Reports   \* bound: NODE_FINISH messages per node of a launch (a join may send several)

ASSUME SubmissionAssumption ==
    /\ JobKey \in [Client -> JobId]
    /\ Tasks \in [Client -> Seq(TaskDesc)]
    /\ MaxRetries \in Nat \ {0}
    /\ Reports \in Nat

VARIABLES
    next,      \* client -> index of its next message; RUN follows the last task
    pending,   \* job -> NODE_FINISH messages its nodes may still send
    inbox,     \* job -> NODE_FINISH messages the manager has not received
    ranWith,   \* history: job -> the tasks of its last launch
    lost,      \* history: the clients that lost a message
    wiped      \* history: the jobs whose tasks a restart discarded

clientVars == <<next, lost>>
nodeVars == <<pending, inbox>>
vars == <<managerVars, clientVars, nodeVars, ranWith, wiped>>

TypeOK ==
    /\ ManagerTypeOK
    /\ next \in [Client -> Nat]
    /\ \A c \in Client : next[c] \in 1 .. Len(Tasks[c]) + 2
    /\ pending \in [JobId -> Nat]
    /\ inbox \in [JobId -> Nat]
    /\ ranWith \in [JobId -> Seq(TaskDesc)]
    /\ lost \subseteq Client
    /\ wiped \subseteq JobId

Init ==
    /\ container = [j \in JobId |-> <<>>]
    /\ total = [j \in JobId |-> 0]
    /\ success = [j \in JobId |-> 0]
    /\ retries = 0
    /\ status = "running"
    /\ next = [c \in Client |-> 1]
    /\ pending = [j \in JobId |-> 0]
    /\ inbox = [j \in JobId |-> 0]
    /\ ranWith = [j \in JobId |-> <<>>]
    /\ lost = {}
    /\ wiped = {}

IsAssign(c) == next[c] <= Len(Tasks[c])
IsRun(c) == next[c] = Len(Tasks[c]) + 1
Sent(c) == next' = [next EXCEPT ![c] = @ + 1]

Crash ==
    /\ Supervise
    /\ wiped' = wiped \cup {j \in JobId : container[j] # <<>> /\ container'[j] = <<>>}

-----------------------------------------------------------------------------
Assign(c) ==
    /\ IsAssign(c)
    /\ AddTask(JobKey[c], Tasks[c][next[c]])
    /\ Sent(c)
    /\ UNCHANGED <<lost, nodeVars, ranWith, wiped>>

Run(c) ==
    LET j == JobKey[c]
    IN  /\ IsRun(c)
        /\ CanRun(j)
        /\ CountAndRemove(j)
        /\ ranWith' = [ranWith EXCEPT ![j] = container[j]]
        /\ pending' = [pending EXCEPT ![j] = @ + Reports * NodeNum(container[j])]
        /\ Sent(c)
        /\ UNCHANGED <<lost, inbox, wiped>>

RunFails(c) ==
    /\ IsRun(c)
    /\ RunThrows(JobKey[c])
    /\ Crash
    /\ Sent(c)
    /\ UNCHANGED <<lost, nodeVars, ranWith>>

(* The association drops the message. *)
Lose(c) ==
    /\ IsAssign(c) \/ IsRun(c)
    /\ Sent(c)
    /\ lost' = lost \cup {c}
    /\ UNCHANGED <<managerVars, nodeVars, ranWith, wiped>>

(* A stopped manager's messages become dead letters. *)
DeadLetter(c) ==
    /\ status = "stopped"
    /\ IsAssign(c) \/ IsRun(c)
    /\ Sent(c)
    /\ UNCHANGED <<managerVars, lost, nodeVars, ranWith, wiped>>

NodeFinishes(j) ==
    /\ pending[j] > 0
    /\ pending' = [pending EXCEPT ![j] = @ - 1]
    /\ inbox' = [inbox EXCEPT ![j] = @ + 1]
    /\ UNCHANGED <<managerVars, clientVars, ranWith, wiped>>

Receive(j) ==
    /\ inbox[j] > 0
    /\ inbox' = [inbox EXCEPT ![j] = @ - 1]
    /\ UNCHANGED <<clientVars, pending, ranWith>>

Finish(j) == Receive(j) /\ CountFinish(j) /\ UNCHANGED wiped

FinishFails(j) == Receive(j) /\ FinishThrows(j) /\ Crash

Submit(c) == Assign(c) \/ Run(c) \/ RunFails(c) \/ DeadLetter(c)

Next ==
    \/ \E c \in Client : Submit(c) \/ Lose(c)
    \/ \E j \in JobId : NodeFinishes(j) \/ Finish(j) \/ FinishFails(j)

(* A message that is not lost is received. *)
Spec == Init /\ [][Next]_vars /\ \A c \in Client : WF_vars(Submit(c))

-----------------------------------------------------------------------------
Alone(c) == \A d \in Client \ {c} : JobKey[d] # JobKey[c]

(***************************************************************************)
(* A job that no other submission shares an id with is launched with all   *)
(* its tasks or not at all, except that messages get lost or a restart     *)
(* throws away what was assembled.                                         *)
(***************************************************************************)
LaunchedWhole ==
    \A c \in Client : (Alone(c) /\ c \notin lost /\ JobKey[c] \notin wiped) =>
        ranWith[JobKey[c]] \in {<<>>, Tasks[c]}

(***************************************************************************)
(* After a restart a job may go on assembling and be launched without the  *)
(* tasks the restart discarded.  What is launched then is a suffix of the  *)
(* job: nothing is repeated, reordered or taken from other jobs.           *)
(***************************************************************************)
LaunchedSuffix ==
    \A c \in Client : (Alone(c) /\ c \notin lost) =>
        IsSuffix(ranWith[JobKey[c]], Tasks[c])

(***************************************************************************)
(* The counters of a job describe its last launch: the denominator of its  *)
(* progress is the number of nodes that were created for it, however       *)
(* restarts and launches of other jobs came in between.                    *)
(***************************************************************************)
TotalsAreOfLaunches ==
    \A j \in JobId : total[j] # 0 => ranWith[j] # <<>> /\ total[j] = NodeNum(ranWith[j])

(***************************************************************************)
(* A submission is launched, unless one of its messages was lost, the      *)
(* tasks were discarded by a restart, it cannot be built at all, or the    *)
(* manager has been stopped.                                               *)
(***************************************************************************)
SubmissionsAreLaunched ==
    \A c \in Client : (Alone(c) /\ Tasks[c] # <<>> /\ Builds(Tasks[c])) =>
        <>(\/ ranWith[JobKey[c]] # <<>>
           \/ c \in lost \/ JobKey[c] \in wiped \/ status = "stopped")

(***************************************************************************)
(* What the supervisor prints when a message made the manager throw -      *)
(* "resume worker" - is not what it does: resumed, the worker would keep   *)
(* what it has of the other jobs.                                          *)
(***************************************************************************)
FailureSparesOthers ==
    [][\A c \in Client : RunFails(c) =>
          \A j \in JobId \ {JobKey[c]} : container'[j] = container[j] /\ total'[j] = total[j]]_vars

=============================================================================
