----------------------------- MODULE DataHandler -----------------------------
(***************************************************************************)
(* service/job/DataHandler.scala: the actor behind each node of a job, as  *)
(* many of them at once as there are dispatcher threads, and the launch of *)
(* a job by DataNodeManager.run (DataNodeManager.scala) that gives them    *)
(* their first messages.                                                   *)
(*                                                                         *)
(* A handler serves one begin message at a time.  Its pc says how far:     *)
(*   idle    waiting for a message                                         *)
(*   ready   checkRunnable succeeded, the inputs are not fetched yet       *)
(*   data    the task succeeded; the result goes to successor k            *)
(*   mark    the result is registered; successor k is to be signalled      *)
(*   finish  every successor is served                                     *)
(* A scan of a map that only grows is one step: it reports what an atomic  *)
(* read at some point of the scan would.  setRunStatus and the begin after *)
(* it are one step: the message could have been sent at once.              *)
(***************************************************************************)
EXTENDS JobContainer

CONSTANTS
    Job,    \* the jobs whose RUN message arrives
    JobOf,  \* node -> its job
    Pre,    \* node -> its predecessors (NodeIdentity.preNodes)
    Succ,   \* node -> its successors in list order (NodeIdentity.succNodes)
    Created \* the nodes checkNodes creates: 1 to getNodeNum of their job

(* What TaskGraph makes of a job: see its PredecessorsAreSignallers.  A task
   may lead to, or from, a node whose number is not among those created. *)
ASSUME GraphAssumption ==
    /\ JobOf \in [Nid -> Job]
    /\ Pre \in [Nid -> SUBSET Nid]
    /\ Succ \in [Nid -> Seq(Nid)]
    /\ \A p, n \in Nid : p \in Pre[n] <=> /\ p # n
                                          /\ \E i \in DOMAIN Succ[p] : Succ[p][i] = n
    /\ \A n \in Nid : \A i \in DOMAIN Succ[n] : JobOf[Succ[n][i]] = JobOf[n]
    /\ Created \subseteq Nid

VARIABLES
    launch,     \* job -> "pending", "adding" (inside run) or "launched"
    pc,         \* node -> what its handler is doing
    k,          \* node -> index of the successor its handler is serving
    inbox,      \* the messages the handlers sent to the manager
    ran,        \* history: the nodes whose task succeeded
    failed,     \* history: the nodes whose task threw
    signalled,  \* history: the pairs <<p, n>> such that p sent begin to n
    cutOff      \* history: those such that p threw before it came to n

handlerVars == <<pc, k, inbox, ran, failed, signalled, cutOff>>
vars == <<containerVars, launch, handlerVars>>

Messages == [type : {"FIRST", "PRE_START", "FINISH", "OVER"}, node : Nid]

(* The successor being served exists; otherwise the loop starts afresh. *)
IndexOK(n) ==
    IF pc[n] \in {"data", "mark"} THEN k[n] \in 1 .. Len(Succ[n]) ELSE k[n] = 1

TypeOK ==
    /\ ContainerTypeOK
    /\ launch \in [Job -> {"pending", "adding", "launched"}]
    /\ pc \in [Nid -> {"idle", "ready", "data", "mark", "finish"}]
    /\ k \in [Nid -> Nat]
    /\ \A n \in Nid : IndexOK(n)
    /\ inbox \in Seq(Messages)
    /\ ran \subseteq Nid
    /\ failed \subseteq Nid
    /\ signalled \subseteq Nid \X Nid
    /\ cutOff \subseteq Nid \X Nid

Init ==
    /\ ContainerInit
    /\ launch = [j \in Job |-> "pending"]
    /\ pc = [n \in Nid |-> "idle"]
    /\ k = [n \in Nid |-> 1]
    /\ inbox = <<>>
    /\ ran = {}
    /\ failed = {}
    /\ signalled = {}
    /\ cutOff = {}

NodesOf(j) == {n \in Nid : JobOf[n] = j}

CreatedNodes(j) == NodesOf(j) \cap Created

(* findStartNodes: no predecessor, and the source of some task. *)
StartNodes(j) == {n \in CreatedNodes(j) : Pre[n] = {} /\ Succ[n] # <<>>}

(* Mutants of IsLastNode: any only successor counts; the loop does not. *)
IsLastBySingleSuccessor(n) == Len(Succ[n]) <= 1
IsLastWithoutSuccessor(n) == Succ[n] = <<>>

IsFirstNode(n) == Pre[n] = {}

IsLastNode(n) == Succ[n] = <<>> \/ Succ[n] = <<n>>

Message(type, n) == [type |-> type, node |-> n]

(* sendMessage; the sender of every begin message is the manager. *)
SendMessages(messages) == inbox' = inbox \o messages

(* Another handler is inside a put on dataRef, or on nodeStatus. *)
OthersPutData(n) == \E m \in Nid \ {n} : pc[m] = "data"
OthersMark(n) == \E m \in Nid \ {n} : pc[m] = "mark"

(* The manager is inside the puts of checkNodes on nodeRef. *)
NodesBeingAdded == \E j \in Job : launch[j] = "adding"

-----------------------------------------------------------------------------
(* DataNodeManager.run: the manager adds one job's nodes at a time ... *)
BeginLaunch(j) ==
    /\ launch[j] = "pending"
    /\ ~NodesBeingAdded
    /\ launch' = [launch EXCEPT ![j] = "adding"]
    /\ UNCHANGED <<containerVars, handlerVars>>

(* Mutant of EndLaunch: the start nodes are looked up before they are added. *)
EndLaunchEarly(j) ==
    /\ launch[j] = "adding"
    /\ launch' = [launch EXCEPT ![j] = "launched"]
    /\ nodeRef' = nodeRef \cup CreatedNodes(j)
    /\ BeginAll(StartNodes(j) \cap nodeRef)
    /\ UNCHANGED <<dataRef, nodeStatus, raced, handlerVars>>

(* ... and, with all of them in the map, begins the start nodes. *)
EndLaunch(j) ==
    /\ launch[j] = "adding"
    /\ launch' = [launch EXCEPT ![j] = "launched"]
    /\ nodeRef' = nodeRef \cup CreatedNodes(j)
    /\ BeginAll(StartNodes(j))
    /\ UNCHANGED <<dataRef, nodeStatus, raced, handlerVars>>

Receive(n) ==
    /\ pc[n] = "idle"
    /\ mailbox[n] > 0
    /\ mailbox' = [mailbox EXCEPT ![n] = @ - 1]

(* Some predecessor has no status yet, or the read missed it: the message
   is dropped. *)
NotReady(n) ==
    /\ Receive(n)
    /\ ~CheckRunStatus(Pre[n]) \/ (Pre[n] # {} /\ OthersMark(n))
    /\ raced' = (raced \/ CheckRunStatus(Pre[n]))
    /\ UNCHANGED <<dataRef, nodeRef, nodeStatus, launch, handlerVars>>

(* The check passes and the manager hears of it. *)
Prepare(n) ==
    /\ Receive(n)
    /\ CheckRunStatus(Pre[n])
    /\ pc' = [pc EXCEPT ![n] = "ready"]
    /\ SendMessages((IF IsFirstNode(n) THEN <<Message("FIRST", n)>> ELSE <<>>)
                      \o <<Message("PRE_START", n)>>)
    /\ UNCHANGED <<dataRef, nodeRef, nodeStatus, raced, launch, k, ran, failed,
                   signalled, cutOff>>

(* findNodeData throws; the exception is logged and nothing else happens. *)
InputMissing(n) ==
    /\ pc[n] = "ready"
    /\ ~HasNodeData(Pre[n], n) \/ (Pre[n] # {} /\ OthersPutData(n))
    /\ raced' = (raced \/ HasNodeData(Pre[n], n))
    /\ pc' = [pc EXCEPT ![n] = "idle"]
    /\ UNCHANGED <<dataRef, nodeRef, nodeStatus, mailbox, launch, k, inbox, ran,
                   failed, signalled, cutOff>>

(* Mutant of TaskFails: the failure is caught too early and the results are
   handed on all the same. *)
TaskFailsHandsOn(n) ==
    /\ pc[n] = "ready"
    /\ HasNodeData(Pre[n], n)
    /\ Succ[n] # <<>>
    /\ pc' = [pc EXCEPT ![n] = "data"]
    /\ failed' = failed \cup {n}
    /\ UNCHANGED <<containerVars, launch, k, inbox, ran, signalled, cutOff>>

(* handleTask throws: the user's code did, or the node has no command
   because no task leaves it.  Again only the log knows. *)
TaskFails(n) ==
    /\ pc[n] = "ready"
    /\ HasNodeData(Pre[n], n)
    /\ pc' = [pc EXCEPT ![n] = "idle"]
    /\ failed' = failed \cup {n}
    /\ UNCHANGED <<containerVars, launch, k, inbox, ran, signalled, cutOff>>

TaskSucceeds(n) ==
    /\ pc[n] = "ready"
    /\ HasNodeData(Pre[n], n)
    /\ Succ[n] # <<>>
    /\ pc' = [pc EXCEPT ![n] = "data"]
    /\ ran' = ran \cup {n}
    /\ UNCHANGED <<containerVars, launch, k, inbox, failed, signalled, cutOff>>

(* Mutants of NextSuccessor: the loop ends one successor late, or early. *)
NextSuccessorLate(n) ==
    IF k[n] <= Len(Succ[n])
    THEN /\ pc' = [pc EXCEPT ![n] = "data"]
         /\ k' = [k EXCEPT ![n] = @ + 1]
    ELSE /\ pc' = [pc EXCEPT ![n] = "finish"]
         /\ k' = [k EXCEPT ![n] = 1]

NextSuccessorEarly(n) ==
    IF k[n] + 1 < Len(Succ[n])
    THEN /\ pc' = [pc EXCEPT ![n] = "data"]
         /\ k' = [k EXCEPT ![n] = @ + 1]
    ELSE /\ pc' = [pc EXCEPT ![n] = "finish"]
         /\ k' = [k EXCEPT ![n] = 1]

NextSuccessor(n) ==
    IF k[n] < Len(Succ[n])
    THEN /\ pc' = [pc EXCEPT ![n] = "data"]
         /\ k' = [k EXCEPT ![n] = @ + 1]
    ELSE /\ pc' = [pc EXCEPT ![n] = "finish"]
         /\ k' = [k EXCEPT ![n] = 1]

(* addDataRes for successor k; a node that is its own successor is not
   signalled. *)
PutData(n) ==
    LET c == Succ[n][k[n]]
    IN  /\ pc[n] = "data"
        /\ AddDataRes(n, c, OthersPutData(n))
        /\ IF c = n THEN NextSuccessor(n)
                    ELSE pc' = [pc EXCEPT ![n] = "mark"] /\ UNCHANGED k
        /\ UNCHANGED <<nodeRef, nodeStatus, mailbox, launch, inbox, ran, failed,
                       signalled, cutOff>>

(* Mutant of MarkAndBegin: the status of the consumer is set. *)
MarkConsumer(n) ==
    LET c == Succ[n][k[n]]
    IN  /\ pc[n] = "mark"
        /\ c \in nodeRef
        /\ SetRunStatus(c, OthersMark(n))
        /\ BeginAll({c})
        /\ signalled' = signalled \cup {<<n, c>>}
        /\ NextSuccessor(n)
        /\ UNCHANGED <<dataRef, nodeRef, launch, inbox, ran, failed, cutOff>>

(* handleTaskComplete: status first, then begin on the consumer. *)
MarkAndBegin(n) ==
    LET c == Succ[n][k[n]]
    IN  /\ pc[n] = "mark"
        /\ c \in nodeRef
        /\ SetRunStatus(n, OthersMark(n))
        /\ BeginAll({c})
        /\ signalled' = signalled \cup {<<n, c>>}
        /\ NextSuccessor(n)
        /\ UNCHANGED <<dataRef, nodeRef, launch, inbox, ran, failed, cutOff>>

(* findNode has no such consumer, or misses it while another job's nodes are
   added: the cast throws, and the remaining successors get neither data nor
   signal. *)
LookupFails(n) ==
    /\ pc[n] = "mark"
    /\ Succ[n][k[n]] \notin nodeRef \/ NodesBeingAdded
    /\ SetRunStatus(n, OthersMark(n))
    /\ pc' = [pc EXCEPT ![n] = "idle"]
    /\ k' = [k EXCEPT ![n] = 1]
    /\ cutOff' = cutOff \cup {<<n, Succ[n][i]>> : i \in k[n] .. Len(Succ[n])}
    /\ UNCHANGED <<dataRef, nodeRef, mailbox, launch, inbox, ran, failed, signalled>>

Finish(n) ==
    /\ pc[n] = "finish"
    /\ pc' = [pc EXCEPT ![n] = "idle"]
    /\ SendMessages(<<Message("FINISH", n)>>
                      \o (IF IsLastNode(n) THEN <<Message("OVER", n)>> ELSE <<>>))
    /\ UNCHANGED <<containerVars, launch, k, ran, failed, signalled, cutOff>>

(* The manager receives a message; what it does is DataNodeManager's. *)
Take ==
    /\ inbox # <<>>
    /\ inbox' = Tail(inbox)
    /\ UNCHANGED <<containerVars, launch, pc, k, ran, failed, signalled, cutOff>>

Handle(n) ==
    \/ NotReady(n) \/ Prepare(n) \/ InputMissing(n) \/ TaskFails(n) \/ TaskSucceeds(n)
    \/ PutData(n) \/ MarkAndBegin(n) \/ LookupFails(n) \/ Finish(n)

Next ==
    \/ \E j \in Job : BeginLaunch(j) \/ EndLaunch(j)
    \/ \E n \in Nid : Handle(n)
    \/ Take

(* The dispatchers run every actor that has a message and let every handler
   go on; that the manager's run returns is part of it. *)
Fairness ==
    /\ \A n \in Nid : WF_vars(Handle(n))
    /\ \A j \in Job : WF_vars(EndLaunch(j))

Spec == Init /\ [][Next]_vars

FairSpec == Spec /\ Fairness

-----------------------------------------------------------------------------
(***************************************************************************)
(* Whatever the unsynchronised maps do, a handler gets past the check only *)
(* when every predecessor's task has succeeded: a status may get lost, but *)
(* none appears that nobody earned.                                        *)
(***************************************************************************)
PredecessorsFirst ==
    \A n \in Nid : (pc[n] # "idle" \/ n \in ran) => Pre[n] \subseteq ran

Isolated(n) == Pre[n] = {} /\ Succ[n] = <<>>

Signalled(n) ==
    /\ n \in nodeRef
    /\ ~Isolated(n)
    /\ \A p \in Pre[n] : <<p, n>> \in signalled

(***************************************************************************)
(* A handler drops a message that comes before all predecessors are done   *)
(* and never looks again (the TODO in receive).  Still no wakeup is lost   *)
(* as long as no result or status is: once every predecessor has signalled a      *)
(* node, the node has run or failed, is being handled, or has a message    *)
(* left to be handled - though each of its earlier messages may have been  *)
(* dropped, and an attempt between two signals may have found data missing.*)
(***************************************************************************)
NoLostWakeup ==
    \A n \in Nid : (~raced /\ Signalled(n)) =>
        mailbox[n] > 0 \/ pc[n] # "idle" \/ n \in ran \/ n \in failed

FinishSent(n) == \E x \in DOMAIN inbox : inbox[x] = Message("FINISH", n)

HandedOn(n, i) == Succ[n][i] # n => <<n, Succ[n][i]>> \in signalled

(***************************************************************************)
(* NODE_FINISH, which the manager counts as progress of the job, is only   *)
(* sent when all successors have the result and have been signalled.       *)
(***************************************************************************)
FinishedMeansHandedOn ==
    \A n \in Nid : (pc[n] = "finish" \/ FinishSent(n)) =>
        \A i \in DOMAIN Succ[n] : HandedOn(n, i)

(***************************************************************************)
(* A node that is started, or all of whose predecessors ran, is eventually *)
(* run - it succeeds or its task throws - unless a result or status was    *)
(* lost, or a predecessor threw before it came to this node, because it    *)
(* did not find this one or one before it: no job stops short of any other *)
(* node that could run, and a node that is not there stops no more than    *)
(* what comes after it in the lists of its own predecessors.               *)
(***************************************************************************)
CutOff(n) == \E p \in Pre[n] : <<p, n>> \in cutOff

ReadyNodesRun ==
    \A n \in Nid : (n \in nodeRef /\ ~Isolated(n) /\ Pre[n] \subseteq ran)
                       ~> (n \in ran \/ n \in failed \/ CutOff(n) \/ raced)

(***************************************************************************)
(* The handlers implement DependencyOrder.                                 *)
(***************************************************************************)
Order == INSTANCE DependencyOrder WITH known <- nodeRef, done <- ran

OrderSpec == Order!Spec

(***************************************************************************)
(* The comment over the check in receive calls a node that fails it not    *)
(* ready to run; read as a test of readiness, a node that passes it finds  *)
(* the results of all its predecessors.  The status is kept per producer   *)
(* and not per edge, so it does not.                                       *)
(***************************************************************************)
ReadyMeansRunnable ==
    \A n \in Nid : (pc[n] = "ready" /\ ~raced) => HasNodeData(Pre[n], n)

=============================================================================
