--------------------------- MODULE SchedulerProofs ---------------------------
(***************************************************************************)
(* Proofs about the handlers, for every set of jobs and every graph that    *)
(* GraphAssumption admits, and about the composition: the handlers under the*)
(* real manager are those of DataHandler, and the manager knows the jobs they*)
(* report on.                                                               *)
(***************************************************************************)
EXTENDS Scheduler, SequenceTheorems, WellFoundedInduction, TLAPS

(* What a put leaves is a part of the old keys and the new entry. *)
LEMMA AfterPutBounds ==
    ASSUME NEW keys, NEW entry, NEW overlapped, NEW res \in AfterPut(keys, entry, overlapped)
    PROVE  res \subseteq keys \cup {entry}
BY DEF AfterPut

(* A message about a known node is one of the messages. *)
LEMMA MessageTyped ==
    ASSUME NEW n \in Nid, NEW t \in {"FIRST", "PRE_START", "FINISH", "OVER"}
    PROVE  Message(t, n) \in Messages
BY DEF Message, Messages

(* Predecessors and successors of a node are nodes. *)
LEMMA GraphTyped ==
    /\ Pre \in [Nid -> SUBSET Nid]
    /\ Succ \in [Nid -> Seq(Nid)]
    /\ \A n \in Nid : Succ[n] # <<>> => Len(Succ[n]) \in Nat \ {0}
BY GraphAssumption, EmptySeq

(* The successor index stays in the list, whichever way it moves. *)
LEMMA NextSuccessorTyped ==
    ASSUME TypeOK, NEW n \in Nid, pc[n] \in {"data", "mark"}, NextSuccessor(n)
    PROVE  /\ pc' \in [Nid -> {"idle", "ready", "data", "mark", "finish"}]
           /\ k' \in [Nid -> Nat]
           /\ \A m \in Nid : IndexOK(m)'
<1>1. k[n] \in 1 .. Len(Succ[n]) /\ Len(Succ[n]) \in Nat
  BY GraphTyped DEF TypeOK, IndexOK
<1>2. pc \in [Nid -> {"idle", "ready", "data", "mark", "finish"}] /\ k \in [Nid -> Nat]
  BY DEF TypeOK
<1>3. pc' \in [Nid -> {"idle", "ready", "data", "mark", "finish"}] /\ k' \in [Nid -> Nat]
  BY <1>1, <1>2 DEF NextSuccessor
<1>4. IndexOK(n)'
  BY <1>1, <1>2 DEF NextSuccessor, IndexOK
<1>5. ASSUME NEW m \in Nid, m # n PROVE IndexOK(m)'
  <2>1. pc'[m] = pc[m] /\ k'[m] = k[m]
    BY <1>2, <1>5 DEF NextSuccessor
  <2>2. QED BY <2>1 DEF TypeOK, IndexOK
<1>6. QED BY <1>3, <1>4, <1>5

(* TypeOK is an invariant of the specification. *)
THEOREM TypeCorrect == Spec => []TypeOK
<1>1. Init => TypeOK
  <2> SUFFICES ASSUME Init PROVE TypeOK
    OBVIOUS
  <2>1. inbox \in Seq(Messages)
    BY DEF Init
  <2>2. \A n \in Nid : IndexOK(n)
    BY DEF Init, IndexOK
  <2>3. ContainerTypeOK
    BY DEF Init, ContainerInit, ContainerTypeOK
  <2>4. QED BY <2>1, <2>2, <2>3 DEF Init, TypeOK
<1>2. TypeOK /\ [Next]_vars => TypeOK'
  <2> SUFFICES ASSUME TypeOK, [Next]_vars PROVE TypeOK'
    OBVIOUS
  <2> USE DEF TypeOK, ContainerTypeOK, IndexOK
  <2>1. ASSUME NEW j \in Job, BeginLaunch(j) PROVE TypeOK'
    BY <2>1 DEF BeginLaunch, containerVars, handlerVars
  <2>2. ASSUME NEW j \in Job, EndLaunch(j) PROVE TypeOK'
    BY <2>2 DEF EndLaunch, handlerVars, BeginAll, CreatedNodes, NodesOf
  <2>3. ASSUME NEW n \in Nid, NotReady(n) PROVE TypeOK'
    <3>1. mailbox' \in [Nid -> Nat]
      BY <2>3 DEF NotReady, Receive
    <3>2. raced' \in BOOLEAN
      BY <2>3 DEF NotReady
    <3>3. QED BY <2>3, <3>1, <3>2 DEF NotReady, handlerVars
  <2>4. ASSUME NEW n \in Nid, Prepare(n) PROVE TypeOK'
    <3>1. inbox' \in Seq(Messages)
      BY <2>4, MessageTyped DEF Prepare, SendMessages
    <3>2. mailbox' \in [Nid -> Nat]
      BY <2>4 DEF Prepare, Receive
    <3>3. QED BY <2>4, <3>1, <3>2 DEF Prepare, Receive
  <2>5. ASSUME NEW n \in Nid, InputMissing(n) PROVE TypeOK'
    <3>1. raced' \in BOOLEAN
      BY <2>5 DEF InputMissing
    <3>2. QED BY <2>5, <3>1 DEF InputMissing
  <2>6. ASSUME NEW n \in Nid, TaskFails(n) PROVE TypeOK'
    BY <2>6 DEF TaskFails, containerVars
  <2>7. ASSUME NEW n \in Nid, TaskSucceeds(n) PROVE TypeOK'
    <3>1. Succ[n] # <<>> /\ pc[n] = "ready"
      BY <2>7 DEF TaskSucceeds
    <3>2. Len(Succ[n]) \in Nat \ {0}
      BY ONLY <3>1, GraphTyped, n \in Nid
    <3>3. k[n] = 1
      BY <3>1
    <3>4. 1 \in 1 .. Len(Succ[n])
      BY ONLY <3>2
    <3>5. QED BY <2>7, <3>3, <3>4 DEF TaskSucceeds, containerVars
  <2>8. ASSUME NEW n \in Nid, PutData(n) PROVE TypeOK'
    <3>1. Succ[n][k[n]] \in Nid
      BY <2>8, GraphTyped DEF PutData
    <3>2. dataRef' \subseteq Nid \X Nid /\ raced' \in BOOLEAN
      BY <2>8, <3>1, AfterPutBounds DEF PutData, AddDataRes
    <3>3. CASE Succ[n][k[n]] = n
      BY <2>8, <3>2, <3>3, NextSuccessorTyped DEF PutData
    <3>4. CASE Succ[n][k[n]] # n
      BY <2>8, <3>2, <3>4 DEF PutData
    <3>5. QED BY <3>3, <3>4
  <2>9. ASSUME NEW n \in Nid, MarkAndBegin(n) PROVE TypeOK'
    <3>1. Succ[n][k[n]] \in Nid
      BY <2>9, GraphTyped DEF MarkAndBegin
    <3>2. nodeStatus' \subseteq Nid /\ raced' \in BOOLEAN
      BY <2>9, AfterPutBounds DEF MarkAndBegin, SetRunStatus
    <3>3. mailbox' \in [Nid -> Nat]
      BY <2>9 DEF MarkAndBegin, BeginAll
    <3>4. signalled' \subseteq Nid \X Nid
      BY <2>9, <3>1 DEF MarkAndBegin
    <3>5. NextSuccessor(n) /\ pc[n] \in {"data", "mark"}
      BY <2>9 DEF MarkAndBegin
    <3>6. QED BY ONLY <2>9, <3>2, <3>3, <3>4, <3>5, NextSuccessorTyped, TypeOK
                 DEF MarkAndBegin
  <2>10. ASSUME NEW n \in Nid, LookupFails(n) PROVE TypeOK'
    <3>1. nodeStatus' \subseteq Nid /\ raced' \in BOOLEAN
      BY <2>10, AfterPutBounds DEF LookupFails, SetRunStatus
    <3>2. k[n] \in 1 .. Len(Succ[n])
      BY <2>10 DEF LookupFails
    <3>3. \A i \in k[n] .. Len(Succ[n]) : Succ[n][i] \in Nid
      BY ONLY <3>2, GraphTyped, n \in Nid
    <3>4. cutOff' \subseteq Nid \X Nid
      BY <2>10, <3>3 DEF LookupFails
    <3>5. QED BY <2>10, <3>1, <3>4 DEF LookupFails
  <2>11. ASSUME NEW n \in Nid, Finish(n) PROVE TypeOK'
    <3>1. inbox' \in Seq(Messages)
      BY <2>11, MessageTyped DEF Finish, SendMessages
    <3>2. QED BY <2>11, <3>1 DEF Finish, containerVars
  <2>12. CASE Take
    BY <2>12 DEF Take, containerVars
  <2>13. CASE UNCHANGED vars
    BY <2>13 DEF vars, containerVars, handlerVars
  <2>14. QED
    BY <2>1, <2>2, <2>3, <2>4, <2>5, <2>6, <2>7, <2>8, <2>9, <2>10, <2>11, <2>12, <2>13
       DEF Next, Handle
<1>3. QED BY <1>1, <1>2, PTL DEF Spec

-----------------------------------------------------------------------------
(***************************************************************************)
(* PredecessorsFirst is not inductive: it needs to know where a status     *)
(* comes from.  A status is only ever put by a handler past its task, and  *)
(* a put, raced or not, leaves nothing in the map but what was there and   *)
(* what is put.                                                            *)
(***************************************************************************)
Earned ==
    /\ nodeStatus \subseteq ran
    /\ \A n \in Nid : pc[n] \in {"data", "mark", "finish"} => n \in ran

OrderInv == Earned /\ PredecessorsFirst

(* What a step may do to the state OrderInv speaks of. *)
LEMMA OrderInvStep ==
    ASSUME TypeOK, OrderInv, [Next]_vars
    PROVE  OrderInv'
<1> USE DEF TypeOK, ContainerTypeOK, OrderInv, Earned, PredecessorsFirst
<1>1. ASSUME NEW j \in Job, BeginLaunch(j) \/ EndLaunch(j) PROVE OrderInv'
  BY <1>1 DEF BeginLaunch, EndLaunch, containerVars, handlerVars
<1>2. ASSUME NEW n \in Nid, NotReady(n) PROVE OrderInv'
  BY <1>2 DEF NotReady, handlerVars
<1>3. ASSUME NEW n \in Nid, Prepare(n) PROVE OrderInv'
  <2>1. Pre[n] \subseteq ran
    BY <1>3 DEF Prepare, CheckRunStatus
  <2>2. QED BY <1>3, <2>1 DEF Prepare
<1>4. ASSUME NEW n \in Nid, InputMissing(n) \/ TaskFails(n) \/ Finish(n) PROVE OrderInv'
  BY <1>4 DEF InputMissing, TaskFails, Finish, containerVars
<1>5. ASSUME NEW n \in Nid, TaskSucceeds(n) PROVE OrderInv'
  <2>1. Pre[n] \subseteq ran
    BY <1>5 DEF TaskSucceeds
  <2>2. QED BY <1>5, <2>1 DEF TaskSucceeds, containerVars
<1>6. ASSUME NEW n \in Nid, PutData(n) PROVE OrderInv'
  <2>1. n \in ran
    BY <1>6 DEF PutData
  <2>2. pc' \in {[pc EXCEPT ![n] = s] : s \in {"data", "mark", "finish"}}
    BY <1>6 DEF PutData, NextSuccessor
  <2>3. QED BY <1>6, <2>1, <2>2 DEF PutData
<1>7. ASSUME NEW n \in Nid, MarkAndBegin(n) PROVE OrderInv'
  <2>1. n \in ran
    BY <1>7 DEF MarkAndBegin
  <2>2. nodeStatus' \subseteq nodeStatus \cup {n}
    BY <1>7, AfterPutBounds DEF MarkAndBegin, SetRunStatus
  <2>3. pc' \in {[pc EXCEPT ![n] = s] : s \in {"data", "finish"}}
    BY <1>7 DEF MarkAndBegin, NextSuccessor
  <2>4. QED BY <1>7, <2>1, <2>2, <2>3 DEF MarkAndBegin
<1>8. ASSUME NEW n \in Nid, LookupFails(n) PROVE OrderInv'
  <2>1. n \in ran
    BY <1>8 DEF LookupFails
  <2>2. nodeStatus' \subseteq nodeStatus \cup {n}
    BY <1>8, AfterPutBounds DEF LookupFails, SetRunStatus
  <2>3. QED BY <1>8, <2>1, <2>2 DEF LookupFails
<1>9. CASE Take \/ UNCHANGED vars
  BY <1>9 DEF Take, vars, containerVars, handlerVars
<1>10. QED
  BY <1>1, <1>2, <1>3, <1>4, <1>5, <1>6, <1>7, <1>8, <1>9 DEF Next, Handle

(* No node's handler passes the check before all predecessors have run,
   lost map entries or not. *)
THEOREM PredecessorsComeFirst == Spec => []PredecessorsFirst
<1>1. Init => OrderInv
  BY DEF Init, ContainerInit, OrderInv, Earned, PredecessorsFirst
<1>2. TypeOK /\ OrderInv /\ [Next]_vars => OrderInv'
  BY OrderInvStep
<1>3. OrderInv => PredecessorsFirst
  BY DEF OrderInv
<1>4. QED BY <1>1, <1>2, <1>3, TypeCorrect, PTL DEF Spec

-----------------------------------------------------------------------------
(* Only registered nodes receive messages: the refinement needs it, for a
   node must be known before it is done. *)
Registered == \A n \in Nid : (mailbox[n] > 0 \/ pc[n] # "idle") => n \in nodeRef

(* No step lets a handler work for a node that is not in nodeRef. *)
LEMMA RegisteredStep ==
    ASSUME TypeOK, Registered, [Next]_vars
    PROVE  Registered'
<1> USE DEF TypeOK, ContainerTypeOK, Registered
<1>1. ASSUME NEW j \in Job, BeginLaunch(j) PROVE Registered'
  BY <1>1 DEF BeginLaunch, containerVars, handlerVars
<1>2. ASSUME NEW j \in Job, EndLaunch(j) PROVE Registered'
  BY <1>2 DEF EndLaunch, handlerVars, BeginAll, StartNodes
<1>3. ASSUME NEW n \in Nid, NotReady(n) PROVE Registered'
  BY <1>3 DEF NotReady, Receive, handlerVars
<1>4. ASSUME NEW n \in Nid, Prepare(n) PROVE Registered'
  BY <1>4 DEF Prepare, Receive
<1>5. ASSUME NEW n \in Nid,
             InputMissing(n) \/ TaskFails(n) \/ TaskSucceeds(n) \/ LookupFails(n) \/ Finish(n)
      PROVE  Registered'
  BY <1>5 DEF InputMissing, TaskFails, TaskSucceeds, LookupFails, Finish, containerVars
<1>6. ASSUME NEW n \in Nid, PutData(n) PROVE Registered'
  <2>1. n \in nodeRef
    BY <1>6 DEF PutData
  <2>2. pc' \in {[pc EXCEPT ![n] = s] : s \in {"data", "mark", "finish"}}
    BY <1>6 DEF PutData, NextSuccessor
  <2>3. QED BY <1>6, <2>1, <2>2 DEF PutData
<1>7. ASSUME NEW n \in Nid, MarkAndBegin(n) PROVE Registered'
  <2>1. n \in nodeRef
    BY <1>7 DEF MarkAndBegin
  <2>2. pc' \in {[pc EXCEPT ![n] = s] : s \in {"data", "finish"}}
    BY <1>7 DEF MarkAndBegin, NextSuccessor
  <2>3. QED BY <1>7, <2>1, <2>2 DEF MarkAndBegin, BeginAll
<1>8. CASE Take \/ UNCHANGED vars
  BY <1>8 DEF Take, vars, containerVars, handlerVars
<1>9. QED
  BY <1>1, <1>2, <1>3, <1>4, <1>5, <1>6, <1>7, <1>8 DEF Next, Handle

(* Every step of the handlers is a step of DependencyOrder or none. *)
LEMMA OrderStep ==
    ASSUME TypeOK, OrderInv, Registered, [Next]_vars
    PROVE  [Order!Next]_<<nodeRef, ran>>
<1>1. ASSUME NEW j \in Job, EndLaunch(j) PROVE Order!Start(j)
  BY <1>1, GraphAssumption DEF EndLaunch, CreatedNodes, NodesOf, handlerVars, Order!Start
<1>2. ASSUME NEW n \in Nid, TaskSucceeds(n) PROVE Order!Run(n)
  <2>1. n \in nodeRef /\ Pre[n] \subseteq ran
    BY <1>2 DEF TaskSucceeds, Registered, OrderInv, PredecessorsFirst
  <2>2. QED BY <1>2, <2>1 DEF TaskSucceeds, containerVars, Order!Run
<1>3. ASSUME NEW n \in Nid, Handle(n), ~TaskSucceeds(n) PROVE UNCHANGED <<nodeRef, ran>>
  BY <1>3 DEF Handle, NotReady, Prepare, InputMissing, TaskFails, PutData, MarkAndBegin,
              LookupFails, Finish, containerVars, handlerVars
<1>4. ASSUME NEW j \in Job, BeginLaunch(j) PROVE UNCHANGED <<nodeRef, ran>>
  BY <1>4 DEF BeginLaunch, containerVars, handlerVars
<1>5. CASE Take \/ UNCHANGED vars
  BY <1>5 DEF Take, vars, containerVars, handlerVars
<1>6. QED BY <1>1, <1>2, <1>3, <1>4, <1>5 DEF Next, Order!Next

(* The handlers implement the abstract order of a job's nodes. *)
THEOREM ImplementsOrder == Spec => OrderSpec
<1>1. Init => OrderInv /\ Registered /\ Order!Init
  BY DEF Init, ContainerInit, OrderInv, Earned, PredecessorsFirst, Registered, Order!Init
<1>2. TypeOK /\ OrderInv /\ Registered /\ [Next]_vars
        => OrderInv' /\ Registered' /\ [Order!Next]_<<nodeRef, ran>>
  BY OrderInvStep, RegisteredStep, OrderStep
<1>3. QED BY <1>1, <1>2, TypeCorrect, PTL DEF Spec, OrderSpec, Order!Spec

-----------------------------------------------------------------------------
(***************************************************************************)
(* Why no wakeup is lost.  A signal is sent after the result and the       *)
(* status are in the maps, and both stay there (SignalsStand).  So once    *)
(* all predecessors of a node have signalled it, neither NotReady nor      *)
(* InputMissing can take its message: the next attempt reaches the task.   *)
(* And the last of the signals is itself such a message.                   *)
(***************************************************************************)
SignalsStand ==
    \A p, n \in Nid : <<p, n>> \in signalled =>
        n \in nodeRef /\ (~raced => p \in nodeStatus /\ <<p, n>> \in dataRef)

ResultsStand ==
    \A n \in Nid : (pc[n] = "mark" /\ ~raced) => <<n, Succ[n][k[n]]>> \in dataRef

WakeInv == SignalsStand /\ ResultsStand /\ NoLostWakeup

(* The case of a step that leaves the maps, the signals and the successor
   index alone, and every node's prospects no worse. *)
LEMMA WakeFrame ==
    ASSUME WakeInv,
           UNCHANGED <<nodeRef, signalled>>,
           ~raced' => ~raced /\ UNCHANGED <<nodeStatus, dataRef>>,
           \A n \in Nid : pc'[n] = "mark" => pc[n] = "mark" /\ k'[n] = k[n],
           ~raced' => \A n \in Nid : Signalled(n)
                         => \/ mailbox'[n] > 0 \/ pc'[n] # "idle"
                            \/ n \in ran' \/ n \in failed'
    PROVE  WakeInv'
<1>1. SignalsStand'
  BY DEF WakeInv, SignalsStand
<1>2. ResultsStand'
  BY DEF WakeInv, ResultsStand
<1>3. NoLostWakeup'
  BY DEF NoLostWakeup, Signalled
<1>4. QED BY <1>1, <1>2, <1>3 DEF WakeInv

(* A node all of whose predecessors have signalled it finds their statuses
   and results. *)
LEMMA SignalledIsRunnable ==
    ASSUME TypeOK, WakeInv, ~raced, NEW n \in Nid, Signalled(n)
    PROVE  CheckRunStatus(Pre[n]) /\ HasNodeData(Pre[n], n)
<1>1. Pre[n] \subseteq Nid
  BY GraphTyped
<1>2. ASSUME NEW p \in Pre[n] PROVE p \in nodeStatus /\ <<p, n>> \in dataRef
  BY <1>1 DEF Signalled, WakeInv, SignalsStand
<1>3. QED BY <1>2 DEF CheckRunStatus, HasNodeData

(* WakeInv is inductive: one case for every action of a handler. *)
LEMMA WakeInvStep ==
    ASSUME TypeOK, OrderInv, WakeInv, [Next]_vars
    PROVE  WakeInv'
<1>1. ASSUME NEW j \in Job, BeginLaunch(j) PROVE WakeInv'
  <2>1. \A n \in Nid : (~raced /\ Signalled(n)) =>
            mailbox'[n] > 0 \/ pc'[n] # "idle" \/ n \in ran' \/ n \in failed'
    BY <1>1 DEF BeginLaunch, containerVars, handlerVars, WakeInv, NoLostWakeup
  <2>2. QED BY <1>1, <2>1, WakeFrame DEF BeginLaunch, containerVars, handlerVars
<1>2. ASSUME NEW j \in Job, EndLaunch(j) PROVE WakeInv'
  <2>1. SignalsStand' /\ ResultsStand'
    BY <1>2 DEF EndLaunch, handlerVars, WakeInv, SignalsStand, ResultsStand
  <2>2. ASSUME NEW n \in Nid, ~raced, Signalled(n)'
        PROVE  mailbox'[n] > 0 \/ pc'[n] # "idle" \/ n \in ran' \/ n \in failed'
    <3>1. mailbox[n] \in Nat /\ mailbox'[n] \in {mailbox[n], mailbox[n] + 1}
      BY <1>2 DEF EndLaunch, BeginAll, TypeOK, ContainerTypeOK
    <3>2. CASE n \in nodeRef
      <4>1. Signalled(n)
        BY <1>2, <2>2, <3>2 DEF EndLaunch, handlerVars, Signalled
      <4>2. mailbox[n] > 0 \/ pc[n] # "idle" \/ n \in ran \/ n \in failed
        BY <2>2, <4>1 DEF WakeInv, NoLostWakeup
      <4>3. mailbox[n] > 0 => mailbox'[n] > 0
        BY <3>1
      <4>4. QED BY <1>2, <4>2, <4>3 DEF EndLaunch, handlerVars
    <3>3. CASE n \notin nodeRef
      <4>1. ASSUME NEW p \in Pre[n] PROVE FALSE
        BY <1>2, <2>2, <3>3, <4>1, GraphTyped
           DEF EndLaunch, handlerVars, WakeInv, SignalsStand, Signalled
      <4>2. n \in CreatedNodes(j)
        BY <1>2, <2>2, <3>3 DEF EndLaunch, Signalled
      <4>3. n \in StartNodes(j)
        BY <2>2, <4>1, <4>2 DEF StartNodes, Signalled, Isolated
      <4>4. mailbox'[n] = mailbox[n] + 1
        BY <1>2, <4>3 DEF EndLaunch, BeginAll
      <4>5. QED BY <3>1, <4>4
    <3>4. QED BY <3>2, <3>3
  <2>3. NoLostWakeup'
    BY <1>2, <2>2 DEF EndLaunch, NoLostWakeup
  <2>4. QED BY <2>1, <2>3 DEF WakeInv
<1>3. ASSUME NEW n \in Nid, NotReady(n) PROVE WakeInv'
  <2>1. ASSUME ~raced', NEW m \in Nid, Signalled(m)
        PROVE  mailbox'[m] > 0 \/ pc'[m] # "idle" \/ m \in ran' \/ m \in failed'
    <3>1. ~raced /\ ~CheckRunStatus(Pre[n])
      BY <1>3, <2>1 DEF NotReady
    <3>2. m # n
      BY <2>1, <3>1, SignalledIsRunnable
    <3>3. mailbox'[m] = mailbox[m]
      BY <1>3, <3>2 DEF NotReady, Receive, TypeOK, ContainerTypeOK
    <3>4. QED BY <1>3, <2>1, <3>1, <3>3 DEF NotReady, handlerVars, WakeInv, NoLostWakeup
  <2>2. ~raced' => ~raced /\ UNCHANGED <<nodeStatus, dataRef>>
    BY <1>3 DEF NotReady
  <2>3. QED BY <1>3, <2>1, <2>2, WakeFrame DEF NotReady, handlerVars
<1>4. ASSUME NEW n \in Nid, Prepare(n) PROVE WakeInv'
  <2>1. ASSUME ~raced', NEW m \in Nid, Signalled(m)
        PROVE  mailbox'[m] > 0 \/ pc'[m] # "idle" \/ m \in ran' \/ m \in failed'
    <3>1. CASE m = n
      BY <1>4, <3>1 DEF Prepare, TypeOK
    <3>2. CASE m # n
      BY <1>4, <2>1, <3>2
         DEF Prepare, Receive, TypeOK, ContainerTypeOK, WakeInv, NoLostWakeup
    <3>3. QED BY <3>1, <3>2
  <2>2. \A m \in Nid : pc'[m] = "mark" => pc[m] = "mark" /\ k'[m] = k[m]
    BY <1>4 DEF Prepare, TypeOK
  <2>3. QED BY <1>4, <2>1, <2>2, WakeFrame DEF Prepare
<1>5. ASSUME NEW n \in Nid, InputMissing(n) PROVE WakeInv'
  <2>1. ASSUME ~raced', NEW m \in Nid, Signalled(m)
        PROVE  mailbox'[m] > 0 \/ pc'[m] # "idle" \/ m \in ran' \/ m \in failed'
    <3>1. ~raced /\ ~HasNodeData(Pre[n], n)
      BY <1>5, <2>1 DEF InputMissing
    <3>2. m # n
      BY <2>1, <3>1, SignalledIsRunnable
    <3>3. pc'[m] = pc[m]
      BY <1>5, <3>2 DEF InputMissing, TypeOK
    <3>4. QED BY <1>5, <2>1, <3>1, <3>3 DEF InputMissing, WakeInv, NoLostWakeup
  <2>2. \A m \in Nid : pc'[m] = "mark" => pc[m] = "mark" /\ k'[m] = k[m]
    BY <1>5 DEF InputMissing, TypeOK
  <2>3. ~raced' => ~raced /\ UNCHANGED <<nodeStatus, dataRef>>
    BY <1>5 DEF InputMissing
  <2>4. QED BY <1>5, <2>1, <2>2, <2>3, WakeFrame DEF InputMissing
<1>6. ASSUME NEW n \in Nid, TaskFails(n) \/ TaskSucceeds(n) PROVE WakeInv'
  <2>1. UNCHANGED <<containerVars, k, signalled>>
    BY <1>6 DEF TaskFails, TaskSucceeds
  <2>2. \A m \in Nid : pc'[m] = "mark" => pc[m] = "mark"
    BY <1>6 DEF TaskFails, TaskSucceeds, TypeOK
  <2>3. ASSUME ~raced', NEW m \in Nid, Signalled(m)
        PROVE  mailbox'[m] > 0 \/ pc'[m] # "idle" \/ m \in ran' \/ m \in failed'
    <3>1. CASE m = n
      BY <1>6, <3>1 DEF TaskFails, TaskSucceeds
    <3>2. CASE m # n
      <4>1. pc'[m] = pc[m] /\ ran \subseteq ran' /\ failed \subseteq failed'
        BY <1>6, <3>2 DEF TaskFails, TaskSucceeds, TypeOK
      <4>2. QED BY <2>1, <2>3, <4>1 DEF containerVars, WakeInv, NoLostWakeup
    <3>3. QED BY <3>1, <3>2
  <2>4. QED BY <2>1, <2>2, <2>3, WakeFrame DEF containerVars
<1>7. ASSUME NEW n \in Nid, PutData(n) PROVE WakeInv'
  <2> DEFINE c == Succ[n][k[n]]
  <2>1. ~raced' => ~raced /\ dataRef' = dataRef \cup {<<n, c>>}
    BY <1>7 DEF PutData, AddDataRes
  <2>2. UNCHANGED <<nodeRef, nodeStatus, mailbox, ran, failed, signalled>>
    BY <1>7 DEF PutData
  <2>3. pc'[n] # "idle" /\ (pc'[n] = "mark" => k'[n] = k[n])
    BY <1>7 DEF PutData, NextSuccessor, TypeOK
  <2>4. \A m \in Nid \ {n} : pc'[m] = pc[m] /\ k'[m] = k[m]
    BY <1>7 DEF PutData, NextSuccessor, TypeOK
  <2>5. SignalsStand'
    BY <2>1, <2>2 DEF WakeInv, SignalsStand
  <2>6. ResultsStand'
    BY <2>1, <2>3, <2>4 DEF WakeInv, ResultsStand
  <2>7. NoLostWakeup'
    BY <2>1, <2>2, <2>3, <2>4 DEF WakeInv, NoLostWakeup, Signalled
  <2>8. QED BY <2>5, <2>6, <2>7 DEF WakeInv
<1>8. ASSUME NEW n \in Nid, MarkAndBegin(n) PROVE WakeInv'
  <2> DEFINE c == Succ[n][k[n]]
  <2>1. ~raced' => ~raced /\ nodeStatus' = nodeStatus \cup {n}
    BY <1>8 DEF MarkAndBegin, SetRunStatus
  <2>2. UNCHANGED <<dataRef, nodeRef, ran, failed>> /\ signalled' = signalled \cup {<<n, c>>}
    BY <1>8 DEF MarkAndBegin
  <2>3. pc'[n] \notin {"idle", "mark"}
    BY <1>8 DEF MarkAndBegin, NextSuccessor, TypeOK
  <2>4. \A m \in Nid \ {n} : pc'[m] = pc[m] /\ k'[m] = k[m]
    BY <1>8 DEF MarkAndBegin, NextSuccessor, TypeOK
  <2>5. c \in nodeRef /\ (~raced => <<n, c>> \in dataRef)
    BY <1>8 DEF MarkAndBegin, WakeInv, ResultsStand
  <2>6. SignalsStand'
    BY <2>1, <2>2, <2>5 DEF WakeInv, SignalsStand
  <2>7. ResultsStand'
    BY <2>1, <2>2, <2>3, <2>4 DEF WakeInv, ResultsStand
  <2>8. ASSUME NEW m \in Nid, ~raced', Signalled(m)'
        PROVE  mailbox'[m] > 0 \/ pc'[m] # "idle" \/ m \in ran' \/ m \in failed'
    <3>1. CASE m = c
      BY <1>8, <3>1 DEF MarkAndBegin, BeginAll, TypeOK, ContainerTypeOK
    <3>2. CASE m # c
      <4>1. Signalled(m)
        BY <2>2, <2>8, <3>2 DEF Signalled
      <4>2. mailbox'[m] = mailbox[m]
        BY <1>8, <3>2 DEF MarkAndBegin, BeginAll
      <4>3. QED BY <2>1, <2>2, <2>3, <2>4, <2>8, <4>1, <4>2 DEF WakeInv, NoLostWakeup
    <3>3. QED BY <3>1, <3>2
  <2>9. NoLostWakeup'
    BY <2>8 DEF NoLostWakeup
  <2>10. QED BY <2>6, <2>7, <2>9 DEF WakeInv
<1>9. ASSUME NEW n \in Nid, LookupFails(n) PROVE WakeInv'
  <2>1. UNCHANGED <<dataRef, nodeRef, mailbox, ran, failed, signalled>>
    BY <1>9 DEF LookupFails
  <2>2. n \in ran
    BY <1>9 DEF LookupFails, OrderInv, Earned
  <2>3. pc' = [pc EXCEPT ![n] = "idle"] /\ k' = [k EXCEPT ![n] = 1]
    BY <1>9 DEF LookupFails
  <2>4. ~raced' => ~raced /\ nodeStatus' = nodeStatus \cup {n}
    BY <1>9 DEF LookupFails, SetRunStatus
  <2>5. SignalsStand' /\ ResultsStand'
    BY <2>1, <2>3, <2>4 DEF WakeInv, SignalsStand, ResultsStand, TypeOK
  <2>6. NoLostWakeup'
    BY <2>1, <2>2, <2>3, <2>4 DEF WakeInv, NoLostWakeup, Signalled, TypeOK
  <2>7. QED BY <2>5, <2>6 DEF WakeInv
<1>10. ASSUME NEW n \in Nid, Finish(n) PROVE WakeInv'
  <2>1. UNCHANGED <<containerVars, k, ran, failed, signalled>>
    BY <1>10 DEF Finish
  <2>2. n \in ran
    BY <1>10 DEF Finish, OrderInv, Earned
  <2>3. pc' = [pc EXCEPT ![n] = "idle"]
    BY <1>10 DEF Finish
  <2>4. SignalsStand' /\ ResultsStand'
    BY <2>1, <2>3 DEF containerVars, WakeInv, SignalsStand, ResultsStand, TypeOK
  <2>5. NoLostWakeup'
    BY <2>1, <2>2, <2>3 DEF containerVars, WakeInv, NoLostWakeup, Signalled, TypeOK
  <2>6. QED BY <2>4, <2>5 DEF WakeInv
<1>11. CASE Take
  <2>1. UNCHANGED <<containerVars, pc, k, ran, failed, signalled>>
    BY <1>11 DEF Take
  <2>2. QED BY <2>1 DEF containerVars, WakeInv, SignalsStand, ResultsStand, NoLostWakeup,
                        Signalled
<1>12. CASE UNCHANGED vars
  BY <1>12 DEF vars, containerVars, handlerVars, WakeInv, SignalsStand, ResultsStand,
               NoLostWakeup, Signalled
<1>13. QED
  BY <1>1, <1>2, <1>3, <1>4, <1>5, <1>6, <1>7, <1>8, <1>9, <1>10, <1>11, <1>12
     DEF Next, Handle

(* While the maps behave, a node that every predecessor has signalled is
   never stranded: it has run, failed, or is about to be handled. *)
THEOREM NoWakeupIsLost == Spec => []NoLostWakeup
<1>1. Init => OrderInv /\ WakeInv
  BY DEF Init, ContainerInit, OrderInv, Earned, PredecessorsFirst, WakeInv, SignalsStand,
         ResultsStand, NoLostWakeup, Signalled
<1>2. TypeOK /\ OrderInv /\ WakeInv /\ [Next]_vars => OrderInv' /\ WakeInv'
  BY OrderInvStep, WakeInvStep
<1>3. WakeInv => NoLostWakeup
  BY DEF WakeInv
<1>4. QED BY <1>1, <1>2, <1>3, TypeCorrect, PTL DEF Spec

-----------------------------------------------------------------------------
(***************************************************************************)
(* FinishedMeansHandedOn needs the loop invariant of the handler: while    *)
(* successor k is being served, the ones before it have been signalled.    *)
(***************************************************************************)
LoopInv ==
    \A n \in Nid : pc[n] \in {"data", "mark"} => \A i \in 1 .. k[n] - 1 : HandedOn(n, i)

HandInv == LoopInv /\ FinishedMeansHandedOn

(* A step that sends no NODE_FINISH, takes no signal back and moves no
   handler's loop. *)
LEMMA HandFrame ==
    ASSUME HandInv,
           signalled \subseteq signalled',
           \A n \in Nid : pc'[n] \in {"data", "mark"} => pc[n] = pc'[n] /\ k[n] = k'[n],
           \A n \in Nid : pc'[n] = "finish" => pc[n] = "finish",
           \A n \in Nid : FinishSent(n)' => FinishSent(n)
    PROVE  HandInv'
<1>1. \A n \in Nid : \A i : HandedOn(n, i) => HandedOn(n, i)'
  BY DEF HandedOn
<1>2. LoopInv'
  BY <1>1 DEF HandInv, LoopInv
<1>3. FinishedMeansHandedOn'
  BY <1>1 DEF HandInv, FinishedMeansHandedOn
<1>4. QED BY <1>2, <1>3 DEF HandInv

(* The handler moves on from a successor it has served. *)
LEMMA HandAdvance ==
    ASSUME TypeOK, HandInv, NEW n \in Nid, pc[n] \in {"data", "mark"}, NextSuccessor(n),
           signalled \subseteq signalled', UNCHANGED inbox,
           Succ[n][k[n]] # n => <<n, Succ[n][k[n]]>> \in signalled'
    PROVE  HandInv'
<1>1. \A m \in Nid : \A i : HandedOn(m, i) => HandedOn(m, i)'
  BY DEF HandedOn
<1>2. k[n] \in 1 .. Len(Succ[n]) /\ Len(Succ[n]) \in Nat /\ DOMAIN Succ[n] = 1 .. Len(Succ[n])
  BY GraphTyped DEF TypeOK, IndexOK
<1>3. ASSUME NEW i \in 1 .. k[n] PROVE HandedOn(n, i)'
  <2>1. CASE i = k[n]
    BY <2>1 DEF HandedOn
  <2>2. CASE i # k[n]
    <3>1. i \in 1 .. k[n] - 1
      BY <1>2, <2>2
    <3>2. QED BY <1>1, <3>1 DEF HandInv, LoopInv
  <2>3. QED BY <2>1, <2>2
<1>4. \A m \in Nid \ {n} : pc'[m] = pc[m] /\ k'[m] = k[m]
  BY DEF NextSuccessor, TypeOK
<1>5. CASE k[n] < Len(Succ[n])
  <2>1. pc'[n] = "data" /\ k'[n] = k[n] + 1
    BY <1>5 DEF NextSuccessor, TypeOK
  <2>2. \A i \in 1 .. k'[n] - 1 : HandedOn(n, i)'
    BY <1>2, <1>3, <2>1
  <2>3. LoopInv'
    BY <1>1, <1>4, <2>2 DEF HandInv, LoopInv
  <2>4. FinishedMeansHandedOn'
    BY <1>1, <1>4, <2>1 DEF HandInv, FinishedMeansHandedOn, FinishSent
  <2>5. QED BY <2>3, <2>4 DEF HandInv
<1>6. CASE ~(k[n] < Len(Succ[n]))
  <2>1. pc'[n] = "finish" /\ k[n] = Len(Succ[n])
    BY <1>2, <1>6 DEF NextSuccessor, TypeOK
  <2>2. LoopInv'
    BY <1>1, <1>4, <2>1 DEF HandInv, LoopInv
  <2>3. \A i \in DOMAIN Succ[n] : HandedOn(n, i)'
    BY <1>2, <1>3, <2>1
  <2>4. FinishedMeansHandedOn'
    BY <1>1, <1>4, <2>3 DEF HandInv, FinishedMeansHandedOn, FinishSent
  <2>5. QED BY <2>2, <2>4 DEF HandInv
<1>7. QED BY <1>5, <1>6

(* HandInv is inductive: the served prefix of the successors only grows. *)
LEMMA HandInvStep ==
    ASSUME TypeOK, HandInv, [Next]_vars
    PROVE  HandInv'
<1>1. ASSUME NEW j \in Job, BeginLaunch(j) \/ EndLaunch(j) PROVE HandInv'
  BY <1>1, HandFrame DEF BeginLaunch, EndLaunch, handlerVars, FinishSent
<1>2. ASSUME NEW n \in Nid, NotReady(n) PROVE HandInv'
  BY <1>2, HandFrame DEF NotReady, handlerVars, FinishSent
<1>3. ASSUME NEW n \in Nid, Prepare(n) PROVE HandInv'
  <2> DEFINE first == IF IsFirstNode(n) THEN <<Message("FIRST", n)>> ELSE <<>>
             new == first \o <<Message("PRE_START", n)>>
  <2>0. first \in Seq(Messages) /\ inbox \in Seq(Messages)
    BY MessageTyped DEF TypeOK
  <2>1. inbox' = inbox \o new /\ new \in Seq(Messages)
    BY <1>3, <2>0, MessageTyped DEF Prepare, SendMessages
  <2>2. \A x \in 1 .. Len(new) : new[x].type # "FINISH"
    BY DEF Message
  <2>3. ASSUME NEW m \in Nid, FinishSent(m)' PROVE FinishSent(m)
    <3>1. PICK x \in DOMAIN inbox' : inbox'[x] = Message("FINISH", m)
      BY <2>3 DEF FinishSent
    <3>2. CASE x <= Len(inbox)
      BY <2>1, <3>1, <3>2 DEF FinishSent
    <3>3. CASE ~(x <= Len(inbox))
      BY <2>1, <2>2, <3>1, <3>3 DEF Message
    <3>4. QED BY <3>2, <3>3
  <2>4. \A m \in Nid : pc'[m] \in {"data", "mark", "finish"} => pc[m] = pc'[m]
    BY <1>3 DEF Prepare, TypeOK
  <2>5. UNCHANGED <<k, signalled>>
    BY <1>3 DEF Prepare
  <2>6. QED BY <2>3, <2>4, <2>5, HandFrame
<1>4. ASSUME NEW n \in Nid, InputMissing(n) \/ TaskFails(n) PROVE HandInv'
  <2>1. pc' = [pc EXCEPT ![n] = "idle"] /\ UNCHANGED <<k, inbox, signalled>>
    BY <1>4 DEF InputMissing, TaskFails
  <2>2. QED BY <2>1, HandFrame DEF TypeOK, FinishSent
<1>5. ASSUME NEW n \in Nid, TaskSucceeds(n) PROVE HandInv'
  <2>1. pc' = [pc EXCEPT ![n] = "data"] /\ UNCHANGED <<k, inbox, signalled>>
    BY <1>5 DEF TaskSucceeds
  <2>2. pc[n] = "ready"
    BY <1>5 DEF TaskSucceeds
  <2>3. k[n] = 1
    BY <2>2 DEF TypeOK, IndexOK
  <2>4. LoopInv'
    BY <2>1, <2>3 DEF HandInv, LoopInv, HandedOn, TypeOK
  <2>5. FinishedMeansHandedOn'
    BY <2>1 DEF HandInv, FinishedMeansHandedOn, FinishSent, HandedOn, TypeOK
  <2>6. QED BY <2>4, <2>5 DEF HandInv
<1>6. ASSUME NEW n \in Nid, PutData(n) PROVE HandInv'
  <2>1. UNCHANGED <<inbox, signalled>> /\ pc[n] = "data"
    BY <1>6 DEF PutData
  <2>2. CASE Succ[n][k[n]] = n
    <3>1. NextSuccessor(n)
      BY <1>6, <2>2 DEF PutData
    <3>2. QED BY <2>1, <2>2, <3>1, HandAdvance
  <2>3. CASE Succ[n][k[n]] # n
    <3>1. pc' = [pc EXCEPT ![n] = "mark"] /\ UNCHANGED k
      BY <1>6, <2>3 DEF PutData
    <3>2. LoopInv'
      BY <2>1, <3>1 DEF HandInv, LoopInv, HandedOn, TypeOK
    <3>3. FinishedMeansHandedOn'
      BY <2>1, <3>1 DEF HandInv, FinishedMeansHandedOn, FinishSent, HandedOn, TypeOK
    <3>4. QED BY <3>2, <3>3 DEF HandInv
  <2>4. QED BY <2>2, <2>3
<1>7. ASSUME NEW n \in Nid, MarkAndBegin(n) PROVE HandInv'
  <2>1. NextSuccessor(n) /\ pc[n] = "mark" /\ UNCHANGED inbox
    BY <1>7 DEF MarkAndBegin
  <2>2. signalled' = signalled \cup {<<n, Succ[n][k[n]]>>}
    BY <1>7 DEF MarkAndBegin
  <2>3. QED BY <2>1, <2>2, HandAdvance
<1>8. ASSUME NEW n \in Nid, LookupFails(n) PROVE HandInv'
  <2>1. pc' = [pc EXCEPT ![n] = "idle"] /\ k' = [k EXCEPT ![n] = 1]
    BY <1>8 DEF LookupFails
  <2>2. UNCHANGED <<inbox, signalled>>
    BY <1>8 DEF LookupFails
  <2>3. QED BY <2>1, <2>2, HandFrame DEF TypeOK, FinishSent
<1>9. ASSUME NEW n \in Nid, Finish(n) PROVE HandInv'
  <2> DEFINE end == IF IsLastNode(n) THEN <<Message("OVER", n)>> ELSE <<>>
             new == <<Message("FINISH", n)>> \o end
  <2>1. end \in Seq(Messages) /\ inbox \in Seq(Messages)
    BY MessageTyped DEF TypeOK
  <2>2. inbox' = inbox \o new /\ new \in Seq(Messages)
    BY <1>9, <2>1, MessageTyped DEF Finish, SendMessages
  <2>3. \A x \in 1 .. Len(new) : new[x].node = n
    BY DEF Message
  <2>4. ASSUME NEW m \in Nid, m # n, FinishSent(m)' PROVE FinishSent(m)
    <3>1. PICK x \in DOMAIN inbox' : inbox'[x] = Message("FINISH", m)
      BY <2>4 DEF FinishSent
    <3>2. CASE x <= Len(inbox)
      BY <2>1, <2>2, <3>1, <3>2 DEF FinishSent
    <3>3. CASE ~(x <= Len(inbox))
      BY <2>1, <2>2, <2>3, <2>4, <3>1, <3>3 DEF Message
    <3>4. QED BY <3>2, <3>3
  <2>5. pc[n] = "finish" /\ pc' = [pc EXCEPT ![n] = "idle"] /\ UNCHANGED <<k, signalled>>
    BY <1>9 DEF Finish
  <2>6. LoopInv'
    BY <2>5 DEF HandInv, LoopInv, HandedOn, TypeOK
  <2>7. FinishedMeansHandedOn'
    BY <2>4, <2>5 DEF HandInv, FinishedMeansHandedOn, HandedOn, TypeOK
  <2>8. QED BY <2>6, <2>7 DEF HandInv
<1>10. CASE Take
  <2>1. UNCHANGED <<pc, k, signalled>>
    BY <1>10 DEF Take
  <2>2. ASSUME NEW m \in Nid, FinishSent(m)' PROVE FinishSent(m)
    <3>1. PICK x \in DOMAIN inbox' : inbox'[x] = Message("FINISH", m)
      BY <2>2 DEF FinishSent
    <3>2. x + 1 \in DOMAIN inbox /\ inbox[x + 1] = inbox'[x]
      BY <1>10, <3>1 DEF Take, TypeOK
    <3>3. QED BY <3>1, <3>2 DEF FinishSent
  <2>3. QED BY <2>1, <2>2, HandFrame
<1>11. CASE UNCHANGED vars
  BY <1>11, HandFrame DEF vars, handlerVars, FinishSent
<1>12. QED
  BY <1>1, <1>2, <1>3, <1>4, <1>5, <1>6, <1>7, <1>8, <1>9, <1>10, <1>11 DEF Next, Handle

(* NODE_FINISH is sent only when all successors have been signalled. *)
THEOREM FinishComesLast == Spec => []FinishedMeansHandedOn
<1>1. Init => HandInv
  BY DEF Init, HandInv, LoopInv, FinishedMeansHandedOn, FinishSent
<1>2. TypeOK /\ HandInv /\ [Next]_vars => HandInv'
  BY HandInvStep
<1>3. HandInv => FinishedMeansHandedOn
  BY DEF HandInv
<1>4. QED BY <1>1, <1>2, <1>3, TypeCorrect, PTL DEF Spec

-----------------------------------------------------------------------------
(***************************************************************************)
(* The composition with the manager.                                        *)
(***************************************************************************)

(* Every step of the composition is a step of the handlers or stutters. *)
LEMMA HandlerStep ==
    ASSUME [SchedulerNext]_schedulerVars
    PROVE  [Next]_vars
<1>1. ASSUME NEW j \in Job, TakeRun(j) \/ CompleteRun(j) \/ RunFails(j) PROVE [Next]_vars
  BY <1>1 DEF TakeRun, CompleteRun, RunFails, Next
<1>2. ASSUME NEW n \in Nid, Handles(n) PROVE [Next]_vars
  BY <1>2 DEF Handles, Next
<1>3. CASE HandleMessage
  BY <1>3 DEF HandleMessage, HandleFinish, HandleFinishFails, HandleOver, HandleOther,
              Receives, Next
<1>4. CASE UNCHANGED schedulerVars
  BY <1>4 DEF schedulerVars
<1>5. QED BY <1>1, <1>2, <1>3, <1>4 DEF SchedulerNext

(* The handlers composed with the manager implement DataHandler's
   specification, so every invariant proved of it holds of the composition. *)
THEOREM HandlersAsSpecified == SchedulerSpec => HandlerSpec
<1>1. SchedulerInit => Init
  BY DEF SchedulerInit
<1>2. [SchedulerNext]_schedulerVars => [Next]_vars
  BY HandlerStep
<1>3. QED BY <1>1, <1>2, PTL DEF SchedulerSpec, HandlerSpec, Spec

(* In the running system no wakeup is lost either. *)
THEOREM SchedulerWakes == SchedulerSpec => []NoLostWakeup
BY HandlersAsSpecified, NoWakeupIsLost, PTL DEF HandlerSpec

-----------------------------------------------------------------------------
(***************************************************************************)
(* Why a NODE_FINISH finds its total.  Only registered nodes send, and a   *)
(* job's nodes are registered in the step of run that announces its total; *)
(* a total only disappears in a restart.  What run announces is not zero   *)
(* because the tasks it found when it began are still there: nothing the   *)
(* manager could throw on is received while it is inside run.              *)
(***************************************************************************)
CounterTypes ==
    /\ container \in [Job -> Seq(TaskDesc)]
    /\ total \in [Job -> Nat]

SendersRegistered == \A x \in DOMAIN inbox : inbox[x].node \in nodeRef

TotalsKnown ==
    /\ \A n \in nodeRef : ~restarted => total[JobOf[n]] # 0
    /\ \A j \in Job : launch[j] = "adding" => container[j] # <<>>

CountInv == CounterTypes /\ SendersRegistered /\ TotalsKnown

(* A job with tasks has at least one node. *)
LEMMA NodeNumPositive ==
    ASSUME NEW tasks \in Seq(TaskDesc), tasks # <<>>
    PROVE  NodeNum(tasks) \in Nat \ {0}
<1>1. Len(tasks) \in Nat \ {0}
  BY EmptySeq
<1>2. QED BY <1>1 DEF NodeNum

(* Handlers send on behalf of their own node. *)
LEMMA SendersStep ==
    ASSUME TypeOK, Registered, SendersRegistered, [Next]_vars
    PROVE  SendersRegistered'
<1> USE DEF TypeOK, SendersRegistered
<1>1. nodeRef \subseteq nodeRef'
  BY DEF Next, Handle, BeginLaunch, EndLaunch, NotReady, Prepare, InputMissing, TaskFails,
         TaskSucceeds, PutData, MarkAndBegin, LookupFails, Finish, Take, vars,
         containerVars, handlerVars
<1>2. ASSUME NEW n \in Nid, NEW new \in Seq(Messages), n \in nodeRef, inbox' = inbox \o new,
             \A x \in 1 .. Len(new) : new[x].node = n
      PROVE  SendersRegistered'
  <2>1. ASSUME NEW x \in DOMAIN inbox' PROVE inbox'[x].node \in nodeRef'
    <3>1. CASE x <= Len(inbox)
      BY <1>1, <1>2, <2>1, <3>1
    <3>2. CASE ~(x <= Len(inbox))
      <4>1. x - Len(inbox) \in 1 .. Len(new) /\ inbox'[x] = new[x - Len(inbox)]
        BY <1>2, <2>1, <3>2
      <4>2. QED BY <1>1, <1>2, <4>1
    <3>3. QED BY <3>1, <3>2
  <2>2. QED BY <2>1
<1>3. ASSUME NEW n \in Nid, Prepare(n) PROVE SendersRegistered'
  <2> DEFINE first == IF IsFirstNode(n) THEN <<Message("FIRST", n)>> ELSE <<>>
             new == first \o <<Message("PRE_START", n)>>
  <2>1. first \in Seq(Messages)
    BY MessageTyped
  <2>2. new \in Seq(Messages) /\ inbox' = inbox \o new
    BY <1>3, <2>1, MessageTyped DEF Prepare, SendMessages
  <2>3. \A x \in 1 .. Len(new) : new[x].node = n
    BY DEF Message
  <2>4. n \in nodeRef
    BY <1>3 DEF Prepare, Receive, Registered
  <2> HIDE DEF new
  <2>5. QED BY <1>2, <2>2, <2>3, <2>4
<1>4. ASSUME NEW n \in Nid, Finish(n) PROVE SendersRegistered'
  <2> DEFINE last == IF IsLastNode(n) THEN <<Message("OVER", n)>> ELSE <<>>
             new == <<Message("FINISH", n)>> \o last
  <2>1. last \in Seq(Messages)
    BY MessageTyped
  <2>2. new \in Seq(Messages) /\ inbox' = inbox \o new
    BY <1>4, <2>1, MessageTyped DEF Finish, SendMessages
  <2>3. \A x \in 1 .. Len(new) : new[x].node = n
    BY DEF Message
  <2>4. n \in nodeRef
    BY <1>4 DEF Finish, Registered
  <2> HIDE DEF new
  <2>5. QED BY <1>2, <2>2, <2>3, <2>4
<1>5. CASE Take
  <2>1. inbox \in Seq(Messages) /\ inbox # <<>> /\ inbox' = Tail(inbox)
    BY <1>5 DEF Take
  <2>2. ASSUME NEW x \in DOMAIN inbox' PROVE inbox'[x].node \in nodeRef'
    <3>1. x + 1 \in DOMAIN inbox /\ inbox'[x] = inbox[x + 1]
      BY <2>1, <2>2
    <3>2. QED BY <1>1, <3>1
  <2>3. QED BY <2>2
<1>6. CASE UNCHANGED inbox
  BY <1>1, <1>6
<1>7. QED
  BY <1>3, <1>4, <1>5, <1>6
     DEF Next, Handle, BeginLaunch, EndLaunch, NotReady, InputMissing, TaskFails,
         TaskSucceeds, PutData, MarkAndBegin, LookupFails, vars, handlerVars

(* CountInv is inductive. *)
LEMMA CountInvStep ==
    ASSUME TypeOK, Registered, CountInv, [SchedulerNext]_schedulerVars
    PROVE  CountInv'
<1> USE DEF CounterTypes, TotalsKnown
<1>1. SendersRegistered'
  BY HandlerStep, SendersStep DEF CountInv
<1>2. CounterTypes /\ TotalsKnown /\ nodeRef \subseteq Nid
      /\ launch \in [Job -> {"pending", "adding", "launched"}]
  BY DEF CountInv, TypeOK, ContainerTypeOK
<1>3. ASSUME NEW j \in Job, TakeRun(j) PROVE CounterTypes' /\ TotalsKnown'
  BY <1>2, <1>3 DEF TakeRun, CanRun, BeginLaunch, managerVars, containerVars, handlerVars
<1>4. ASSUME NEW j \in Job, CompleteRun(j) PROVE CounterTypes' /\ TotalsKnown'
  <2>1. container[j] # <<>> /\ container[j] \in Seq(TaskDesc)
    BY <1>2, <1>4 DEF CompleteRun, EndLaunch
  <2>2. NodeNum(container[j]) \in Nat \ {0}
    BY <2>1, NodeNumPositive
  <2>3. total' = [total EXCEPT ![j] = NodeNum(container[j])] /\ restarted' = restarted
    BY <1>4 DEF CompleteRun, CountAndRemove
  <2>4. container' = [container EXCEPT ![j] = <<>>]
    BY <1>4 DEF CompleteRun, CountAndRemove
  <2>5. nodeRef' = nodeRef \cup CreatedNodes(j) /\ launch' = [launch EXCEPT ![j] = "launched"]
    BY <1>4 DEF CompleteRun, EndLaunch
  <2>6. CounterTypes'
    BY <1>2, <2>2, <2>3, <2>4
  <2>7. \A n \in nodeRef' : ~restarted' => total'[JobOf[n]] # 0
    BY <1>2, <2>2, <2>3, <2>5, GraphAssumption DEF CreatedNodes, NodesOf
  <2>8. \A i \in Job : launch'[i] = "adding" => container'[i] # <<>>
    BY <1>2, <2>4, <2>5
  <2>9. QED BY <2>6, <2>7, <2>8
<1>5. ASSUME Supervise, restarted' = TRUE, ManagerFree, UNCHANGED <<launch, nodeRef>>
      PROVE  CounterTypes' /\ TotalsKnown'
  <2>1. CounterTypes'
    <3>1. CASE Restart
      <4>1. container' = [i \in Job |-> <<>>] /\ total' = [i \in Job |-> 0]
        BY <3>1, SchedulerAssumption DEF Restart
      <4>2. <<>> \in Seq(TaskDesc)
        BY EmptySeq
      <4>3. QED BY <4>1, <4>2
    <3>2. CASE Stop
      BY <1>2, <3>2 DEF Stop
    <3>3. QED BY <1>5, <3>1, <3>2 DEF Supervise
  <2>2. QED BY <1>5, <2>1 DEF ManagerFree, NodesBeingAdded
<1>6. ASSUME NEW j \in Job, RunFails(j) PROVE CounterTypes' /\ TotalsKnown'
  BY <1>5, <1>6 DEF RunFails, Fails, vars, containerVars
<1>7. ASSUME NEW n \in Nid, Handles(n) PROVE CounterTypes' /\ TotalsKnown'
  <2>1. UNCHANGED <<container, total, restarted, launch, nodeRef>>
    BY <1>7 DEF Handles, Handle, NotReady, Prepare, InputMissing, TaskFails, TaskSucceeds,
                PutData, MarkAndBegin, LookupFails, Finish, containerVars, handlerVars,
                managerVars
  <2>2. QED BY <1>2, <2>1
<1>8. ASSUME HandleMessage PROVE CounterTypes' /\ TotalsKnown'
  <2> DEFINE m == Head(inbox)
             j == JobOf[m.node]
  <2>1. Take /\ ManagerFree
    BY <1>8 DEF HandleMessage, HandleFinish, HandleFinishFails, HandleOver, HandleOther,
                Receives
  <2>2. UNCHANGED <<launch, nodeRef>>
    BY <2>1 DEF Take, containerVars
  <2>3. CASE HandleFinishFails(m, j)
    BY <1>5, <2>1, <2>2, <2>3 DEF HandleFinishFails, Fails
  <2>4. CASE ~HandleFinishFails(m, j)
    <3>1. UNCHANGED <<container, total, restarted>>
      BY <1>8, <2>4 DEF HandleMessage, HandleFinish, HandleOver, HandleOther, CountFinish,
                        managerVars
    <3>2. QED BY <1>2, <2>2, <3>1
  <2>5. QED BY <2>3, <2>4
<1>9. ASSUME UNCHANGED schedulerVars PROVE CounterTypes' /\ TotalsKnown'
  BY <1>2, <1>9 DEF schedulerVars, vars, containerVars, managerVars
<1>10. CounterTypes' /\ TotalsKnown'
  BY <1>3, <1>4, <1>6, <1>7, <1>8, <1>9 DEF SchedulerNext
<1>11. QED BY <1>1, <1>10 DEF CountInv

(* Until the manager first throws, getJobProgress knows every job a node
   reports on: the first exception never comes from a NODE_FINISH. *)
THEOREM FinishIsCounted == SchedulerSpec => []FinishFindsTotal
<1>1. SchedulerInit => Registered /\ CountInv
  BY SchedulerAssumption
     DEF SchedulerInit, Init, ContainerInit, Registered, CountInv, CounterTypes,
         SendersRegistered, TotalsKnown
<1>2. TypeOK /\ Registered /\ CountInv /\ [SchedulerNext]_schedulerVars
        => Registered' /\ CountInv'
  BY HandlerStep, RegisteredStep, CountInvStep
<1>3. CountInv => FinishFindsTotal
  BY DEF CountInv, SendersRegistered, TotalsKnown, FinishFindsTotal
<1>4. QED
  BY <1>1, <1>2, <1>3, HandlersAsSpecified, TypeCorrect, PTL DEF SchedulerSpec, HandlerSpec

-----------------------------------------------------------------------------
(***************************************************************************)
(* Why the end of a job comes last.  Whoever announces it has run and      *)
(* signals nobody else.  If some node of the job had not run, take one     *)
(* that is nearest to an end: it is not an end, for there is one only, so  *)
(* it has a successor that is nearer and did run - before its predecessor, *)
(* which PredecessorsFirst excludes.                                       *)
(***************************************************************************)
AnnouncerIsEnd(n) == n \in Nid /\ n \in ran /\ IsEnd(n)

EndInv ==
    /\ \A x \in DOMAIN inbox : inbox[x].type = "OVER" => AnnouncerIsEnd(inbox[x].node)
    /\ \A j \in over : \E n \in NodesOf(j) : AnnouncerIsEnd(n)

(* Messages are added at the end of the queue. *)
LEMMA SentMessages ==
    ASSUME NEW old \in Seq(Messages), NEW new \in Seq(Messages), NEW x \in DOMAIN (old \o new)
    PROVE  \/ x \in DOMAIN old /\ (old \o new)[x] = old[x]
           \/ \E y \in DOMAIN new : (old \o new)[x] = new[y]
<1>1. Len(old) \in Nat /\ Len(new) \in Nat
  BY LenProperties
<1>2. Len(old \o new) = Len(old) + Len(new) /\ x \in 1 .. Len(old \o new)
  BY ConcatProperties, LenProperties
<1>3. CASE x <= Len(old)
  BY <1>1, <1>2, <1>3, ConcatProperties, LenProperties
<1>4. CASE ~(x <= Len(old))
  <2>1. x - Len(old) \in 1 .. Len(new)
    BY <1>1, <1>2, <1>4
  <2>2. (old \o new)[x] = new[x - Len(old)]
    BY <1>1, <1>2, <1>4, ConcatProperties
  <2>3. QED BY <2>1, <2>2, LenProperties
<1>5. QED BY <1>3, <1>4

(* EndInv is inductive. *)
LEMMA EndInvStep ==
    ASSUME TypeOK, OrderInv, EndInv, [SchedulerNext]_schedulerVars
    PROVE  EndInv'
<1>1. ran \subseteq ran'
  <2>1. [Next]_vars
    BY HandlerStep
  <2>2. QED
    BY <2>1 DEF Next, BeginLaunch, EndLaunch, Handle, NotReady, Prepare, InputMissing,
                TaskFails, TaskSucceeds, PutData, MarkAndBegin, LookupFails, Finish, Take,
                vars, containerVars, handlerVars
<1>2. \A n \in Nid : AnnouncerIsEnd(n) => AnnouncerIsEnd(n)'
  BY <1>1 DEF AnnouncerIsEnd, IsEnd
<1>3. inbox \in Seq(Messages) /\ \A n : AnnouncerIsEnd(n) => n \in Nid
  BY DEF TypeOK, AnnouncerIsEnd
<1>4. ASSUME UNCHANGED <<inbox, over>> PROVE EndInv'
  BY <1>2, <1>3, <1>4 DEF EndInv, NodesOf
<1>5. ASSUME NEW new \in Seq(Messages), inbox' = inbox \o new, UNCHANGED over,
             \A y \in DOMAIN new : new[y].type = "OVER" => AnnouncerIsEnd(new[y].node)
      PROVE  EndInv'
  <2>1. ASSUME NEW x \in DOMAIN inbox', inbox'[x].type = "OVER"
        PROVE  AnnouncerIsEnd(inbox'[x].node)
    BY <1>3, <1>5, <2>1, SentMessages DEF EndInv
  <2>2. QED BY <1>2, <1>3, <1>5, <2>1 DEF EndInv, NodesOf
<1>6. ASSUME NEW n \in Nid, Handles(n) PROVE EndInv'
  <2>0. UNCHANGED over
    BY <1>6 DEF Handles
  <2>1. CASE Prepare(n)
    <3> DEFINE first == IF IsFirstNode(n) THEN <<Message("FIRST", n)>> ELSE <<>>
               new == first \o <<Message("PRE_START", n)>>
    <3>1. first \in Seq(Messages)
      BY MessageTyped
    <3>2. new \in Seq(Messages) /\ inbox' = inbox \o new
      BY <2>1, <3>1, MessageTyped DEF Prepare, SendMessages
    <3>3. \A y \in 1 .. Len(new) : new[y].type # "OVER"
      BY DEF Message
    <3> HIDE DEF new
    <3>4. QED BY <1>5, <2>0, <3>2, <3>3
  <2>2. CASE Finish(n)
    <3> DEFINE last == IF IsLastNode(n) THEN <<Message("OVER", n)>> ELSE <<>>
               new == <<Message("FINISH", n)>> \o last
    <3>1. last \in Seq(Messages)
      BY MessageTyped
    <3>2. new \in Seq(Messages) /\ inbox' = inbox \o new
      BY <2>2, <3>1, MessageTyped DEF Finish, SendMessages
    <3>3. \A y \in 1 .. Len(new) : new[y].type = "OVER" => new[y].node = n /\ IsLastNode(n)
      BY DEF Message
    <3>4. IsLastNode(n) => IsEnd(n)
      BY DEF IsLastNode, IsEnd
    <3>5. n \in ran
      BY <2>2 DEF Finish, OrderInv, Earned
    <3> HIDE DEF new
    <3>6. IsLastNode(n) => AnnouncerIsEnd(n)
      BY <3>4, <3>5 DEF AnnouncerIsEnd
    <3>7. \A y \in DOMAIN new : new[y].type = "OVER" => AnnouncerIsEnd(new[y].node)
      BY <3>2, <3>3, <3>6
    <3>8. QED BY <1>5, <2>0, <3>2, <3>7
  <2>3. CASE ~Prepare(n) /\ ~Finish(n)
    BY <1>4, <1>6, <2>0, <2>3
       DEF Handles, Handle, NotReady, InputMissing, TaskFails, TaskSucceeds, PutData,
           MarkAndBegin, LookupFails, handlerVars
  <2>4. QED BY <2>1, <2>2, <2>3
<1>7. ASSUME HandleMessage PROVE EndInv'
  <2> DEFINE m == Head(inbox)
             j == JobOf[m.node]
  <2>1. inbox # <<>> /\ inbox' = Tail(inbox)
    BY <1>7 DEF HandleMessage, HandleFinish, HandleFinishFails, HandleOver, HandleOther,
                Receives, Take
  <2>2. m = inbox[1] /\ 1 \in DOMAIN inbox
    BY <1>3, <2>1
  <2>3. over' = over \/ (over' = over \cup {j} /\ m.type = "OVER")
    BY <1>7 DEF HandleMessage, HandleFinish, HandleFinishFails, HandleOver, HandleOther
  <2>4. m.type = "OVER" => AnnouncerIsEnd(m.node) /\ m.node \in NodesOf(j)
    BY <1>3, <2>2 DEF EndInv, NodesOf
  <2>5. \A i \in over' : \E n \in NodesOf(i) : AnnouncerIsEnd(n)
    BY <2>3, <2>4 DEF EndInv
  <2>6. \A x \in DOMAIN inbox' : inbox'[x].type = "OVER" => AnnouncerIsEnd(inbox'[x].node)
    <3>1. \A x \in DOMAIN inbox' : x + 1 \in DOMAIN inbox /\ inbox'[x] = inbox[x + 1]
      BY <1>3, <2>1
    <3>2. QED BY <3>1 DEF EndInv
  <2>7. QED BY <1>2, <1>3, <2>5, <2>6 DEF EndInv, NodesOf
<1>8. ASSUME NEW j \in Job, TakeRun(j) \/ CompleteRun(j) \/ RunFails(j) PROVE EndInv'
  BY <1>4, <1>8 DEF TakeRun, BeginLaunch, CompleteRun, EndLaunch, RunFails, vars, handlerVars
<1>9. CASE UNCHANGED schedulerVars
  BY <1>4, <1>9 DEF schedulerVars, vars, handlerVars
<1>10. QED BY <1>6, <1>7, <1>8, <1>9 DEF SchedulerNext

(* In a set of nodes some node has the least rank. *)
LEMMA LeastRank ==
    ASSUME NEW rank \in [Nid -> Nat], NEW S, S \subseteq Nid, S # {}
    PROVE  \E m \in S : \A n \in S : ~(rank[n] < rank[m])
<1> DEFINE R == {rank[n] : n \in S}
<1>1. R \subseteq Nat /\ R # {}
  OBVIOUS
<1>2. \E r \in R : \A s \in R : ~ (<<s, r>> \in OpToRel(<, Nat))
  BY <1>1, NatLessThanWellFounded, WFMin
<1>3. PICK r \in R : \A s \in R : ~ (<<s, r>> \in OpToRel(<, Nat))
  BY <1>2
<1>4. \A s \in R : ~(s < r)
  BY <1>1, <1>3 DEF OpToRel
<1>5. QED BY <1>4

(* What is claimed of the end follows where jobs are acyclic. *)
LEMMA EndComesLast ==
    ASSUME NEW rank \in [Nid -> Nat], Descends(rank), EndInv, PredecessorsFirst
    PROVE  OverMeansAllRan
<1> SUFFICES ASSUME NEW j \in over, OneEnd(j), ~(NodesOf(j) \subseteq ran)
             PROVE  FALSE
  BY DEF OverMeansAllRan
<1>1. PICK e \in NodesOf(j) : e \in ran /\ IsEnd(e)
  BY DEF EndInv, AnnouncerIsEnd
<1>2. NodesOf(j) \ ran \subseteq Nid /\ NodesOf(j) \ ran # {}
  BY DEF NodesOf
<1>3. PICK m \in NodesOf(j) \ ran : \A n \in NodesOf(j) \ ran : ~(rank[n] < rank[m])
  BY <1>2, LeastRank
<1>4. ~IsEnd(m)
  BY <1>1, <1>3 DEF OneEnd
<1>5. PICK i \in DOMAIN Succ[m] : Succ[m][i] # m
  BY <1>4 DEF IsEnd
<1> DEFINE s == Succ[m][i]
<1>6. m \in Nid /\ s \in Nid /\ s \in NodesOf(j)
  BY <1>3, <1>5, GraphAssumption DEF NodesOf
<1>7. rank[s] < rank[m]
  BY <1>5, <1>6 DEF Descends
<1>8. s \in ran
  BY <1>3, <1>6, <1>7
<1>9. m \in Pre[s]
  BY <1>5, <1>6, GraphAssumption
<1>10. QED BY <1>3, <1>6, <1>8, <1>9 DEF PredecessorsFirst

(* In acyclic jobs the end that NODE_OVER announces is one: all tasks of a
   job with one last node have succeeded by then. *)
THEOREM EndMeansAllRan ==
    ASSUME NEW rank \in [Nid -> Nat], Descends(rank)
    PROVE  SchedulerSpec => []OverMeansAllRan
<1>1. SchedulerInit => OrderInv /\ EndInv
  BY DEF SchedulerInit, Init, ContainerInit, OrderInv, Earned, PredecessorsFirst, EndInv
<1>2. TypeOK /\ OrderInv /\ EndInv /\ [SchedulerNext]_schedulerVars
        => OrderInv' /\ EndInv'
  BY HandlerStep, OrderInvStep, EndInvStep
<1>3. OrderInv /\ EndInv => OverMeansAllRan
  BY EndComesLast DEF OrderInv
<1>4. QED
  BY <1>1, <1>2, <1>3, HandlersAsSpecified, TypeCorrect, PTL DEF SchedulerSpec, HandlerSpec

=============================================================================
