---------------------------- MODULE JobContainer ----------------------------
(***************************************************************************)
(* service/job/JobContainer.scala and what reaches it through              *)
(* NodeEventHandler.scala and RootNode.begin (TaskNode.scala): the one     *)
(* object through which the handlers of a job's nodes meet.  It keeps      *)
(* three mutable hash maps and every handler, on its own dispatcher        *)
(* thread, reads and writes them without a lock.                           *)
(*                                                                         *)
(* dataRef is the set of its keys (no reader looks at the stored result:   *)
(* TaskUtil.handleTask ignores it); nodeStatus the set of nodes whose      *)
(* status is 1; nodeRef the set of its keys, and mailbox the number of     *)
(* begin messages in front of the actor of each RootNode, which all carry  *)
(* the same NodeIdentity.                                                  *)
(*                                                                         *)
(* A put that overlaps another put may lose any entries: two inserts in a  *)
(* bucket overwrite each other's head, and a resize, which moves every     *)
(* entry to a new table, overwrites and is overwritten.  A get that        *)
(* overlaps a put may miss an entry that a resize has not moved yet.       *)
(* raced remembers that an access to dataRef or nodeStatus came out        *)
(* otherwise than it would have under a lock.                              *)
(***************************************************************************)
EXTENDS Integers, Sequences

CONSTANT Nid          \* the node identities of all jobs

VARIABLES
    dataRef,     \* the pairs <<producer, consumer>> with a registered result
    nodeRef,     \* the registered nodes
    nodeStatus,  \* the nodes whose completion is recorded
    mailbox,     \* node -> begin messages its actor has not received
    raced        \* history: some unsynchronised access went wrong

containerVars == <<dataRef, nodeRef, nodeStatus, mailbox, raced>>

ContainerTypeOK ==
    /\ dataRef \subseteq Nid \X Nid
    /\ nodeRef \subseteq Nid
    /\ nodeStatus \subseteq Nid
    /\ mailbox \in [Nid -> Nat]
    /\ raced \in BOOLEAN

ContainerInit ==
    /\ dataRef = {}
    /\ nodeRef = {}
    /\ nodeStatus = {}
    /\ mailbox = [n \in Nid |-> 0]
    /\ raced = FALSE

(* What a put of entry into a map with these keys may leave behind. *)
AfterPut(keys, entry, overlapped) ==
    IF overlapped THEN SUBSET (keys \cup {entry}) ELSE {keys \cup {entry}}

AddDataRes(p, c, overlapped) ==
    /\ dataRef' \in AfterPut(dataRef, <<p, c>>, overlapped)
    /\ raced' = (raced \/ dataRef' # dataRef \cup {<<p, c>>})

SetRunStatus(n, overlapped) ==
    /\ nodeStatus' \in AfterPut(nodeStatus, n, overlapped)
    /\ raced' = (raced \/ nodeStatus' # nodeStatus \cup {n})

(* Mutant of CheckRunStatus: one predecessor is enough. *)
CheckAnyStatus(nids) == nids = {} \/ nids \cap nodeStatus # {}

(* The reads: what they report of maps nobody is writing. *)
CheckRunStatus(nids) == nids \subseteq nodeStatus

HasNodeData(nids, c) == \A p \in nids : <<p, c>> \in dataRef

(* RootNode.begin on each of the nodes. *)
BeginAll(nids) ==
    mailbox' = [n \in Nid |-> IF n \in nids THEN mailbox[n] + 1 ELSE mailbox[n]]

=============================================================================
