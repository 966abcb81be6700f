--------------------------- MODULE DependencyOrder ---------------------------
(***************************************************************************)
(* What the scheduler promises about the order of a job's nodes, with no   *)
(* maps, messages or actors: a node that has been made known runs after    *)
(* all its predecessors have, and a completed node stays completed.        *)
(***************************************************************************)
EXTENDS Integers

CONSTANTS
    Nid,    \* nodes
    Job,    \* jobs
    JobOf,  \* node -> its job
    Pre,    \* node -> its predecessors
    Created \* the nodes that are made known when their job is started

VARIABLES
    known,  \* the nodes of the jobs that have been started
    done    \* the nodes that have run successfully

Init == known = {} /\ done = {}

Start(j) ==
    /\ known' = known \cup {n \in Created : JobOf[n] = j}
    /\ UNCHANGED done

Run(n) ==
    /\ n \in known
    /\ Pre[n] \subseteq done
    /\ done' = done \cup {n}
    /\ UNCHANGED known

Next == (\E j \in Job : Start(j)) \/ (\E n \in Nid : Run(n))

Spec == Init /\ [][Next]_<<known, done>>

=============================================================================
