---------------------------- MODULE MCSubmission ----------------------------
(* Submissions for TLC. *)
EXTENDS Submission

Task(s, t) == [source |-> s, target |-> t]

Single == <<Task(1, 1)>>

(* Last nodes that no task leaves: more nodes than tasks. *)
OpenEnd == <<Task(1, 2)>>
OpenChain == <<Task(1, 2), Task(2, 3)>>

(* A source that lies beyond the arrays TaskGraph allocates. *)
Broken == <<Task(5, 5)>>

MCClient == {"c1", "c2", "c3", "c4"}
MCJobId == {"j1", "j2", "j3"}

(* Two submissions in the same second, one of which cannot be built, and two
   with jobs of their own. *)
MCJobKey ==
    [c \in MCClient |-> CASE c \in {"c1", "c2"} -> "j1"
                           [] c = "c3" -> "j2"
                           [] c = "c4" -> "j3"]

MCTasks ==
    [c \in MCClient |-> CASE c = "c1" -> OpenEnd
                           [] c = "c2" -> Broken
                           [] c = "c3" -> OpenChain
                           [] c = "c4" -> Single]

=============================================================================
