-------------------------- MODULE SubmissionProofs --------------------------
(***************************************************************************)
(* Proofs about Submission: whatever the clients, their tasks and the      *)
(* number of restarts, what is launched is made of the tasks of one        *)
(* client, and what is counted is what was launched.                       *)
(***************************************************************************)
EXTENDS Submission, SequenceTheorems, TLAPS

LEMMA InitTyped == Init => TypeOK
BY SubmissionAssumption, EmptySeq DEF Init, TypeOK, ManagerTypeOK

(* A list of tasks has a number of nodes. *)
LEMMA NodeNumIsNat ==
    ASSUME NEW tasks \in Seq(TaskDesc)
    PROVE  NodeNum(tasks) \in Nat
BY LenProperties DEF NodeNum

LEMMA StepTyped == TypeOK /\ [Next]_vars => TypeOK'
<1> SUFFICES ASSUME TypeOK, [Next]_vars PROVE TypeOK'
  OBVIOUS
<1> USE SubmissionAssumption DEF TypeOK, ManagerTypeOK
<1>1. ASSUME NEW c \in Client, Sent(c), IsAssign(c) \/ IsRun(c)
      PROVE  /\ next' \in [Client -> Nat]
             /\ \A d \in Client : next'[d] \in 1 .. Len(Tasks[d]) + 2
  <2>1. \A d \in Client : Len(Tasks[d]) \in Nat
    BY LenProperties
  <2>2. next[c] \in Nat /\ next[c] + 1 \in 1 .. Len(Tasks[c]) + 2
    BY <1>1, <2>1 DEF IsAssign, IsRun
  <2>3. next' = [next EXCEPT ![c] = next[c] + 1]
    BY <1>1 DEF Sent
  <2>4. next' \in [Client -> Nat]
    BY <2>2, <2>3
  <2>5. ASSUME NEW d \in Client PROVE next'[d] \in 1 .. Len(Tasks[d]) + 2
    <3>1. CASE d = c
      BY <2>2, <2>3, <3>1
    <3>2. CASE d # c
      BY <2>3, <3>2
    <3>3. QED BY <3>1, <3>2
  <2>6. QED BY <2>4, <2>5
<1>2. ASSUME Crash PROVE ManagerTypeOK' /\ wiped' \subseteq JobId
  <2>1. wiped' \subseteq JobId
    BY <1>2 DEF Crash
  <2>2. CASE Restart
    <3>1. <<>> \in Seq(TaskDesc)
      BY EmptySeq
    <3>2. container' \in [JobId -> Seq(TaskDesc)]
      BY <2>2, <3>1 DEF Restart
    <3>3. retries' \in 0 .. MaxRetries
      BY <2>2 DEF Restart
    <3>4. QED BY <2>1, <2>2, <3>2, <3>3 DEF Restart
  <2>3. CASE Stop
    BY <2>1, <2>3 DEF Stop
  <2>4. QED BY <1>2, <2>2, <2>3 DEF Crash, Supervise
<1>3. ASSUME NEW c \in Client, Assign(c) PROVE TypeOK'
  <2>1. Tasks[c] \in Seq(TaskDesc) /\ next[c] \in 1 .. Len(Tasks[c])
    BY <1>3, LenProperties DEF Assign, IsAssign
  <2>2. Tasks[c][next[c]] \in TaskDesc
    BY <2>1, ElementOfSeq
  <2>3. container' \in [JobId -> Seq(TaskDesc)]
    BY <1>3, <2>2, AppendProperties DEF Assign, AddTask
  <2>4. QED BY <1>1, <1>3, <2>3 DEF Assign, AddTask, nodeVars
<1>4. ASSUME NEW c \in Client, Run(c) PROVE TypeOK'
  <2>1. NodeNum(container[JobKey[c]]) \in Nat
    BY NodeNumIsNat
  <2>2. container' \in [JobId -> Seq(TaskDesc)] /\ ranWith' \in [JobId -> Seq(TaskDesc)]
    BY <1>4, EmptySeq DEF Run, CountAndRemove
  <2>3. total' \in [JobId -> Nat]
    BY <1>4, <2>1 DEF Run, CountAndRemove
  <2>4. Reports * NodeNum(container[JobKey[c]]) \in Nat
    BY <2>1
  <2>5. pending' \in [JobId -> Nat]
    BY <1>4, <2>4 DEF Run
  <2>6. QED BY <1>1, <1>4, <2>2, <2>3, <2>5 DEF Run, CanRun, CountAndRemove
<1>5. ASSUME NEW c \in Client, RunFails(c) PROVE TypeOK'
  BY <1>1, <1>2, <1>5 DEF RunFails, nodeVars
<1>6. ASSUME NEW c \in Client, Lose(c) \/ DeadLetter(c) PROVE TypeOK'
  BY <1>1, <1>6 DEF Lose, DeadLetter, managerVars, nodeVars
<1>7. ASSUME NEW j \in JobId, NodeFinishes(j) PROVE TypeOK'
  BY <1>7 DEF NodeFinishes, managerVars, clientVars
<1>8. ASSUME NEW j \in JobId, Finish(j) PROVE TypeOK'
  BY <1>8 DEF Finish, Receive, CountFinish, clientVars
<1>9. ASSUME NEW j \in JobId, FinishFails(j) PROVE TypeOK'
  BY <1>2, <1>9 DEF FinishFails, Receive, clientVars
<1>10. CASE UNCHANGED vars
  BY <1>10 DEF vars, managerVars, clientVars, nodeVars
<1>11. QED
  BY <1>3, <1>4, <1>5, <1>6, <1>7, <1>8, <1>9, <1>10 DEF Next, Submit

(* Every variable of the manager, the clients and the messages keeps its type. *)
THEOREM SubmissionTyped == Spec => []TypeOK
BY InitTyped, StepTyped, PTL DEF Spec

-----------------------------------------------------------------------------
(***************************************************************************)
(* The counters: a total is only set by a launch, to the number of nodes   *)
(* of what is launched, and a restart forgets it together with the rest.   *)
(***************************************************************************)
LEMMA StepCounts == TypeOK /\ TotalsAreOfLaunches /\ [Next]_vars => TotalsAreOfLaunches'
<1> SUFFICES ASSUME TypeOK, TotalsAreOfLaunches, [Next]_vars PROVE TotalsAreOfLaunches'
  OBVIOUS
<1> USE SubmissionAssumption DEF TypeOK, ManagerTypeOK, TotalsAreOfLaunches
<1>1. ASSUME UNCHANGED <<total, ranWith>> PROVE TotalsAreOfLaunches'
  BY <1>1
<1>2. ASSUME Crash, UNCHANGED ranWith PROVE TotalsAreOfLaunches'
  BY <1>2 DEF Crash, Supervise, Restart, Stop
<1>3. ASSUME NEW c \in Client, Run(c) PROVE TotalsAreOfLaunches'
  <2>1. NodeNum(container[JobKey[c]]) \in Nat /\ container[JobKey[c]] # <<>>
    BY <1>3, NodeNumIsNat DEF Run, CanRun
  <2>2. QED BY <1>3, <2>1 DEF Run, CountAndRemove
<1>4. ASSUME NEW c \in Client, Assign(c) \/ Lose(c) \/ DeadLetter(c)
      PROVE  UNCHANGED <<total, ranWith>>
  BY <1>4 DEF Assign, AddTask, Lose, DeadLetter, managerVars
<1>5. ASSUME NEW c \in Client, RunFails(c) PROVE TotalsAreOfLaunches'
  BY <1>2, <1>5 DEF RunFails
<1>6. ASSUME NEW j \in JobId, NodeFinishes(j) \/ Finish(j)
      PROVE  UNCHANGED <<total, ranWith>>
  BY <1>6 DEF NodeFinishes, Finish, Receive, CountFinish, managerVars
<1>7. ASSUME NEW j \in JobId, FinishFails(j) PROVE TotalsAreOfLaunches'
  BY <1>2, <1>7 DEF FinishFails, Receive
<1>8. CASE UNCHANGED vars
  BY <1>1, <1>8 DEF vars, managerVars
<1>9. QED
  BY <1>1, <1>3, <1>4, <1>5, <1>6, <1>7, <1>8 DEF Next, Submit

(* The denominator of a job's progress is the size of its last launch,
   whatever restarts and launches of other jobs come in between. *)
THEOREM TotalsCountLaunches == Spec => []TotalsAreOfLaunches
<1>1. Init => TotalsAreOfLaunches
  BY SubmissionAssumption DEF Init, TotalsAreOfLaunches
<1>2. QED BY <1>1, StepCounts, SubmissionTyped, PTL DEF Spec

-----------------------------------------------------------------------------
(***************************************************************************)
(* What is launched.  While a client that loses nothing and shares its job *)
(* with nobody is sending to a running manager, the container has a        *)
(* contiguous stretch of its tasks that ends with the last one sent; it    *)
(* starts with the first task unless a restart discarded some.             *)
(***************************************************************************)
Stretch(c, list, last) ==
    \E k \in 1 .. last + 1 :
        /\ list = SubSeq(Tasks[c], k, last)
        /\ JobKey[c] \notin wiped => k = 1

Assembled(c) ==
    (status = "running" /\ next[c] <= Len(Tasks[c]) + 1) =>
        Stretch(c, container[JobKey[c]], next[c] - 1)

NotBeforeRun(c) == next[c] <= Len(Tasks[c]) + 1 => ranWith[JobKey[c]] = <<>>

Launched(c) ==
    ranWith[JobKey[c]] # <<>> => Stretch(c, ranWith[JobKey[c]], Len(Tasks[c]))

Faithful(c) == c \notin lost => Assembled(c) /\ NotBeforeRun(c) /\ Launched(c)

LaunchInv == \A c \in Client : Alone(c) => Faithful(c)

(* What holds a stretch is made longer by the next task. *)
LEMMA StretchGrows ==
    ASSUME TypeOK, NEW c \in Client, NEW n \in 1 .. Len(Tasks[c]), NEW list,
           Stretch(c, list, n - 1)
    PROVE  Stretch(c, Append(list, Tasks[c][n]), n)
<1> DEFINE t == Tasks[c]
<1>1. t \in Seq(TaskDesc) /\ Len(t) \in Nat
  BY SubmissionAssumption, LenProperties
<1>2. PICK k \in 1 .. n : list = SubSeq(t, k, n - 1) /\ (JobKey[c] \notin wiped => k = 1)
  BY DEF Stretch
<1>3. t[n] \in TaskDesc /\ \A i \in 1 .. Len(t) : t[i] \in TaskDesc
  BY <1>1, ElementOfSeq
<1>4. SubSeq(t, k, n - 1) \in Seq(TaskDesc)
  BY <1>1, <1>3, SubSeqProperties, k \in Int, n - 1 \in Int, \A i \in k .. n - 1 : t[i] \in TaskDesc
<1>5. k \in 1 .. Len(t) /\ n \in k .. Len(t)
  BY <1>1
<1>6. SubSeq(t, k, n) = SubSeq(t, k, n - 1) \o <<t[n]>>
  BY <1>1, <1>5, SubSeqRecursiveSecond
<1>7. Append(list, t[n]) = SubSeq(t, k, n)
  BY <1>2, <1>3, <1>4, <1>6, AppendIsConcat
<1>8. QED BY <1>2, <1>7 DEF Stretch

(* The empty list is a stretch that starts after the last task; of a job
   that nothing was discarded of only before the first. *)
LEMMA EmptyStretch ==
    ASSUME NEW c \in Client, NEW n \in Nat, n = 0 \/ JobKey[c] \in wiped
    PROVE  Stretch(c, <<>>, n)
<1>1. SubSeq(Tasks[c], n + 1, n) = <<>>
  BY SubSeqEmpty
<1>2. n + 1 \in 1 .. n + 1
  OBVIOUS
<1>3. QED BY <1>1, <1>2 DEF Stretch

LEMMA InitLaunch == Init => LaunchInv
<1> SUFFICES ASSUME Init, NEW c \in Client PROVE Faithful(c)
  BY DEF LaunchInv
<1>1. JobKey[c] \in JobId /\ Len(Tasks[c]) \in Nat
  BY SubmissionAssumption, LenProperties
<1>2. container[JobKey[c]] = <<>> /\ ranWith[JobKey[c]] = <<>> /\ next[c] = 1
  BY <1>1 DEF Init
<1>3. Stretch(c, <<>>, 0)
  BY EmptyStretch
<1>4. QED BY <1>2, <1>3 DEF Faithful, Assembled, NotBeforeRun, Launched

(* A step that neither touches a client nor what was launched for it, and
   leaves the assembled tasks alone. *)
LEMMA QuietStep ==
    ASSUME NEW c \in Client, Faithful(c),
           next'[c] = next[c], ranWith'[JobKey[c]] = ranWith[JobKey[c]],
           container'[JobKey[c]] = container[JobKey[c]],
           wiped \subseteq wiped', lost \subseteq lost', status' = status \/ status' = "stopped"
    PROVE  Faithful(c)'
BY DEF Faithful, Assembled, NotBeforeRun, Launched, Stretch

(* A restart either discards tasks of the job, and says so, or finds none. *)
LEMMA CrashStep ==
    ASSUME TypeOK, Crash, NEW c \in Client, Faithful(c),
           next'[c] = next[c], ranWith'[JobKey[c]] = ranWith[JobKey[c]], lost \subseteq lost'
    PROVE  Faithful(c)'
<1>1. JobKey[c] \in JobId /\ next[c] \in Nat /\ next[c] >= 1
  BY SubmissionAssumption DEF TypeOK
<1>2. wiped \subseteq wiped' /\ (status' = status \/ status' = "stopped")
  BY DEF Crash, Supervise, Restart, Stop
<1>3. CASE container'[JobKey[c]] = container[JobKey[c]]
  BY <1>2, <1>3, QuietStep
<1>4. CASE container'[JobKey[c]] # container[JobKey[c]]
  <2>1. container'[JobKey[c]] = <<>> /\ JobKey[c] \in wiped'
    BY <1>1, <1>4 DEF Crash, Supervise, Restart, Stop
  <2>2. Stretch(c, <<>>, next[c] - 1)'
    <3>1. SubSeq(Tasks[c], next[c], next[c] - 1) = <<>>
      BY <1>1, SubSeqEmpty
    <3>2. next[c] \in 1 .. (next[c] - 1) + 1
      BY <1>1
    <3>3. QED BY <2>1, <3>1, <3>2 DEF Stretch
  <2>3. QED BY <1>2, <2>1, <2>2 DEF Faithful, Assembled, NotBeforeRun, Launched, Stretch
<1>5. QED BY <1>3, <1>4

LEMMA StepLaunch == TypeOK /\ LaunchInv /\ [Next]_vars => LaunchInv'
<1> SUFFICES ASSUME TypeOK, LaunchInv, [Next]_vars, NEW c \in Client, Alone(c)
             PROVE  Faithful(c)'
  BY DEF LaunchInv, Alone
<1>1. Faithful(c)
  BY DEF LaunchInv
<1>2. JobKey \in [Client -> JobId] /\ \A d \in Client : d # c => JobKey[d] # JobKey[c]
  BY SubmissionAssumption DEF Alone
<1>3. next \in [Client -> Nat] /\ next[c] >= 1 /\ Len(Tasks[c]) \in Nat
  BY SubmissionAssumption, LenProperties DEF TypeOK
<1>4. container \in [JobId -> Seq(TaskDesc)] /\ ranWith \in [JobId -> Seq(TaskDesc)]
  BY DEF TypeOK, ManagerTypeOK
<1>5. ASSUME NEW d \in Client, d # c, Assign(d) \/ Run(d) \/ Lose(d) \/ DeadLetter(d)
      PROVE  Faithful(c)'
  BY <1>1, <1>2, <1>3, <1>4, <1>5, QuietStep
     DEF Assign, AddTask, Run, CountAndRemove, Lose, DeadLetter, Sent, managerVars
<1>6. ASSUME NEW d \in Client, d # c, RunFails(d) PROVE Faithful(c)'
  BY <1>1, <1>3, <1>6, CrashStep DEF RunFails, Sent
<1>7. CASE Assign(c)
  <2>1. next[c] \in 1 .. Len(Tasks[c]) /\ next'[c] = next[c] + 1
    BY <1>3, <1>7 DEF Assign, IsAssign, Sent
  <2>2. container'[JobKey[c]] = Append(container[JobKey[c]], Tasks[c][next[c]])
    BY <1>2, <1>4, <1>7 DEF Assign, AddTask
  <2>3. UNCHANGED <<lost, ranWith, wiped, status>> /\ status = "running"
    BY <1>7 DEF Assign, AddTask
  <2>4. CASE c \notin lost
    <3>1. Stretch(c, container[JobKey[c]], next[c] - 1)
      BY <1>1, <2>1, <2>3, <2>4 DEF Faithful, Assembled
    <3>2. Stretch(c, Append(container[JobKey[c]], Tasks[c][next[c]]), next[c])
      BY <2>1, <3>1, StretchGrows
    <3>3. (next[c] + 1) - 1 = next[c]
      BY <2>1
    <3>4. Assembled(c)'
      BY <2>1, <2>2, <2>3, <3>2, <3>3 DEF Assembled, Stretch
    <3>5. NotBeforeRun(c)' /\ Launched(c)'
      BY <1>1, <2>1, <2>3, <2>4 DEF Faithful, NotBeforeRun, Launched, Stretch
    <3>6. QED BY <3>4, <3>5 DEF Faithful
  <2>5. QED BY <2>3, <2>4 DEF Faithful
<1>8. CASE Run(c)
  <2>1. next[c] = Len(Tasks[c]) + 1 /\ next'[c] = next[c] + 1
    BY <1>3, <1>8 DEF Run, IsRun, Sent
  <2>2. ranWith'[JobKey[c]] = container[JobKey[c]]
    BY <1>2, <1>4, <1>8 DEF Run
  <2>3. UNCHANGED <<lost, wiped>> /\ status = "running"
    BY <1>8 DEF Run, CanRun
  <2>4. CASE c \notin lost
    <3>1. Stretch(c, container[JobKey[c]], next[c] - 1) /\ next[c] - 1 = Len(Tasks[c])
      BY <1>1, <1>3, <2>1, <2>3, <2>4 DEF Faithful, Assembled
    <3>2. Launched(c)'
      BY <2>2, <2>3, <3>1 DEF Launched, Stretch
    <3>3. ~(next'[c] <= Len(Tasks[c]) + 1)
      BY <1>3, <2>1
    <3>4. QED BY <3>2, <3>3 DEF Faithful, Assembled, NotBeforeRun
  <2>5. QED BY <2>3, <2>4 DEF Faithful
<1>9. CASE RunFails(c)
  <2>1. next[c] = Len(Tasks[c]) + 1 /\ next'[c] = next[c] + 1
    BY <1>3, <1>9 DEF RunFails, IsRun, Sent
  <2>2. ~(next'[c] <= Len(Tasks[c]) + 1)
    BY <1>3, <2>1
  <2>3. UNCHANGED <<lost, ranWith>> /\ wiped \subseteq wiped'
    BY <1>9 DEF RunFails, Crash
  <2>4. QED BY <1>1, <2>2, <2>3 DEF Faithful, Assembled, NotBeforeRun, Launched, Stretch
<1>10. CASE Lose(c)
  BY <1>10 DEF Lose, Faithful
<1>11. CASE DeadLetter(c)
  <2>1. next'[c] = next[c] + 1
    BY <1>3, <1>11 DEF DeadLetter, Sent
  <2>2. UNCHANGED <<lost, ranWith, wiped, status>> /\ status # "running"
    BY <1>11 DEF DeadLetter, managerVars
  <2>3. next'[c] <= Len(Tasks[c]) + 1 => next[c] <= Len(Tasks[c]) + 1
    BY <1>3, <2>1
  <2>4. QED BY <1>1, <2>2, <2>3 DEF Faithful, Assembled, NotBeforeRun, Launched, Stretch
<1>12. ASSUME NEW j \in JobId, NodeFinishes(j) \/ Finish(j) PROVE Faithful(c)'
  BY <1>1, <1>12, QuietStep
     DEF NodeFinishes, Finish, Receive, CountFinish, managerVars, clientVars
<1>13. ASSUME NEW j \in JobId, FinishFails(j) PROVE Faithful(c)'
  BY <1>1, <1>13, CrashStep DEF FinishFails, Receive, clientVars
<1>14. CASE UNCHANGED vars
  BY <1>1, <1>14, QuietStep DEF vars, managerVars, clientVars
<1>15. QED
  BY <1>5, <1>6, <1>7, <1>8, <1>9, <1>10, <1>11, <1>12, <1>13, <1>14 DEF Next, Submit

LEMMA LaunchesAreStretches == Spec => []LaunchInv
BY InitLaunch, StepLaunch, SubmissionTyped, PTL DEF Spec

(* The end of a sequence is a suffix of it. *)
LEMMA EndIsSuffix ==
    ASSUME NEW t \in Seq(TaskDesc), NEW k \in 1 .. Len(t) + 1
    PROVE  IsSuffix(SubSeq(t, k, Len(t)), t)
<1> DEFINE s == SubSeq(t, k, Len(t))
<1>1. Len(t) \in Nat /\ \A i \in 1 .. Len(t) : t[i] \in TaskDesc
  BY LenProperties, ElementOfSeq
<1>2. /\ s \in Seq(TaskDesc)
      /\ Len(s) = Len(t) - k + 1
      /\ \A i \in 1 .. Len(s) : s[i] = t[k + i - 1]
  <2>1. \A i \in k .. Len(t) : t[i] \in TaskDesc
    BY <1>1
  <2>2. QED BY <1>1, <2>1, SubSeqProperties
<1>3. QED BY <1>1, <1>2, SubSeqProperties DEF IsSuffix, IsPrefix, Reverse

(* What is launched for a client that lost nothing and has the job to itself
   is a suffix of its tasks: restarts lose a beginning, and nothing else. *)
THEOREM SuffixIsLaunched == Spec => []LaunchedSuffix
<1>1. TypeOK /\ LaunchInv => LaunchedSuffix
  <2> SUFFICES ASSUME TypeOK, LaunchInv, NEW c \in Client, Alone(c), c \notin lost
               PROVE  IsSuffix(ranWith[JobKey[c]], Tasks[c])
    BY DEF LaunchedSuffix
  <2>1. Tasks[c] \in Seq(TaskDesc) /\ Len(Tasks[c]) \in Nat
    BY SubmissionAssumption, LenProperties
  <2>2. \E k \in 1 .. Len(Tasks[c]) + 1 : ranWith[JobKey[c]] = SubSeq(Tasks[c], k, Len(Tasks[c]))
    <3>1. CASE ranWith[JobKey[c]] # <<>>
      BY <3>1 DEF LaunchInv, Faithful, Launched, Stretch
    <3>2. SubSeq(Tasks[c], Len(Tasks[c]) + 1, Len(Tasks[c])) = <<>>
      BY <2>1, SubSeqEmpty
    <3>3. Len(Tasks[c]) + 1 \in 1 .. Len(Tasks[c]) + 1
      BY <2>1
    <3>4. CASE ranWith[JobKey[c]] = <<>>
      BY <3>2, <3>3, <3>4
    <3>5. QED BY <3>1, <3>4
  <2>3. QED BY <2>1, <2>2, EndIsSuffix
<1>2. QED BY <1>1, LaunchesAreStretches, SubmissionTyped, PTL

(* Without restarts in between it is all of them. *)
THEOREM WholeIsLaunched == Spec => []LaunchedWhole
<1>1. LaunchInv => LaunchedWhole
  <2> SUFFICES ASSUME LaunchInv, NEW c \in Client, Alone(c), c \notin lost,
                      JobKey[c] \notin wiped, ranWith[JobKey[c]] # <<>>
               PROVE  ranWith[JobKey[c]] = Tasks[c]
    BY DEF LaunchedWhole
  <2>1. ranWith[JobKey[c]] = SubSeq(Tasks[c], 1, Len(Tasks[c]))
    BY DEF LaunchInv, Faithful, Launched, Stretch
  <2>2. QED BY <2>1, SubmissionAssumption, SubSeqFull
<1>2. QED BY <1>1, LaunchesAreStretches, PTL

=============================================================================
