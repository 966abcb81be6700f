----------------------------- MODULE PageProofs -----------------------------
(***************************************************************************)
(* Proofs about the channel that brings the scheduler's messages to the page,*)
(* and about the page: it contains its widgets, starts where they start, and*)
(* each of its steps is a step of the widget in use or changes no widget.   *)
(* What BootstrapProofs, FuelProofs and PickerProofs show of every widget alone*)
(* therefore holds of the page, of which TLC checks a small instance.       *)
(***************************************************************************)
EXTENDS WebPage, BootstrapProofs, FuelProofs, PickerProofs

-----------------------------------------------------------------------------
(* The channel. *)
RenderedRuns(V, base, seq, h) ==
    /\ \A k \in 0 .. Len(seq) : h[k] \in V
    /\ h[0] = base
    /\ \A k \in 1 .. Len(seq) : h[k] = Rendered(h[k - 1], seq[k])
    /\ FoldLeft(Rendered, base, seq) = h[Len(seq)]

LEMMA RenderedGoesThrough ==
    ASSUME NEW V, NEW C, NEW base \in V, NEW seq \in Seq(C),
           \A v \in V, c \in C : Rendered(v, c) \in V
    PROVE  \E h : RenderedRuns(V, base, seq, h)
<1> DEFINE n == Len(seq)
           F == [i \in 1 .. n |-> [v \in V |-> Rendered(v, seq[i])]]
<1>1. n \in Nat /\ DOMAIN seq = 1 .. n /\ \A i \in 1 .. n : seq[i] \in C
  OBVIOUS
<1>2. FoldStays(V, n, F)
  BY <1>1 DEF FoldStays
<1>3. \A i \in 1 .. n, v \in V : F[i][v] = Rendered(v, seq[i])
  OBVIOUS
<1> HIDE DEF n, F
<1>4. PICK g : FoldSolves(V, base, n, F, g)
  BY <1>1, <1>2, FoldIsDefined
<1>5. g = [s \in SUBSET DOMAIN seq |->
             IF s = {} THEN base ELSE Rendered(g[s \ {Max(s)}], seq[Max(s)])]
  <2>1. ASSUME NEW s \in SUBSET (1 .. n), s # {}
        PROVE  F[Max(s)][g[s \ {Max(s)}]] = Rendered(g[s \ {Max(s)}], seq[Max(s)])
    <3>1. Max(s) \in s
      BY <1>1, <2>1, MaxIsGreatest
    <3>2. g[s \ {Max(s)}] \in V
      BY <1>4 DEF FoldSolves
    <3>3. QED BY <1>3, <3>1, <3>2
  <2>2. QED BY <1>1, <1>4, <2>1 DEF FoldSolves
<1>6. PICK it :
         /\ it = [s \in SUBSET DOMAIN seq |->
                    IF s = {} THEN base ELSE Rendered(it[s \ {Max(s)}], seq[Max(s)])]
         /\ FoldLeft(Rendered, base, seq) = it[DOMAIN seq]
  BY <1>5 DEF FoldLeft, MapThenFoldSet
<1>7. it[{}] = base
  BY <1>6
<1>8. ASSUME NEW s \in SUBSET (1 .. n), s # {}, it[s \ {Max(s)}] \in V
      PROVE  it[s] = F[Max(s)][it[s \ {Max(s)}]]
  <2>1. Max(s) \in s
    BY <1>1, <1>8, MaxIsGreatest
  <2>2. it[s] = Rendered(it[s \ {Max(s)}], seq[Max(s)])
    BY <1>1, <1>6, <1>8
  <2>3. QED BY <1>3, <1>8, <2>1, <2>2
<1>9. FoldObeys(V, base, n, F, it)
  BY <1>7, <1>8 DEF FoldObeys
<1>10. PICK h : FoldRuns(V, base, n, F, h) /\ h[n] = it[1 .. n]
  BY <1>1, <1>2, <1>9, FoldGoesThrough
<1>11. \A k \in 1 .. n : h[k] = Rendered(h[k - 1], seq[k])
  BY <1>1, <1>3, <1>10 DEF FoldRuns
<1>12. QED BY <1>1, <1>6, <1>10, <1>11 DEF n, FoldRuns, RenderedRuns

(***************************************************************************)
(* Messages get their values in the order they are sent, and keep that     *)
(* order: the mailbox and the wire rise, the wire is older than the        *)
(* mailbox, and what the page shows is older than both.                    *)
(***************************************************************************)
Rising(s) == \A i, j \in DOMAIN s : i < j => s[i].value < s[j].value

(* The page shows and animates nothing from v on. *)
ShownBefore(c, v) ==
    /\ c.percent < v
    /\ \A i \in DOMAIN c.tasks : c.tasks[i] < v
    /\ \A i \in DOMAIN c.jobs : c.jobs[i] < v
    /\ \A i \in DOMAIN c.progress : c.progress[i] < v

InOrder(c) ==
    /\ Rising(c.mail) /\ Rising(c.wire)
    /\ \A m \in Range(c.mail) : m.value <= c.sent /\ ShownBefore(c, m.value)
    /\ \A m \in Range(c.wire) : m.value <= c.sent /\ ShownBefore(c, m.value)
    /\ \A m \in Range(c.wire), w \in Range(c.mail) : m.value < w.value
    /\ ShownBefore(c, c.sent + 1)

(* The animations that run end in the order of their values. *)
ProgressRises(c) ==
    /\ \A i, j \in DOMAIN c.progress : i < j => c.progress[i] <= c.progress[j]
    /\ \A i \in DOMAIN c.progress : c.percent <= c.progress[i]

(* There is a server before anything is started; and as long as no two
   threads met between test and creation, one of them is there at most, and
   only while there is none. *)
ServerFirst ==
    /\ \A t \in Tasker : channel.taskers[t] \in {"start", "sleep"} => channel.server # 0
    /\ channel.bound # 0 => channel.server # 0
    /\ ~channel.raced =>
          \A t, u \in Tasker :
             channel.taskers[t] = "create" =>
                channel.server = 0 /\ (channel.taskers[u] = "create" => t = u)

ChannelInv ==
    /\ ChannelTypeOK /\ InOrder(channel) /\ ProgressRises(channel) /\ ServerFirst
    /\ ChannelSafe /\ channel.tasks # <<>>

(* The type of the channel, with names for the sets of its fields. *)
Messages == Seq(RenderRequests)
Stages == [Tasker -> {"none", "new", "create", "start", "sleep", "dead"}]
Servers == {0} \cup Tasker
Values == 0 .. MaxMessages
Connects == 0 .. MaxConnects
TaskLists == Seq(0 .. MaxMessages)
ValueLists == Seq(1 .. MaxMessages)

ChannelStates ==
    [mail : Messages, sent : Values, taskers : Stages, server : Servers, bound : Servers,
     connected : BOOLEAN, subscriptions : Connects, wire : Messages, tasks : TaskLists,
     jobs : ValueLists, progress : ValueLists, percent : Values, raced : BOOLEAN]

LEMMA ChannelTyped == ChannelTypeOK <=> channel \in ChannelStates
BY DEF ChannelTypeOK, ChannelStates, Messages, Stages, Servers, Values, Connects, TaskLists,
       ValueLists

(* ChannelInv holds from the first state. *)
LEMMA ChannelStarts == ChannelInit => ChannelInv
<1> SUFFICES ASSUME ChannelInit PROVE ChannelInv
  OBVIOUS
<1> USE ChannelAssumption DEF ChannelInit
<1>1. ChannelTypeOK
  BY DEF ChannelTypeOK, Tasker
<1>2. InOrder(channel)
  BY DEF InOrder, Rising, ShownBefore, Range
<1>3. ProgressRises(channel)
  BY DEF ProgressRises
<1>4. ServerFirst
  BY DEF ServerFirst, Tasker
<1>5. ChannelSafe /\ channel.tasks # <<>>
  BY DEF ChannelSafe, ChannelShowsOnce, ChannelServes, NewestFirst
<1>6. QED BY <1>1, <1>2, <1>3, <1>4, <1>5 DEF ChannelInv

(* What a message of value v can make of a page that shows nothing beyond v. *)
Renderings(base, v) ==
    {c \in [mail : {base.mail}, sent : {base.sent}, taskers : {base.taskers},
            server : {base.server}, bound : {base.bound}, connected : {base.connected},
            subscriptions : {base.subscriptions}, wire : {base.wire}, tasks : Seq(0 .. v),
            jobs : Seq(1 .. v), progress : Seq(1 .. v), percent : {base.percent},
            raced : {base.raced}] :
        /\ c.tasks # <<>>
        /\ \A i \in DOMAIN c.progress : base.percent <= c.progress[i]
        /\ \A i, j \in DOMAIN c.progress : i < j => c.progress[i] <= c.progress[j]}

(* The tasks below the first two move down by one. *)
LEMMA TaskRefreshed ==
    ASSUME NEW S, NEW tasks \in Seq(S), tasks # <<>>, NEW v \in S
    PROVE  /\ TaskRefresh(tasks, v) \in Seq(S)
           /\ Len(TaskRefresh(tasks, v)) = Len(tasks) + 1
           /\ \A i \in 1 .. Len(tasks) + 1 :
                 TaskRefresh(tasks, v)[i] = IF i <= 2 THEN v ELSE tasks[i - 1]
<1>1. /\ Tail(tasks) \in Seq(S) /\ Len(Tail(tasks)) = Len(tasks) - 1
      /\ \A i \in 1 .. Len(tasks) - 1 : Tail(tasks)[i] = tasks[i + 1]
  OBVIOUS
<1>2. <<v, v>> \in Seq(S) /\ Len(<<v, v>>) = 2 /\ <<v, v>>[1] = v /\ <<v, v>>[2] = v
  OBVIOUS
<1>3. TaskRefresh(tasks, v) = <<v, v>> \o Tail(tasks)
  BY DEF TaskRefresh
<1> HIDE DEF TaskRefresh
<1>4. TaskRefresh(tasks, v) \in Seq(S) /\ Len(TaskRefresh(tasks, v)) = Len(tasks) + 1
  BY <1>1, <1>2, <1>3
<1>5. ASSUME NEW i \in 1 .. Len(tasks) + 1
      PROVE  TaskRefresh(tasks, v)[i] = IF i <= 2 THEN v ELSE tasks[i - 1]
  <2>1. CASE i <= 2
    BY <1>1, <1>2, <1>3, <2>1
  <2>2. CASE i > 2
    <3>1. TaskRefresh(tasks, v)[i] = Tail(tasks)[i - 2]
      BY <1>1, <1>2, <1>3, <2>2
    <3>2. QED BY <1>1, <2>2, <3>1
  <2>3. QED BY <2>1, <2>2
<1>6. QED BY <1>4, <1>5

(* The jobs below the first move down by one. *)
JobsMoveDown(S, jobs, v, new) ==
    /\ new \in Seq(S)
    /\ Len(new) = Len(jobs) + 1
    /\ \A i \in 1 .. Len(jobs) + 1 :
          new[i] = IF jobs = <<>> \/ i = 2 THEN v ELSE IF i = 1 THEN jobs[1] ELSE jobs[i - 1]

LEMMA JobRefreshed ==
    ASSUME NEW S, NEW jobs \in Seq(S), NEW v \in S
    PROVE  JobsMoveDown(S, jobs, v, JobRefresh(jobs, v))
<1>1. CASE jobs = <<>>
  BY <1>1 DEF JobRefresh, JobsMoveDown
<1>2. CASE jobs # <<>>
  <2>1. /\ Tail(jobs) \in Seq(S) /\ Len(Tail(jobs)) = Len(jobs) - 1
        /\ \A i \in 1 .. Len(jobs) - 1 : Tail(jobs)[i] = jobs[i + 1]
        /\ Head(jobs) = jobs[1] /\ jobs[1] \in S /\ Len(jobs) > 0
    BY <1>2
  <2> DEFINE top == <<Head(jobs), v>>
             rest == Tail(jobs)
  <2>2. top \in Seq(S) /\ Len(top) = 2 /\ top[1] = jobs[1] /\ top[2] = v
    BY <2>1
  <2>3. JobRefresh(jobs, v) = top \o rest
    BY <1>2 DEF JobRefresh
  <2>r. /\ rest \in Seq(S) /\ Len(rest) = Len(jobs) - 1 /\ Len(jobs) \in Nat
        /\ \A i \in 1 .. Len(jobs) - 1 : rest[i] = jobs[i + 1]
    BY <2>1
  <2> HIDE DEF top, rest, JobRefresh
  <2>c. /\ top \o rest \in Seq(S) /\ Len(top \o rest) = Len(top) + Len(rest)
        /\ \A i \in 1 .. Len(top) + Len(rest) :
              (top \o rest)[i] = IF i <= Len(top) THEN top[i] ELSE rest[i - Len(top)]
    BY <2>2, <2>r, ConcatProperties
  <2> DEFINE both == top \o rest
  <2> HIDE DEF both
  <2>d. /\ both \in Seq(S) /\ Len(both) = Len(jobs) + 1 /\ JobRefresh(jobs, v) = both
        /\ \A i \in 1 .. Len(jobs) + 1 : both[i] = IF i <= 2 THEN top[i] ELSE rest[i - 2]
    BY <2>2, <2>r, <2>3, <2>c DEF both
  <2>4. JobRefresh(jobs, v) \in Seq(S) /\ Len(JobRefresh(jobs, v)) = Len(jobs) + 1
    BY <2>d
  <2>5. ASSUME NEW i \in 1 .. Len(jobs) + 1
        PROVE  JobRefresh(jobs, v)[i] =
                  IF jobs = <<>> \/ i = 2 THEN v ELSE IF i = 1 THEN jobs[1] ELSE jobs[i - 1]
    <3>1. CASE i <= 2
      BY <1>2, <2>r, <2>2, <2>d, <3>1
    <3>2. CASE i > 2
      <4>1. JobRefresh(jobs, v)[i] = rest[i - 2]
        BY <2>r, <2>2, <2>d, <3>2
      <4>2. QED BY <1>2, <2>r, <3>2, <4>1
    <3>3. QED BY <3>1, <3>2
  <2>6. QED BY <2>4, <2>5 DEF JobsMoveDown
<1>3. QED BY <1>1, <1>2

(* However often a message is shown. *)
LEMMA RenderedStays ==
    ASSUME NEW base, NEW m \in RenderRequests, NEW c \in Renderings(base, m.value),
           base.percent <= m.value
    PROVE  Rendered(c, m) \in Renderings(base, m.value)
<1> DEFINE v == m.value
           S == 0 .. v
           T == 1 .. v
<1>1. v \in Nat \ {0} /\ m.subject \in Subjects /\ v \in S /\ v \in T /\ base.percent <= v
  BY ChannelAssumption DEF RenderRequests
<1>2. c \in Renderings(base, v)
  OBVIOUS
<1> HIDE DEF v
<1>3. /\ c.tasks \in Seq(S) /\ c.tasks # <<>> /\ c.jobs \in Seq(T) /\ c.progress \in Seq(T)
      /\ \A i \in DOMAIN c.progress : base.percent <= c.progress[i]
      /\ \A i, j \in DOMAIN c.progress : i < j => c.progress[i] <= c.progress[j]
  BY <1>2 DEF Renderings
<1>4. CASE m.subject = "taskStatus"
  <2> DEFINE tasks == TaskRefresh(c.tasks, v)
  <2>1. Rendered(c, m) = [c EXCEPT !.tasks = tasks]
    BY <1>4 DEF Rendered, v
  <2>2. tasks \in Seq(S) /\ tasks # <<>>
    <3>1. tasks \in Seq(S) /\ Len(tasks) = Len(c.tasks) + 1
      <4> HIDE DEF S, T
      <4>1. QED BY <1>1, <1>3, TaskRefreshed
    <3>2. Len(c.tasks) \in Nat
      BY <1>3
    <3> HIDE DEF tasks
    <3>3. QED BY <3>1, <3>2
  <2> HIDE DEF tasks
  <2>3. QED BY <1>2, <2>1, <2>2 DEF Renderings, v
<1>5. CASE m.subject = "jobStatus"
  <2> DEFINE jobs == JobRefresh(c.jobs, v)
  <2>1. Rendered(c, m) = [c EXCEPT !.jobs = jobs]
    BY <1>5 DEF Rendered, v
  <2>2. jobs \in Seq(T)
    <3> HIDE DEF S, T
    <3>1. QED BY <1>1, <1>3, JobRefreshed DEF JobsMoveDown
  <2> HIDE DEF jobs
  <2>3. QED BY <1>2, <2>1, <2>2 DEF Renderings, v
<1>6. CASE m.subject = "jobProgressValue"
  <2> DEFINE progress == Append(c.progress, v)
  <2>1. Rendered(c, m) = [c EXCEPT !.progress = progress]
    BY <1>6 DEF Rendered, v
  <2>2. /\ progress \in Seq(T) /\ DOMAIN progress = 1 .. Len(c.progress) + 1
        /\ progress[Len(c.progress) + 1] = v
        /\ \A i \in 1 .. Len(c.progress) : progress[i] = c.progress[i] /\ c.progress[i] \in T
        /\ DOMAIN c.progress = 1 .. Len(c.progress) /\ Len(c.progress) \in Nat
    BY <1>1, <1>3
  <2> HIDE DEF progress
  <2>3. /\ \A i \in DOMAIN progress : base.percent <= progress[i]
        /\ \A i, j \in DOMAIN progress : i < j => progress[i] <= progress[j]
    <3>1. \A i \in 1 .. Len(c.progress) + 1 :
             i = Len(c.progress) + 1 \/ i \in 1 .. Len(c.progress)
      BY <2>2
    <3>2. \A i \in 1 .. Len(c.progress) : c.progress[i] <= v
      BY <1>1, <2>2
    <3>3. v <= v
      BY <1>1
    <3>4. ASSUME NEW i \in DOMAIN progress PROVE base.percent <= progress[i]
      <4>1. CASE i \in 1 .. Len(c.progress)
        BY <1>3, <2>2, <4>1
      <4>2. CASE i = Len(c.progress) + 1
        BY <1>1, <2>2, <4>2
      <4>3. QED BY <2>2, <3>1, <4>1, <4>2
    <3>5. ASSUME NEW i \in DOMAIN progress, NEW j \in DOMAIN progress, i < j
          PROVE  progress[i] <= progress[j]
      <4>1. i \in 1 .. Len(c.progress)
        BY <2>2, <3>5
      <4>2. CASE j \in 1 .. Len(c.progress)
        BY <1>3, <2>2, <3>5, <4>1, <4>2
      <4>3. CASE j = Len(c.progress) + 1
        BY <2>2, <3>2, <4>1, <4>3
      <4>4. QED BY <2>2, <3>1, <4>2, <4>3
    <3>6. QED BY <3>4, <3>5
  <2>4. QED BY <1>2, <2>1, <2>2, <2>3 DEF Renderings, v
<1>7. QED BY <1>1, <1>4, <1>5, <1>6 DEF Subjects

(* A sequence of numbers that do not exceed v is one of numbers up to v. *)
LEMMA SeqUpTo ==
    ASSUME NEW a \in Nat, NEW b \in Nat, NEW v \in Nat, NEW s \in Seq(a .. b),
           \A i \in DOMAIN s : s[i] <= v
    PROVE  s \in Seq(a .. v)
<1>1. DOMAIN s = 1 .. Len(s) /\ Len(s) \in Nat /\ s = [i \in 1 .. Len(s) |-> s[i]]
  OBVIOUS
<1>2. \A i \in 1 .. Len(s) : s[i] \in a .. v
  OBVIOUS
<1>3. s \in [1 .. Len(s) -> a .. v]
  BY <1>1, <1>2
<1>4. QED BY <1>1, <1>3

(* What the browser makes of a message, by the number of subscriptions. *)
LEMMA Received ==
    ASSUME ChannelInv, BrowserReceives
    PROVE  LET base == [channel EXCEPT !.wire = Tail(@)]
               m == Head(channel.wire)
           IN  /\ m \in RenderRequests /\ m = channel.wire[1]
               /\ channel' \in Renderings(base, m.value)
               /\ channel.subscriptions = 0 => channel' = base
               /\ channel.subscriptions = 1 => channel' = Rendered(base, m)
<1> DEFINE base == [channel EXCEPT !.wire = Tail(@)]
           m == Head(channel.wire)
           v == m.value
           n == channel.subscriptions
           seq == [k \in 1 .. n |-> m]
<1>1. channel \in ChannelStates
  BY ChannelTyped DEF ChannelInv
<1>2. channel.wire \in Seq(RenderRequests) /\ channel.wire # <<>> /\ n \in Nat
  BY <1>1, ChannelAssumption DEF ChannelStates, BrowserReceives, Messages, Connects
<1>3. m \in RenderRequests /\ m = channel.wire[1] /\ 1 \in DOMAIN channel.wire
  BY <1>2
<1>4. v \in 1 .. MaxMessages /\ MaxMessages \in Nat
  BY <1>3, ChannelAssumption DEF RenderRequests
<1>5. ShownBefore(channel, v)
  BY <1>3 DEF ChannelInv, InOrder, Range
<1>6. base \in Renderings(base, v)
  <2>1. /\ channel.tasks \in Seq(0 .. MaxMessages) /\ channel.jobs \in Seq(1 .. MaxMessages)
        /\ channel.progress \in Seq(1 .. MaxMessages) /\ channel.percent \in Nat
    BY <1>1, <1>4 DEF ChannelStates, TaskLists, ValueLists, Values
  <2>2. \A i \in DOMAIN channel.tasks : channel.tasks[i] <= v
    BY <1>4, <1>5, <2>1 DEF ShownBefore
  <2>3. \A i \in DOMAIN channel.jobs : channel.jobs[i] <= v
    BY <1>4, <1>5, <2>1 DEF ShownBefore
  <2>4. \A i \in DOMAIN channel.progress : channel.progress[i] <= v
    BY <1>4, <1>5, <2>1 DEF ShownBefore
  <2>5. v \in Nat /\ 0 \in Nat /\ 1 \in Nat
    BY <1>4
  <2> HIDE DEF v
  <2>6. channel.tasks \in Seq(0 .. v)
    BY <1>4, <2>1, <2>2, <2>5, SeqUpTo
  <2>7. channel.jobs \in Seq(1 .. v)
    BY <1>4, <2>1, <2>3, <2>5, SeqUpTo
  <2>8. channel.progress \in Seq(1 .. v)
    BY <1>4, <2>1, <2>4, <2>5, SeqUpTo
  <2>9. /\ channel.tasks # <<>>
        /\ \A i \in DOMAIN channel.progress : channel.percent <= channel.progress[i]
        /\ \A i, j \in DOMAIN channel.progress :
              i < j => channel.progress[i] <= channel.progress[j]
    BY DEF ChannelInv, ProgressRises
  <2>10. QED BY <1>1, <2>6, <2>7, <2>8, <2>9 DEF Renderings, ChannelStates
<1>7. base.percent <= v
  BY <1>1, <1>4, <1>5 DEF ShownBefore, ChannelStates, Values
<1>8. channel' = FoldLeft(Rendered, base, seq)
  BY DEF BrowserReceives
<1>9. seq \in Seq({m}) /\ Len(seq) = n
  BY <1>2
<1>10. \A c \in Renderings(base, v), x \in {m} : Rendered(c, x) \in Renderings(base, v)
  BY <1>3, <1>7, RenderedStays
<1> DEFINE V == Renderings(base, v)
           C == {m}
<1>11. base \in V /\ seq \in Seq(C) /\ \A c \in V, x \in C : Rendered(c, x) \in V
  BY <1>6, <1>9, <1>10
<1> HIDE DEF base, seq, n, V, C
<1>12. PICK h : RenderedRuns(V, base, seq, h)
  BY <1>11, RenderedGoesThrough
<1> USE DEF RenderedRuns
<1>13. channel' \in V
  BY <1>2, <1>8, <1>9, <1>12
<1>14. n = 0 => channel' = base
  BY <1>8, <1>9, <1>12
<1>15. ASSUME n = 1 PROVE channel' = Rendered(base, m)
  <2>1. seq[1] = m
    BY <1>15 DEF seq
  <2>2. h[1] = Rendered(h[1 - 1], seq[1])
    BY <1>9, <1>12, <1>15
  <2>3. QED BY <1>8, <1>9, <1>12, <1>15, <2>1, <2>2
<1>16. QED BY <1>3, <1>13, <1>14, <1>15 DEF base, n, V

(* Every step keeps the types. *)
LEMMA ChannelTypeStep == ChannelInv /\ [ChannelNext]_channel => ChannelTypeOK'
<1> SUFFICES ASSUME ChannelInv, [ChannelNext]_channel PROVE ChannelTypeOK'
  OBVIOUS
<1>1. channel \in ChannelStates
  BY ChannelTyped DEF ChannelInv
<1>2. /\ channel.mail \in Messages /\ channel.wire \in Messages /\ channel.progress \in ValueLists
      /\ channel.taskers \in Stages /\ channel.server \in Servers /\ channel.bound \in Servers
      /\ channel.sent \in Values /\ channel.subscriptions \in Connects
      /\ channel.tasks \in TaskLists /\ channel.jobs \in ValueLists /\ channel.raced \in BOOLEAN
  BY <1>1 DEF ChannelStates
<1>3. /\ \A mail \in Messages :
            mail # <<>> => Tail(mail) \in Messages /\ Head(mail) \in RenderRequests
      /\ \A mail \in Messages, m \in RenderRequests : Append(mail, m) \in Messages
      /\ <<>> \in Messages
  BY DEF Messages
<1>4. SUFFICES channel' \in ChannelStates
  BY DEF ChannelTypeOK, ChannelStates, Messages, Stages, Servers, Values, Connects, TaskLists,
         ValueLists
<1>5. ASSUME NEW subject \in Subjects, ChannelSend(subject) PROVE channel' \in ChannelStates
  <2> DEFINE m == [subject |-> subject, value |-> channel.sent + 1]
  <2>1. channel.sent + 1 \in Values /\ m \in RenderRequests
    BY <1>2, <1>5, ChannelAssumption DEF ChannelSend, Values, RenderRequests
  <2>2. channel' = [channel EXCEPT !.sent = @ + 1, !.mail = Append(@, m)]
    BY <1>5 DEF ChannelSend
  <2> HIDE DEF m
  <2>3. QED BY <1>1, <1>2, <1>3, <2>1, <2>2 DEF ChannelStates
<1>6. CASE ChannelBroadcast
  BY <1>1, <1>2, <1>3, <1>6 DEF ChannelBroadcast, ChannelStates
<1>7. CASE ChannelGivesUp
  <2>1. PICK t \in Tasker : channel' = [channel EXCEPT !.mail = Tail(@), !.taskers[t] = "new"]
    BY <1>7 DEF ChannelGivesUp
  <2>2. [channel.taskers EXCEPT ![t] = "new"] \in Stages
    BY <1>2 DEF Stages
  <2>3. Tail(channel.mail) \in Messages
    BY <1>2, <1>3, <1>7 DEF ChannelGivesUp
  <2>4. QED BY <1>1, <2>1, <2>2, <2>3 DEF ChannelStates
<1>8. ASSUME NEW t \in Tasker PROVE t \in Servers /\ 0 \in Servers
  BY DEF Servers
<1>9. ASSUME NEW t \in Tasker,
             NEW stage \in {"none", "new", "create", "start", "sleep", "dead"}
      PROVE  [channel.taskers EXCEPT ![t] = stage] \in Stages
  BY <1>2 DEF Stages
<1>10. ASSUME NEW t \in Tasker, TaskerTest(t) PROVE channel' \in ChannelStates
  BY <1>1, <1>2, <1>9, <1>10 DEF TaskerTest, ChannelStates
<1>11. ASSUME NEW t \in Tasker, TaskerCreate(t) PROVE channel' \in ChannelStates
  BY <1>1, <1>8, <1>9, <1>11 DEF TaskerCreate, ChannelStates
<1>12. ASSUME NEW t \in Tasker, TaskerStart(t) PROVE channel' \in ChannelStates
  BY <1>1, <1>2, <1>9, <1>12 DEF TaskerStart, ChannelStates
<1>13. ASSUME NEW t \in Tasker, TaskerStops(t) PROVE channel' \in ChannelStates
  BY <1>1, <1>3, <1>8, <1>9, <1>13 DEF TaskerStops, ChannelStates
<1>14. CASE BrowserConnects
  <2>1. channel.subscriptions + 1 \in Connects
    BY <1>2, <1>14, ChannelAssumption DEF BrowserConnects, Connects
  <2>2. QED BY <1>1, <1>14, <2>1 DEF BrowserConnects, ChannelStates
<1>15. CASE BrowserLosesLine
  BY <1>1, <1>3, <1>15 DEF BrowserLosesLine, ChannelStates
<1>16. CASE BrowserReceives
  <2> DEFINE base == [channel EXCEPT !.wire = Tail(@)]
             v == Head(channel.wire).value
  <2>1. Head(channel.wire) \in RenderRequests /\ channel' \in Renderings(base, v)
    BY <1>16, Received
  <2>2. v \in 1 .. MaxMessages /\ MaxMessages \in Nat
    BY <2>1, ChannelAssumption DEF RenderRequests
  <2>3. Seq(0 .. v) \subseteq TaskLists /\ Seq(1 .. v) \subseteq ValueLists
    <3> DEFINE S0 == 0 .. v
               S1 == 1 .. v
               T0 == 0 .. MaxMessages
               T1 == 1 .. MaxMessages
    <3>1. S0 \subseteq T0 /\ S1 \subseteq T1
      BY <2>2
    <3> HIDE DEF S0, S1, T0, T1
    <3>2. Seq(S0) \subseteq Seq(T0) /\ Seq(S1) \subseteq Seq(T1)
      BY <3>1, SeqMonotonic
    <3>3. QED BY <3>2 DEF S0, S1, T0, T1, TaskLists, ValueLists
  <2>4. Tail(channel.wire) \in Messages
    BY <1>2, <1>3, <1>16 DEF BrowserReceives
  <2>5. base \in ChannelStates
    BY <1>1, <2>4 DEF ChannelStates
  <2> DEFINE S0 == Seq(0 .. v)
             S1 == Seq(1 .. v)
  <2>6. channel' \in [mail : {base.mail}, sent : {base.sent}, taskers : {base.taskers},
            server : {base.server}, bound : {base.bound}, connected : {base.connected},
            subscriptions : {base.subscriptions}, wire : {base.wire}, tasks : S0,
            jobs : S1, progress : S1, percent : {base.percent}, raced : {base.raced}]
    BY <2>1 DEF Renderings
  <2> HIDE DEF v, base, S0, S1
  <2>7. S0 \subseteq TaskLists /\ S1 \subseteq ValueLists
    BY <2>3 DEF S0, S1
  <2>8. QED BY <2>5, <2>6, <2>7 DEF ChannelStates
<1>17. CASE ProgressEnds
  <2>1. Tail(channel.progress) \in ValueLists /\ Head(channel.progress) \in Values
    <3> DEFINE S == 1 .. MaxMessages
    <3>1. channel.progress \in Seq(S) /\ channel.progress # <<>>
      BY <1>2, <1>17 DEF ProgressEnds, ValueLists
    <3> HIDE DEF S
    <3>2. Tail(channel.progress) \in Seq(S) /\ Head(channel.progress) \in S
      BY <3>1, HeadTailProperties
    <3>3. QED BY <3>2, ChannelAssumption DEF S, ValueLists, Values
  <2>2. QED BY <1>1, <1>17, <2>1 DEF ProgressEnds, ChannelStates
<1>18. CASE UNCHANGED channel
  BY <1>1, <1>18
<1>19. QED
  BY <1>5, <1>6, <1>7, <1>10, <1>11, <1>12, <1>13, <1>14, <1>15, <1>16, <1>17, <1>18
     DEF ChannelNext

(* What concerns the taskers and the server: who is between the test and the
   creation is there while there is no server, and alone unless they raced. *)
LEMMA ChannelServesStep ==
    ChannelInv /\ [ChannelNext]_channel => ServerFirst' /\ ChannelServes'
<1> SUFFICES ASSUME ChannelInv, [ChannelNext]_channel PROVE ServerFirst' /\ ChannelServes'
  OBVIOUS
<1>1. /\ channel \in ChannelStates /\ ServerFirst /\ ChannelServes
      /\ channel.taskers \in [Tasker -> {"none", "new", "create", "start", "sleep", "dead"}]
      /\ 0 \notin Tasker
  BY ChannelTyped DEF ChannelInv, ChannelStates, ChannelSafe, Tasker, Stages
<1> USE DEF ServerFirst, ChannelServes
<1>2. CASE /\ channel'.taskers = channel.taskers /\ channel'.server = channel.server
           /\ channel'.bound = channel.bound /\ channel'.raced = channel.raced
  BY <1>1, <1>2
<1>3. CASE ChannelGivesUp
  BY <1>1, <1>3 DEF ChannelGivesUp, ChannelStates
<1>4. ASSUME NEW t \in Tasker, TaskerTest(t) PROVE ServerFirst' /\ ChannelServes'
  BY <1>1, <1>4 DEF TaskerTest, ChannelStates
<1>5. ASSUME NEW t \in Tasker, TaskerCreate(t) PROVE ServerFirst' /\ ChannelServes'
  BY <1>1, <1>5 DEF TaskerCreate, ChannelStates
<1>6. ASSUME NEW t \in Tasker, TaskerStart(t) PROVE ServerFirst' /\ ChannelServes'
  BY <1>1, <1>6 DEF TaskerStart, ChannelStates
<1>7. ASSUME NEW t \in Tasker, TaskerStops(t) PROVE ServerFirst' /\ ChannelServes'
  <2>1. /\ channel'.taskers = [channel.taskers EXCEPT ![t] = "dead"]
        /\ channel'.server = channel.server /\ channel'.raced = channel.raced
        /\ channel'.bound = 0 \/ channel'.bound = channel.bound
    <3>1. CASE channel.server = channel.bound
      BY <1>1, <1>7, <3>1 DEF TaskerStops, ChannelStates
    <3>2. CASE channel.server # channel.bound
      BY <1>1, <1>7, <3>2 DEF TaskerStops, ChannelStates
    <3>3. QED BY <3>1, <3>2
  <2>2. QED BY <1>1, <2>1
<1>8. ASSUME \/ \E subject \in Subjects : ChannelSend(subject)
             \/ ChannelBroadcast \/ BrowserConnects \/ BrowserLosesLine \/ ProgressEnds
             \/ UNCHANGED channel
      PROVE  /\ channel'.taskers = channel.taskers /\ channel'.server = channel.server
             /\ channel'.bound = channel.bound /\ channel'.raced = channel.raced
  <2>1. ASSUME NEW subject \in Subjects, ChannelSend(subject)
        PROVE  /\ channel'.taskers = channel.taskers /\ channel'.server = channel.server
               /\ channel'.bound = channel.bound /\ channel'.raced = channel.raced
    BY <1>1, <2>1 DEF ChannelSend, ChannelStates
  <2>2. CASE ChannelBroadcast
    BY <1>1, <2>2 DEF ChannelBroadcast, ChannelStates
  <2>3. CASE BrowserConnects \/ BrowserLosesLine
    BY <1>1, <2>3 DEF BrowserConnects, BrowserLosesLine, ChannelStates
  <2>4. CASE ProgressEnds
    BY <1>1, <2>4 DEF ProgressEnds, ChannelStates
  <2>5. CASE UNCHANGED channel
    BY <2>5
  <2>6. QED BY <1>8, <2>1, <2>2, <2>3, <2>4, <2>5
<1>9. ASSUME BrowserReceives
      PROVE  /\ channel'.taskers = channel.taskers /\ channel'.server = channel.server
             /\ channel'.bound = channel.bound /\ channel'.raced = channel.raced
  BY <1>1, <1>9, Received DEF Renderings, ChannelStates
<1>10. QED BY <1>2, <1>3, <1>4, <1>5, <1>6, <1>7, <1>8, <1>9 DEF ChannelNext

(* What stays of a sequence of messages when the first leaves it, or one that
   is younger comes. *)
LEMMA FirstLeaves ==
    ASSUME NEW s \in Seq(RenderRequests), s # <<>>, Rising(s)
    PROVE  /\ Rising(Tail(s)) /\ Range(Tail(s)) \subseteq Range(s)
           /\ Head(s) \in Range(s)
           /\ \A m \in Range(Tail(s)) : Head(s).value < m.value
<1>1. /\ DOMAIN s = 1 .. Len(s) /\ Len(s) \in Nat /\ Len(s) > 0 /\ Head(s) = s[1]
      /\ DOMAIN Tail(s) = 1 .. Len(s) - 1
      /\ \A i \in 1 .. Len(s) - 1 : Tail(s)[i] = s[i + 1]
  OBVIOUS
<1> DEFINE t == Tail(s)
<1>2. /\ DOMAIN t = 1 .. Len(s) - 1
      /\ \A i \in 1 .. Len(s) - 1 : t[i] = s[i + 1]
  BY <1>1
<1> HIDE DEF t
<1>3. Rising(t)
  BY <1>1, <1>2 DEF Rising
<1>4. Range(t) \subseteq Range(s) /\ Head(s) \in Range(s)
  BY <1>1, <1>2 DEF Range
<1>5. ASSUME NEW m \in Range(t) PROVE Head(s).value < m.value
  <2>1. PICK i \in 1 .. Len(s) - 1 : m = s[i + 1]
    BY <1>2 DEF Range
  <2>2. QED BY <1>1, <2>1 DEF Rising
<1>6. QED BY <1>3, <1>4, <1>5 DEF t

LEMMA YoungerComes ==
    ASSUME NEW s \in Seq(RenderRequests), NEW m, Rising(s),
           \A x \in Range(s) : x.value < m.value
    PROVE  Rising(Append(s, m)) /\ Range(Append(s, m)) = Range(s) \cup {m}
<1> DEFINE t == Append(s, m)
           n == Len(s)
<1>1. /\ DOMAIN s = 1 .. n /\ n \in Nat /\ DOMAIN t = 1 .. n + 1
      /\ \A i \in 1 .. n : t[i] = s[i] /\ s[i] \in Range(s)
      /\ t[n + 1] = m
  BY DEF Range
<1> HIDE DEF t, n
<1>2. \A i \in 1 .. n + 1 : i \in 1 .. n \/ i = n + 1
  BY <1>1
<1>3. Range(t) = Range(s) \cup {m}
  BY <1>1, <1>2 DEF Range
<1>4. ASSUME NEW i \in 1 .. n + 1, NEW j \in 1 .. n + 1, i < j
      PROVE  t[i].value < t[j].value
  <2>1. i \in 1 .. n
    BY <1>1, <1>4
  <2>2. CASE j \in 1 .. n
    BY <1>1, <1>4, <2>1, <2>2 DEF Rising
  <2>3. CASE j = n + 1
    BY <1>1, <2>1, <2>3
  <2>4. QED BY <1>2, <2>2, <2>3
<1>5. QED BY <1>1, <1>3, <1>4 DEF Rising, t

(* The page shows nothing from v on if it showed nothing from u on. *)
LEMMA ShownEarlier ==
    ASSUME NEW c \in ChannelStates, NEW u \in Nat, NEW v \in Nat, u <= v, ShownBefore(c, u)
    PROVE  ShownBefore(c, v)
<1>1. /\ \A i \in DOMAIN c.tasks : c.tasks[i] \in Nat
      /\ \A i \in DOMAIN c.jobs : c.jobs[i] \in Nat
      /\ \A i \in DOMAIN c.progress : c.progress[i] \in Nat
      /\ c.percent \in Nat
  <2> DEFINE T0 == 0 .. MaxMessages
             T1 == 1 .. MaxMessages
  <2>1. c.tasks \in Seq(T0) /\ c.jobs \in Seq(T1) /\ c.progress \in Seq(T1) /\ c.percent \in T0
    BY DEF ChannelStates, TaskLists, ValueLists, Values
  <2>2. T0 \subseteq Nat /\ T1 \subseteq Nat
    BY ChannelAssumption
  <2> HIDE DEF T0, T1
  <2>3. /\ \A i \in DOMAIN c.tasks : c.tasks[i] \in T0
        /\ \A i \in DOMAIN c.jobs : c.jobs[i] \in T1
        /\ \A i \in DOMAIN c.progress : c.progress[i] \in T1
    BY <2>1
  <2>4. QED BY <2>1, <2>2, <2>3
<1>2. QED BY <1>1 DEF ShownBefore

(* Values of messages are numbers. *)
LEMMA ValuesAreNumbers ==
    ASSUME NEW c \in ChannelStates
    PROVE  /\ c.mail \in Seq(RenderRequests) /\ c.wire \in Seq(RenderRequests)
           /\ Range(c.mail) \subseteq RenderRequests /\ Range(c.wire) \subseteq RenderRequests
           /\ \A m \in RenderRequests : m.value \in Nat
           /\ c.sent \in Nat
<1>1. c.mail \in Seq(RenderRequests) /\ c.wire \in Seq(RenderRequests) /\ c.sent \in Nat
  BY ChannelAssumption DEF ChannelStates, Messages, Values
<1>2. \A s \in Seq(RenderRequests) : Range(s) \subseteq RenderRequests
  BY DEF Range
<1>3. \A m \in RenderRequests : m.value \in Nat
  BY DEF RenderRequests
<1>4. QED BY <1>1, <1>2, <1>3

(* The order is kept when messages are lost, ... *)
LEMMA OrderWhenLost ==
    ASSUME NEW c, InOrder(c), NEW d,
           Rising(d.mail), Range(d.mail) \subseteq Range(c.mail),
           Rising(d.wire), Range(d.wire) \subseteq Range(c.wire),
           d.sent = c.sent, d.tasks = c.tasks, d.jobs = c.jobs, d.progress = c.progress,
           d.percent = c.percent
    PROVE  InOrder(d)
<1>1. \A v : ShownBefore(c, v) => ShownBefore(d, v)
  BY DEF ShownBefore
<1>2. QED BY <1>1 DEF InOrder

(* ... when one is sent, ... *)
LEMMA OrderWhenSent ==
    ASSUME NEW c \in ChannelStates, InOrder(c), NEW d, NEW m,
           m.value = c.sent + 1, d.sent = c.sent + 1, d.mail = Append(c.mail, m), d.wire = c.wire,
           d.tasks = c.tasks, d.jobs = c.jobs, d.progress = c.progress, d.percent = c.percent
    PROVE  InOrder(d)
<1>1. \A v : ShownBefore(c, v) => ShownBefore(d, v)
  BY DEF ShownBefore
<1>2. \A x \in Range(c.mail) \cup Range(c.wire) :
         x.value \in Nat /\ x.value <= c.sent /\ x.value < m.value
  BY ValuesAreNumbers DEF InOrder
<1>3. Rising(d.mail) /\ Range(d.mail) = Range(c.mail) \cup {m}
  BY <1>2, ValuesAreNumbers, YoungerComes DEF InOrder
<1>4. ShownBefore(c, m.value) /\ ShownBefore(c, d.sent + 1)
  BY ValuesAreNumbers, ShownEarlier DEF InOrder
<1>5. \A x \in Range(c.mail) \cup Range(c.wire) \cup {m} :
         x.value <= d.sent /\ ShownBefore(d, x.value)
  BY <1>1, <1>2, <1>4, ValuesAreNumbers DEF InOrder
<1>6. QED BY <1>1, <1>2, <1>3, <1>4, <1>5 DEF InOrder

(* ... when it passes from the mailbox to the wire, ... *)
LEMMA OrderWhenWired ==
    ASSUME NEW c \in ChannelStates, InOrder(c), c.mail # <<>>, NEW d,
           d.mail = Tail(c.mail), d.wire = Append(c.wire, Head(c.mail)),
           d.sent = c.sent, d.tasks = c.tasks, d.jobs = c.jobs, d.progress = c.progress,
           d.percent = c.percent
    PROVE  InOrder(d)
<1>1. \A v : ShownBefore(c, v) => ShownBefore(d, v)
  BY DEF ShownBefore
<1>2. /\ Rising(d.mail) /\ Range(d.mail) \subseteq Range(c.mail)
      /\ Head(c.mail) \in Range(c.mail)
      /\ \A m \in Range(d.mail) : Head(c.mail).value < m.value
  BY ValuesAreNumbers, FirstLeaves DEF InOrder
<1>3. \A x \in Range(c.wire) : x.value < Head(c.mail).value
  BY <1>2 DEF InOrder
<1>4. Rising(d.wire) /\ Range(d.wire) = Range(c.wire) \cup {Head(c.mail)}
  BY <1>3, ValuesAreNumbers, YoungerComes DEF InOrder
<1>5. QED BY <1>1, <1>2, <1>4 DEF InOrder

(* ... when an animation ends, ... *)
LEMMA OrderWhenEnded ==
    ASSUME NEW c \in ChannelStates, InOrder(c), ProgressRises(c), c.progress # <<>>, NEW d,
           d.percent = Head(c.progress), d.progress = Tail(c.progress),
           d.mail = c.mail, d.wire = c.wire, d.sent = c.sent, d.tasks = c.tasks, d.jobs = c.jobs
    PROVE  InOrder(d) /\ ProgressRises(d) /\ c.percent <= d.percent
<1>1. c.progress \in Seq(1 .. MaxMessages)
  BY DEF ChannelStates, ValueLists
<1>2. /\ DOMAIN c.progress = 1 .. Len(c.progress) /\ Len(c.progress) \in Nat
      /\ Len(c.progress) > 0 /\ Head(c.progress) = c.progress[1]
      /\ DOMAIN Tail(c.progress) = 1 .. Len(c.progress) - 1
      /\ \A i \in 1 .. Len(c.progress) - 1 : Tail(c.progress)[i] = c.progress[i + 1]
  BY <1>1
<1> DEFINE t == Tail(c.progress)
           n == Len(c.progress)
<1>3. /\ DOMAIN c.progress = 1 .. n /\ n \in Nat /\ n > 0 /\ d.percent = c.progress[1]
      /\ d.progress = t /\ DOMAIN t = 1 .. n - 1
      /\ \A i \in 1 .. n - 1 : t[i] = c.progress[i + 1] /\ i + 1 \in 1 .. n
      /\ 1 \in 1 .. n
  BY <1>2
<1> HIDE DEF t, n
<1>4. \A v : ShownBefore(c, v) => ShownBefore(d, v)
  BY <1>3 DEF ShownBefore
<1>5. InOrder(d)
  BY <1>4 DEF InOrder
<1>6. ProgressRises(d) /\ c.percent <= d.percent
  <2>0. \A i, j \in 1 .. n : i < j => c.progress[i] <= c.progress[j]
    BY <1>3 DEF ProgressRises
  <2>1. ASSUME NEW i \in 1 .. n - 1, NEW j \in 1 .. n - 1, i < j PROVE t[i] <= t[j]
    <3>1. i + 1 \in 1 .. n /\ j + 1 \in 1 .. n /\ i + 1 < j + 1
      BY <1>3, <2>1
    <3>2. c.progress[i + 1] <= c.progress[j + 1]
      BY <2>0, <3>1
    <3>3. QED BY <1>3, <3>2
  <2>2. ASSUME NEW i \in 1 .. n - 1 PROVE d.percent <= t[i]
    <3>1. i + 1 \in 1 .. n /\ 1 < i + 1
      BY <1>3
    <3>2. c.progress[1] <= c.progress[i + 1]
      BY <1>3, <2>0, <3>1
    <3>3. QED BY <1>3, <3>2
  <2>3. c.percent <= d.percent
    BY <1>3 DEF ProgressRises
  <2>4. QED BY <1>3, <2>1, <2>2, <2>3 DEF ProgressRises
<1>7. QED BY <1>5, <1>6

(* ... and when a message is shown. *)
LEMMA OrderWhenShown ==
    ASSUME NEW c \in ChannelStates, InOrder(c), c.wire # <<>>, NEW d,
           d \in Renderings([c EXCEPT !.wire = Tail(@)], Head(c.wire).value)
    PROVE  InOrder(d) /\ ProgressRises(d)
<1> DEFINE m == Head(c.wire)
           v == m.value
<1>1. /\ Rising(Tail(c.wire)) /\ Range(Tail(c.wire)) \subseteq Range(c.wire)
      /\ m \in Range(c.wire) /\ \A w \in Range(Tail(c.wire)) : v < w.value
  BY ValuesAreNumbers, FirstLeaves DEF InOrder
<1>2. v \in Nat /\ v <= c.sent /\ ShownBefore(c, v)
  BY <1>1, ValuesAreNumbers DEF InOrder
<1> DEFINE base == [c EXCEPT !.wire = Tail(@)]
<1>3. /\ base.mail = c.mail /\ base.wire = Tail(c.wire) /\ base.sent = c.sent
      /\ base.percent = c.percent
  BY DEF ChannelStates
<1> DEFINE S0 == 0 .. v
           S1 == 1 .. v
<1>4. /\ d.mail = c.mail /\ d.wire = Tail(c.wire) /\ d.sent = c.sent
      /\ d.percent = c.percent /\ d.tasks \in Seq(S0) /\ d.jobs \in Seq(S1)
      /\ d.progress \in Seq(S1) /\ ProgressRises(d)
  <2> HIDE DEF base
  <2>0. d \in Renderings(base, v)
    BY DEF base
  <2> HIDE DEF v
  <2>1. QED BY <1>3, <2>0 DEF Renderings, ProgressRises
<1>5. \A x \in S0 \cup S1 : x \in Nat /\ x <= v
  BY <1>2
<1> HIDE DEF v, base, S0, S1
<1>6. /\ \A i \in DOMAIN d.tasks : d.tasks[i] \in S0
      /\ \A i \in DOMAIN d.jobs : d.jobs[i] \in S1
      /\ \A i \in DOMAIN d.progress : d.progress[i] \in S1
  BY <1>4
<1>7. ASSUME NEW u \in Nat, v < u, ShownBefore(c, u) PROVE ShownBefore(d, u)
  BY <1>2, <1>4, <1>5, <1>6, <1>7 DEF ShownBefore
<1>8. \A w \in Range(d.wire) : w.value <= d.sent /\ ShownBefore(d, w.value)
  BY <1>1, <1>4, <1>7, ValuesAreNumbers DEF InOrder
<1>9. \A w \in Range(d.mail) : w.value <= d.sent /\ ShownBefore(d, w.value)
  <2>1. \A w \in Range(c.mail) : v < w.value
    BY <1>1 DEF InOrder, v
  <2>2. QED BY <1>4, <1>7, <2>1, ValuesAreNumbers DEF InOrder
<1>10. ShownBefore(d, d.sent + 1)
  <2>1. c.sent \in Nat
    BY ValuesAreNumbers
  <2>2. v < c.sent + 1 /\ c.sent + 1 \in Nat
    BY <1>2, <2>1
  <2>3. QED BY <1>4, <1>7, <2>2 DEF InOrder
<1>11. QED BY <1>1, <1>4, <1>8, <1>9, <1>10 DEF InOrder

(* Every step keeps the order. *)
LEMMA ChannelOrderStep ==
    ChannelInv /\ [ChannelNext]_channel =>
       InOrder(channel)' /\ ProgressRises(channel)' /\ channel.percent <= channel'.percent
<1> SUFFICES ASSUME ChannelInv, [ChannelNext]_channel
             PROVE  InOrder(channel') /\ ProgressRises(channel') /\ channel.percent <= channel'.percent
  BY DEF InOrder, ProgressRises, Rising, ShownBefore, Range
<1>1. /\ channel \in ChannelStates /\ InOrder(channel) /\ ProgressRises(channel)
      /\ channel.percent <= channel.percent
  BY ChannelTyped, ChannelAssumption DEF ChannelInv, ChannelStates, Values
<1>2. ASSUME NEW d, d.progress = channel.progress, d.percent = channel.percent
      PROVE  ProgressRises(d) /\ channel.percent <= d.percent
  BY <1>1, <1>2 DEF ProgressRises
<1> DEFINE Kept(d) == /\ InOrder(d) /\ ProgressRises(d) /\ channel.percent <= d.percent
<1>s. SUFFICES Kept(channel')
  OBVIOUS
<1>3. ASSUME NEW d, d.sent = channel.sent, d.mail = channel.mail, d.wire = channel.wire,
             d.tasks = channel.tasks, d.jobs = channel.jobs, d.progress = channel.progress,
             d.percent = channel.percent
      PROVE  Kept(d)
  <2>1. Rising(channel.mail) /\ Rising(channel.wire)
    BY <1>1 DEF InOrder
  <2>2. InOrder(d)
    BY <1>1, <1>3, <2>1, OrderWhenLost
  <2>3. QED BY <1>2, <1>3, <2>2
<1>4. \A s \in Seq(RenderRequests) : s # <<>> /\ Rising(s) =>
         Rising(Tail(s)) /\ Range(Tail(s)) \subseteq Range(s)
  BY FirstLeaves
<1>5. /\ channel.mail \in Seq(RenderRequests) /\ channel.wire \in Seq(RenderRequests)
      /\ Rising(channel.mail) /\ Rising(channel.wire)
      /\ Rising(<<>>) /\ Range(<<>>) = {}
  BY <1>1, ValuesAreNumbers DEF InOrder, Rising, Range
<1>6. ASSUME NEW subject \in Subjects, ChannelSend(subject) PROVE Kept(channel')
  <2> DEFINE m == [subject |-> subject, value |-> channel.sent + 1]
  <2>1. /\ m.value = channel.sent + 1 /\ channel'.sent = channel.sent + 1
        /\ channel'.mail = Append(channel.mail, m) /\ channel'.wire = channel.wire
        /\ channel'.tasks = channel.tasks /\ channel'.jobs = channel.jobs
        /\ channel'.progress = channel.progress /\ channel'.percent = channel.percent
    BY <1>1, <1>6 DEF ChannelSend, ChannelStates
  <2> HIDE DEF m
  <2>2. InOrder(channel')
    BY <1>1, <2>1, OrderWhenSent
  <2>3. QED BY <1>2, <2>1, <2>2
<1>7. CASE ChannelBroadcast
  <2>1. /\ channel.mail # <<>> /\ channel'.mail = Tail(channel.mail)
        /\ channel'.wire = channel.wire \/ channel'.wire = Append(channel.wire, Head(channel.mail))
        /\ channel'.sent = channel.sent
        /\ channel'.tasks = channel.tasks /\ channel'.jobs = channel.jobs
        /\ channel'.progress = channel.progress /\ channel'.percent = channel.percent
    BY <1>1, <1>7 DEF ChannelBroadcast, ChannelStates
  <2>2. CASE channel'.wire = channel.wire
    <3>1. InOrder(channel')
      BY <1>1, <1>4, <1>5, <2>1, <2>2, OrderWhenLost
    <3>2. QED BY <1>2, <2>1, <3>1
  <2>3. CASE channel'.wire = Append(channel.wire, Head(channel.mail))
    <3>1. InOrder(channel')
      BY <1>1, <2>1, <2>3, OrderWhenWired
    <3>2. QED BY <1>2, <2>1, <3>1
  <2>4. QED BY <2>1, <2>2, <2>3
<1>8. CASE ChannelGivesUp
  <2>1. /\ channel.mail # <<>> /\ channel'.mail = Tail(channel.mail)
        /\ channel'.wire = channel.wire /\ channel'.sent = channel.sent
        /\ channel'.tasks = channel.tasks /\ channel'.jobs = channel.jobs
        /\ channel'.progress = channel.progress /\ channel'.percent = channel.percent
    BY <1>1, <1>8 DEF ChannelGivesUp, ChannelStates
  <2>2. InOrder(channel')
    BY <1>1, <1>4, <1>5, <2>1, OrderWhenLost
  <2>3. QED BY <1>2, <2>1, <2>2
<1>9. ASSUME NEW t \in Tasker, TaskerTest(t) \/ TaskerCreate(t) \/ TaskerStart(t)
      PROVE  Kept(channel')
  <2>1. /\ channel'.mail = channel.mail
        /\ channel'.wire = channel.wire /\ channel'.sent = channel.sent
        /\ channel'.tasks = channel.tasks /\ channel'.jobs = channel.jobs
        /\ channel'.progress = channel.progress /\ channel'.percent = channel.percent
    BY <1>1, <1>9 DEF TaskerTest, TaskerCreate, TaskerStart, ChannelStates
  <2>2. QED BY <1>3, <2>1
<1>10. ASSUME \/ \E t \in Tasker : TaskerStops(t)
              \/ BrowserConnects \/ BrowserLosesLine
       PROVE  Kept(channel')
  <2>1. /\ channel'.mail = channel.mail
        /\ channel'.wire \in {channel.wire, <<>>} /\ channel'.sent = channel.sent
        /\ channel'.tasks = channel.tasks /\ channel'.jobs = channel.jobs
        /\ channel'.progress = channel.progress /\ channel'.percent = channel.percent
    <3>1. CASE BrowserConnects \/ BrowserLosesLine
      BY <1>1, <3>1 DEF BrowserConnects, BrowserLosesLine, ChannelStates
    <3>2. ASSUME NEW t \in Tasker, TaskerStops(t), channel.server = channel.bound
          PROVE  channel' = [channel EXCEPT !.taskers[t] = "dead", !.bound = 0,
                                       !.connected = FALSE, !.wire = <<>>]
      BY <3>2 DEF TaskerStops
    <3>3. ASSUME NEW t \in Tasker, TaskerStops(t), channel.server # channel.bound
          PROVE  channel' = [channel EXCEPT !.taskers[t] = "dead"]
      BY <3>3 DEF TaskerStops
    <3>4. QED BY <1>1, <1>10, <3>1, <3>2, <3>3 DEF ChannelStates
  <2>2. Rising(channel'.wire) /\ Range(channel'.wire) \subseteq Range(channel.wire)
    BY <1>5, <2>1
  <2>3. Rising(channel'.mail) /\ Range(channel'.mail) \subseteq Range(channel.mail)
    BY <1>5, <2>1
  <2>4. InOrder(channel')
    BY <1>1, <2>1, <2>2, <2>3, OrderWhenLost
  <2>5. QED BY <1>2, <2>1, <2>4
<1>11. CASE BrowserReceives
  <2>1. channel' \in Renderings([channel EXCEPT !.wire = Tail(@)], Head(channel.wire).value)
    BY <1>11, Received
  <2>2. channel.wire # <<>>
    BY <1>11 DEF BrowserReceives
  <2>3. InOrder(channel') /\ ProgressRises(channel')
    BY <1>1, <2>1, <2>2, OrderWhenShown
  <2>4. channel'.percent = channel.percent
    BY <1>1, <2>1 DEF Renderings, ChannelStates
  <2>5. QED BY <1>1, <2>3, <2>4
<1>12. CASE ProgressEnds
  <2>1. /\ channel.progress # <<>> /\ channel'.percent = Head(channel.progress)
        /\ channel'.progress = Tail(channel.progress)
        /\ channel'.mail = channel.mail /\ channel'.wire = channel.wire
        /\ channel'.sent = channel.sent
        /\ channel'.tasks = channel.tasks /\ channel'.jobs = channel.jobs
    BY <1>1, <1>12 DEF ProgressEnds, ChannelStates
  <2>2. QED BY <1>1, <2>1, OrderWhenEnded
<1>13. CASE UNCHANGED channel
  BY <1>1, <1>13
<1>14. QED
  <2> HIDE DEF Kept
  <2>1. QED BY <1>6, <1>7, <1>8, <1>9, <1>10, <1>11, <1>12, <1>13 DEF ChannelNext

(* Newest first below the first element, by the indices of the whole. *)
LEMMA NewestBelow ==
    ASSUME NEW S, NEW s \in Seq(S), s # <<>>
    PROVE  NewestFirst(Tail(s)) <=> \A i, j \in 2 .. Len(s) : i < j => s[i] > s[j]
<1>1. /\ DOMAIN Tail(s) = 1 .. Len(s) - 1 /\ Len(s) \in Nat
      /\ \A i \in 1 .. Len(s) - 1 : Tail(s)[i] = s[i + 1]
  OBVIOUS
<1> DEFINE t == Tail(s)
           n == Len(s)
<1>2. /\ DOMAIN t = 1 .. n - 1 /\ n \in Nat /\ \A i \in 1 .. n - 1 : t[i] = s[i + 1]
  BY <1>1
<1> HIDE DEF t, n
<1>3. ASSUME NewestFirst(t), NEW i \in 2 .. n, NEW j \in 2 .. n, i < j
      PROVE  s[i] > s[j]
  <2>1. i - 1 \in 1 .. n - 1 /\ j - 1 \in 1 .. n - 1 /\ i - 1 < j - 1
    BY <1>2, <1>3
  <2>2. t[i - 1] = s[i] /\ t[j - 1] = s[j]
    BY <1>2, <2>1
  <2>3. QED BY <1>2, <1>3, <2>1, <2>2 DEF NewestFirst
<1>4. ASSUME \A i, j \in 2 .. n : i < j => s[i] > s[j],
             NEW i \in 1 .. n - 1, NEW j \in 1 .. n - 1, i < j
      PROVE  t[i] > t[j]
  <2>1. i + 1 \in 2 .. n /\ j + 1 \in 2 .. n /\ i + 1 < j + 1
    BY <1>2, <1>4
  <2>2. QED BY <1>2, <1>4, <2>1
<1>5. QED BY <1>2, <1>3, <1>4 DEF NewestFirst, t, n

(* A task or a job that is younger than what is listed keeps the lists newest
   first. *)
LEMMA TaskShownOnce ==
    ASSUME NEW tasks \in Seq(Nat), tasks # <<>>, NEW v \in Nat,
           \A i \in DOMAIN tasks : tasks[i] < v,
           NewestFirst(Tail(tasks))
    PROVE  LET new == TaskRefresh(tasks, v)
           IN  new # <<>> /\ NewestFirst(Tail(new)) /\ new[1] = new[2]
<1> DEFINE new == TaskRefresh(tasks, v)
           n == Len(tasks)
<1>a. n \in Nat /\ n > 0 /\ DOMAIN tasks = 1 .. n
  OBVIOUS
<1>b. /\ new \in Seq(Nat) /\ Len(new) = n + 1
      /\ \A i \in 1 .. n + 1 : new[i] = IF i <= 2 THEN v ELSE tasks[i - 1]
  BY TaskRefreshed
<1>1. /\ new \in Seq(Nat) /\ Len(new) = n + 1 /\ n \in Nat
      /\ \A i \in 1 .. n + 1 : new[i] = IF i <= 2 THEN v ELSE tasks[i - 1]
      /\ n > 0 /\ DOMAIN tasks = 1 .. n
  BY <1>a, <1>b
<1>2. \A i, j \in 2 .. n : i < j => tasks[i] > tasks[j]
  BY NewestBelow
<1>3. \A i \in 1 .. n : tasks[i] \in Nat /\ tasks[i] < v
  <2> HIDE DEF n
  <2>1. QED BY <1>a
<1> HIDE DEF new, n
<1>4. ASSUME NEW i \in 2 .. n + 1, NEW j \in 2 .. n + 1, i < j
      PROVE  new[i] > new[j]
  <2>1. new[j] = tasks[j - 1] /\ j - 1 \in 2 .. n
    BY <1>1, <1>4
  <2>2. CASE i = 2
    <3>1. new[i] = v
      BY <1>1, <1>4, <2>2
    <3>2. tasks[j - 1] < v /\ tasks[j - 1] \in Nat
      BY <1>3, <1>4, <2>1
    <3>3. QED BY <2>1, <3>1, <3>2
  <2>3. CASE i > 2
    <3>1. new[i] = tasks[i - 1] /\ i - 1 \in 2 .. n /\ i - 1 < j - 1
      BY <1>1, <1>4, <2>1, <2>3
    <3>2. QED BY <1>2, <2>1, <3>1
  <2>4. QED BY <1>4, <2>2, <2>3
<1>5. new # <<>>
  BY <1>1
<1>6. NewestFirst(Tail(new))
  BY <1>1, <1>4, <1>5, NewestBelow
<1>7. new[1] = new[2]
  BY <1>1
<1>8. QED BY <1>5, <1>6, <1>7 DEF new

LEMMA JobShownOnce ==
    ASSUME NEW jobs \in Seq(Nat), NEW v \in Nat,
           \A i \in DOMAIN jobs : jobs[i] < v,
           jobs # <<>> =>
              NewestFirst(Tail(jobs)) /\ \A i \in 2 .. Len(jobs) : jobs[i] > jobs[1]
    PROVE  LET new == JobRefresh(jobs, v)
           IN  NewestFirst(Tail(new)) /\ \A i \in 2 .. Len(new) : new[i] > new[1]
<1> DEFINE new == JobRefresh(jobs, v)
           n == Len(jobs)
<1>a. n \in Nat /\ DOMAIN jobs = 1 .. n /\ (jobs = <<>> <=> n = 0)
  OBVIOUS
<1>b. /\ new \in Seq(Nat) /\ Len(new) = n + 1
      /\ \A i \in 1 .. n + 1 :
            new[i] = IF jobs = <<>> \/ i = 2 THEN v ELSE IF i = 1 THEN jobs[1] ELSE jobs[i - 1]
  <2>1. JobsMoveDown(Nat, jobs, v, new)
    BY JobRefreshed
  <2> HIDE DEF new
  <2>2. QED BY <2>1 DEF JobsMoveDown
<1>1. /\ new \in Seq(Nat) /\ Len(new) = n + 1 /\ n \in Nat
      /\ \A i \in 1 .. n + 1 :
            new[i] = IF jobs = <<>> \/ i = 2 THEN v ELSE IF i = 1 THEN jobs[1] ELSE jobs[i - 1]
      /\ DOMAIN jobs = 1 .. n /\ (jobs = <<>> <=> n = 0)
  BY <1>a, <1>b
<1>2. n > 0 => \A i, j \in 2 .. n : i < j => jobs[i] > jobs[j]
  <2>1. ASSUME jobs # <<>> PROVE \A i, j \in 2 .. Len(jobs) : i < j => jobs[i] > jobs[j]
    BY <2>1, NewestBelow
  <2>2. QED BY <1>a, <2>1
<1>3. \A i \in 1 .. n : jobs[i] \in Nat /\ jobs[i] < v
  <2> HIDE DEF n
  <2>1. QED BY <1>a
<1>4. n > 0 => \A i \in 2 .. n : jobs[i] > jobs[1]
  BY <1>1
<1> HIDE DEF new, n
<1>5. ASSUME NEW i \in 2 .. n + 1, NEW j \in 2 .. n + 1, i < j
      PROVE  new[i] > new[j]
  <2>1. new[j] = jobs[j - 1] /\ j - 1 \in 2 .. n /\ n > 0
    BY <1>1, <1>5
  <2>2. CASE i = 2
    <3>1. new[i] = v
      BY <1>1, <1>5, <2>2
    <3>2. jobs[j - 1] < v /\ jobs[j - 1] \in Nat
      BY <1>1, <1>3, <2>1
    <3>3. QED BY <2>1, <3>1, <3>2
  <2>3. CASE i > 2
    <3>1. new[i] = jobs[i - 1] /\ i - 1 \in 2 .. n /\ i - 1 < j - 1
      BY <1>1, <1>5, <2>1, <2>3
    <3>2. QED BY <1>2, <2>1, <3>1
  <2>4. QED BY <1>5, <2>2, <2>3
<1>6. ASSUME NEW i \in 2 .. n + 1 PROVE new[i] > new[1]
  <2>1. n > 0 /\ new[1] = jobs[1] /\ jobs[1] \in Nat /\ jobs[1] < v
    BY <1>1, <1>3, <1>6
  <2>2. CASE i = 2
    BY <1>1, <1>6, <2>1, <2>2
  <2>3. CASE i > 2
    <3>1. new[i] = jobs[i - 1] /\ i - 1 \in 2 .. n
      BY <1>1, <1>6, <2>3
    <3>2. QED BY <1>4, <2>1, <3>1
  <2>4. QED BY <1>6, <2>2, <2>3
<1>7. new # <<>>
  BY <1>1
<1>8. NewestFirst(Tail(new))
  BY <1>1, <1>5, <1>7, NewestBelow
<1>9. QED BY <1>1, <1>6, <1>8 DEF new

(* Every step keeps what the page shows once, and in order. *)
LEMMA ChannelShowStep ==
    ChannelInv /\ [ChannelNext]_channel => ChannelShowsOnce' /\ channel'.tasks # <<>>
<1> SUFFICES ASSUME ChannelInv, [ChannelNext]_channel
             PROVE  ChannelShowsOnce' /\ channel'.tasks # <<>>
  OBVIOUS
<1>1. /\ channel \in ChannelStates /\ InOrder(channel) /\ ChannelShowsOnce
      /\ channel.tasks # <<>> /\ channel.subscriptions \in Nat
  BY ChannelTyped, ChannelAssumption DEF ChannelInv, ChannelSafe, ChannelStates, Connects
<1>2. CASE /\ channel'.tasks = channel.tasks /\ channel'.jobs = channel.jobs
           /\ channel'.subscriptions = channel.subscriptions
  BY <1>1, <1>2 DEF ChannelShowsOnce
<1>3. CASE BrowserConnects
  <2>1. /\ channel'.tasks = channel.tasks /\ channel'.jobs = channel.jobs
        /\ channel'.subscriptions = channel.subscriptions + 1
    BY <1>1, <1>3 DEF BrowserConnects, ChannelStates
  <2>2. channel'.subscriptions <= 1 => channel.subscriptions <= 1
    BY <1>1, <2>1
  <2>3. QED BY <1>1, <2>1, <2>2 DEF ChannelShowsOnce
<1>4. CASE BrowserReceives
  <2> DEFINE base == [channel EXCEPT !.wire = Tail(@)]
             m == Head(channel.wire)
             v == m.value
  <2>1. /\ m \in RenderRequests /\ channel' \in Renderings(base, v)
        /\ channel.subscriptions = 0 => channel' = base
        /\ channel.subscriptions = 1 => channel' = Rendered(base, m)
    BY <1>4, Received
  <2>2. /\ base.subscriptions = channel.subscriptions /\ base.tasks = channel.tasks
        /\ base.jobs = channel.jobs /\ base.progress = channel.progress
    BY <1>1 DEF ChannelStates
  <2>3. channel'.tasks # <<>> /\ channel'.subscriptions = channel.subscriptions
    <3> HIDE DEF base, v
    <3>1. QED BY <2>1, <2>2 DEF Renderings
  <2>4. CASE channel.subscriptions # 1
    <3>1. channel.subscriptions = 0 \/ ~(channel'.subscriptions <= 1)
      BY <1>1, <2>3, <2>4
    <3>2. CASE channel.subscriptions = 0
      BY <1>2, <2>1, <2>2, <3>2
    <3>3. QED BY <2>3, <3>1, <3>2 DEF ChannelShowsOnce
  <2>5. CASE channel.subscriptions = 1
    <3>1. ShownBefore(channel, v) /\ v \in Nat
      <4>1. channel.wire # <<>>
        BY <1>4 DEF BrowserReceives
      <4>2. m \in Range(channel.wire)
        BY <1>1, <4>1, ValuesAreNumbers, FirstLeaves DEF InOrder
      <4>3. QED BY <1>1, <2>1, <4>2, ValuesAreNumbers DEF InOrder
    <3>2. channel.tasks \in Seq(Nat) /\ channel.jobs \in Seq(Nat)
      <4> DEFINE T0 == 0 .. MaxMessages
                 T1 == 1 .. MaxMessages
      <4>1. T0 \subseteq Nat /\ T1 \subseteq Nat
        BY ChannelAssumption
      <4>2. channel.tasks \in Seq(T0) /\ channel.jobs \in Seq(T1)
        BY <1>1 DEF ChannelStates, TaskLists, ValueLists
      <4> HIDE DEF T0, T1
      <4>3. Seq(T0) \subseteq Seq(Nat) /\ Seq(T1) \subseteq Seq(Nat)
        BY <4>1, SeqMonotonic
      <4>4. QED BY <4>2, <4>3
    <3>3. /\ \A i \in DOMAIN channel.tasks : channel.tasks[i] < v
          /\ \A i \in DOMAIN channel.jobs : channel.jobs[i] < v
      BY <3>1 DEF ShownBefore
    <3>4. /\ NewestFirst(Tail(channel.tasks))
          /\ Len(channel.tasks) > 1 => channel.tasks[1] = channel.tasks[2]
          /\ channel.jobs # <<>> =>
                /\ NewestFirst(Tail(channel.jobs))
                /\ \A i \in 2 .. Len(channel.jobs) : channel.jobs[i] > channel.jobs[1]
      BY <1>1, <2>5 DEF ChannelShowsOnce
    <3>5. \/ channel'.tasks = channel.tasks /\ channel'.jobs = channel.jobs
          \/ channel'.tasks = TaskRefresh(channel.tasks, v) /\ channel'.jobs = channel.jobs
          \/ channel'.tasks = channel.tasks /\ channel'.jobs = JobRefresh(channel.jobs, v)
      <4>1. channel' = Rendered(base, m) /\ m.subject \in Subjects
        BY <2>1, <2>5 DEF RenderRequests
      <4>2. base \in [mail : {base.mail}, sent : {base.sent}, taskers : {base.taskers},
            server : {base.server}, bound : {base.bound}, connected : {base.connected},
            subscriptions : {base.subscriptions}, wire : {base.wire}, tasks : {base.tasks},
            jobs : {base.jobs}, progress : {base.progress}, percent : {base.percent},
            raced : {base.raced}]
        BY <1>1 DEF ChannelStates
      <4> DEFINE tasks == TaskRefresh(base.tasks, v)
                 jobs == JobRefresh(base.jobs, v)
      <4>3. \/ channel' = [base EXCEPT !.tasks = tasks]
            \/ channel' = [base EXCEPT !.jobs = jobs]
            \/ channel' = [base EXCEPT !.progress = Append(@, v)]
        <5> HIDE DEF base
        <5>1. QED BY <4>1 DEF Rendered, Subjects
      <4>4. tasks = TaskRefresh(channel.tasks, v) /\ jobs = JobRefresh(channel.jobs, v)
        BY <2>2
      <4> HIDE DEF base, tasks, jobs
      <4>5. QED BY <2>2, <4>2, <4>3, <4>4
    <3> HIDE DEF base, m, v
    <3>6. CASE channel'.tasks = channel.tasks /\ channel'.jobs = channel.jobs
      BY <1>2, <2>3, <3>6
    <3>7. CASE channel'.tasks = TaskRefresh(channel.tasks, v) /\ channel'.jobs = channel.jobs
      <4>1. NewestFirst(Tail(channel'.tasks)) /\ channel'.tasks[1] = channel'.tasks[2]
        BY <1>1, <3>1, <3>2, <3>3, <3>4, <3>7, TaskShownOnce
      <4>2. QED BY <2>3, <3>4, <3>7, <4>1 DEF ChannelShowsOnce
    <3>8. CASE channel'.tasks = channel.tasks /\ channel'.jobs = JobRefresh(channel.jobs, v)
      <4>1. /\ NewestFirst(Tail(channel'.jobs))
            /\ \A i \in 2 .. Len(channel'.jobs) : channel'.jobs[i] > channel'.jobs[1]
        BY <3>1, <3>2, <3>3, <3>4, <3>8, JobShownOnce
      <4>2. QED BY <2>3, <3>4, <3>8, <4>1 DEF ChannelShowsOnce
    <3>9. QED BY <3>5, <3>6, <3>7, <3>8
  <2>6. QED BY <2>4, <2>5
<1>5. ASSUME \/ \E subject \in Subjects : ChannelSend(subject)
             \/ ChannelBroadcast \/ ChannelGivesUp \/ BrowserLosesLine \/ ProgressEnds
             \/ UNCHANGED channel
      PROVE  /\ channel'.tasks = channel.tasks /\ channel'.jobs = channel.jobs
             /\ channel'.subscriptions = channel.subscriptions
  BY <1>1, <1>5 DEF ChannelSend, ChannelBroadcast, ChannelGivesUp, BrowserLosesLine, ProgressEnds,
                    ChannelStates
<1>6. ASSUME NEW t \in Tasker, TaskerTest(t) \/ TaskerCreate(t) \/ TaskerStart(t)
      PROVE  /\ channel'.tasks = channel.tasks /\ channel'.jobs = channel.jobs
             /\ channel'.subscriptions = channel.subscriptions
  BY <1>1, <1>6 DEF TaskerTest, TaskerCreate, TaskerStart, ChannelStates
<1>7. ASSUME NEW t \in Tasker, TaskerStops(t)
      PROVE  /\ channel'.tasks = channel.tasks /\ channel'.jobs = channel.jobs
             /\ channel'.subscriptions = channel.subscriptions
  <2>1. CASE channel.server = channel.bound
    BY <1>1, <1>7, <2>1 DEF TaskerStops, ChannelStates
  <2>2. CASE channel.server # channel.bound
    BY <1>1, <1>7, <2>2 DEF TaskerStops, ChannelStates
  <2>3. QED BY <2>1, <2>2
<1>8. QED BY <1>1, <1>2, <1>3, <1>4, <1>5, <1>6, <1>7 DEF ChannelNext

(* ChannelInv holds in every state. *)
LEMMA ChannelStep == ChannelInv /\ [ChannelNext]_channel => ChannelInv'
<1> SUFFICES ASSUME ChannelInv, [ChannelNext]_channel PROVE ChannelInv'
  OBVIOUS
<1>1. QED
  BY ChannelTypeStep, ChannelServesStep, ChannelOrderStep, ChannelShowStep
     DEF ChannelInv, ChannelSafe

LEMMA ChannelKeeps == ChannelInit /\ [][ChannelNext]_channel => []ChannelInv
BY ChannelStarts, ChannelStep, PTL

(* Whatever threads, lost lines, restarts and messages that wait do: as long as
   the browser connected once, each message is shown at most once and in
   order, and as long as no two threads raced, the server LocalRender talks to
   is the one that has the port. *)
THEOREM ChannelIsSafe == ChannelSpec => []ChannelSafe
<1>1. ChannelInv => ChannelSafe
  BY DEF ChannelInv
<1>2. QED BY <1>1, ChannelKeeps, PTL DEF ChannelSpec

(* The percentage that is left when an animation ends never falls back. *)
LEMMA ChannelStepsForward == ChannelInit /\ [][ChannelNext]_channel => ChannelProgress
<1>1. ChannelInv /\ [ChannelNext]_channel =>
         [channel'.percent # channel.percent => channel'.percent > channel.percent]_channel
  <2> SUFFICES ASSUME ChannelInv, [ChannelNext]_channel, channel'.percent # channel.percent
               PROVE  channel'.percent > channel.percent
    OBVIOUS
  <2>1. channel.percent <= channel'.percent
    BY ChannelOrderStep
  <2>2. channel.percent \in Nat /\ channel'.percent \in Nat
    <3>1. ChannelTypeOK /\ ChannelTypeOK'
      BY ChannelTypeStep DEF ChannelInv
    <3>2. QED BY <3>1, ChannelAssumption DEF ChannelTypeOK
  <2>3. QED BY <2>1, <2>2
<1>2. QED BY <1>1, ChannelKeeps, PTL DEF ChannelProgress

(* So it is with the channel's specification. *)
THEOREM ChannelGoesForward == ChannelSpec => ChannelProgress
BY ChannelStepsForward, PTL DEF ChannelSpec

-----------------------------------------------------------------------------
(* The page. *)
(* The page starts with every widget as its markup has it. *)
LEMMA PageStarts ==
    PageInit =>
        /\ LightboxInit /\ PieInit /\ ButtonInit /\ TooltipInit
        /\ DropdownInit /\ SpyInit /\ CollapseInit /\ WizardInit
        /\ ModalInit /\ CarouselInit /\ TabInit /\ ChannelInit
        /\ FormInit /\ TreeInit /\ SpinnerInit /\ GridInit
        /\ PickerInit /\ ComboInit /\ SliderInit
BY DEF PageInit

(* Every step is a step of each widget, or leaves it alone. *)
PageStep ==
    /\ [LightboxNext]_lightbox
    /\ [PieNext]_pie
    /\ [ButtonNext]_button
    /\ [TooltipNext]_tooltip
    /\ [DropdownNext]_dropdown
    /\ [SpyNext]_spy
    /\ [CollapseNext]_collapse
    /\ [ModalNext]_modal
    /\ [CarouselNext]_carousel
    /\ [TabNext]_tab
    /\ [WizardNext]_wizard
    /\ [FormNext]_form
    /\ [TreeNext]_tree
    /\ [SpinnerNext]_spinner
    /\ [GridStep]_grid
    /\ [PickerNext]_picker
    /\ [ComboNext]_combo
    /\ [SliderNext]_slider
    /\ [ChannelNext]_channel

(* What a step of the page is to each of the widgets. *)
LEMMA PageSteps == [PageNext]_pageVars => PageStep
<1> SUFFICES ASSUME [PageNext]_pageVars PROVE PageStep
  OBVIOUS
<1> USE DEF PageNext, Uses, pageVars
<1>1. [LightboxNext]_lightbox
  BY DEF LightboxNext
<1>2. [PieNext]_pie
  BY DEF PieNext
<1>3. [ButtonNext]_button
  BY DEF ButtonNext
<1>4. [TooltipNext]_tooltip
  BY DEF TooltipNext
<1>5. [DropdownNext]_dropdown
  BY DEF DropdownNext
<1>6. [SpyNext]_spy
  BY DEF SpyNext
<1>7. [CollapseNext]_collapse
  BY DEF CollapseNext
<1>8. [ModalNext]_modal
  BY DEF ModalNext
<1>9. [CarouselNext]_carousel
  BY DEF CarouselNext
<1>10. [TabNext]_tab
  BY DEF TabNext
<1>11. [WizardNext]_wizard
  BY DEF WizardNext
<1>12. [FormNext]_form
  BY DEF FormNext
<1>13. [TreeNext]_tree
  BY DEF TreeNext
<1>14. [SpinnerNext]_spinner
  BY DEF SpinnerNext
<1>15. [GridStep]_grid
  BY DEF GridStep
<1>16. [PickerNext]_picker
  BY DEF PickerNext
<1>17. [ComboNext]_combo
  BY DEF ComboNext
<1>18. [SliderNext]_slider
  BY DEF SliderNext
<1>19. [ChannelNext]_channel
  BY DEF ChannelNext
<1>20. QED
  BY <1>1, <1>2, <1>3, <1>4, <1>5, <1>6, <1>7, <1>8, <1>9, <1>10, <1>11, <1>12, <1>13, <1>14,
     <1>15, <1>16, <1>17, <1>18, <1>19 DEF PageStep

(***************************************************************************)
(* The page implements the specifications of its widgets; of those that    *)
(* state a fairness, which the page owes to some and not to others, the    *)
(* initial states and the steps.                                           *)
(***************************************************************************)
THEOREM PageImplementsWidgets ==
    PageSpec =>
        /\ LightboxSpec /\ PieSpec /\ DropdownSpec /\ WizardSpec /\ FormSpec /\ TreeSpec
        /\ SpinnerSpec /\ GridSpec /\ PickerSpec /\ ComboSpec /\ SliderSpec
        /\ ButtonInit /\ [][ButtonNext]_button
        /\ TooltipInit /\ [][TooltipNext]_tooltip
        /\ SpyInit /\ [][SpyNext]_spy
        /\ CollapseInit /\ [][CollapseNext]_collapse
        /\ ModalInit /\ [][ModalNext]_modal
        /\ CarouselInit /\ [][CarouselNext]_carousel
        /\ TabInit /\ [][TabNext]_tab
        /\ ChannelInit /\ [][ChannelNext]_channel
<1>1. [PageNext]_pageVars =>
         /\ [LightboxNext]_lightbox
         /\ [PieNext]_pie
         /\ [ButtonNext]_button
         /\ [TooltipNext]_tooltip
         /\ [DropdownNext]_dropdown
         /\ [SpyNext]_spy
         /\ [CollapseNext]_collapse
         /\ [ModalNext]_modal
         /\ [CarouselNext]_carousel
         /\ [TabNext]_tab
         /\ [WizardNext]_wizard
         /\ [FormNext]_form
         /\ [TreeNext]_tree
         /\ [SpinnerNext]_spinner
         /\ [GridStep]_grid
         /\ [PickerNext]_picker
         /\ [ComboNext]_combo
         /\ [SliderNext]_slider
         /\ [ChannelNext]_channel
  BY PageSteps DEF PageStep
<1>2. QED
  BY PageStarts, <1>1, PTL
     DEF PageSpec, LightboxSpec, PieSpec, DropdownSpec, WizardSpec, FormSpec, TreeSpec,
         SpinnerSpec, GridSpec, PickerSpec, ComboSpec, SliderSpec

(* Of the page as it is run: dialogs, timers, menus, the accordion, what slides,
   what is highlighted and what is pinned are what their widgets promise. *)
THEOREM PageKeepsBootstrapSafe ==
    PageSpec => [](/\ LightboxWhole /\ PieLoops /\ ButtonSafe /\ TooltipFollows
                   /\ DropdownSafe /\ SpySafe /\ CollapseSafe
                   /\ ModalSafe /\ CarouselSafe /\ TabShowsSelected)
<1>1. SpyInv => SpySafe
  BY DEF SpyInv
<1>2. TabInv => TabShowsSelected
  BY DEF TabInv
<1>3. QED
  BY <1>1, <1>2, PageImplementsWidgets, LightboxIsWhole, PieLoopIsAlive, ButtonStepsSafely,
     TooltipStepsSafely, DropdownIsSafe, SpyKeeps, CollapseKeeps, CollapseInvSafe,
     ModalStepsSafely, CarouselStepsSafely, TabKeeps, PTL

(* So are its wizard, grid, tree, spinner and form controls. *)
THEOREM PageKeepsFuelSafe ==
    PageSpec => [](WizardSafe /\ FormSafe /\ TreeSafe /\ SpinnerSafe /\ GridSafe)
BY PageImplementsWidgets, WizardIsSafe, FormIsSafe, TreeIsSafe, SpinnerIsSafe, GridIsSafe, PTL

(* So are the widgets that pick dates and numbers. *)
THEOREM PageKeepsPickersSafe ==
    PageSpec => [](PickerSafe /\ ComboSafe /\ SliderSafe)
BY PageImplementsWidgets, PickerIsSafe, ComboIsSafe, SliderIsSafe, PTL

(* And so is the channel: what the page shows of the scheduler's messages is in
   order and once, and the progress never falls back. *)
THEOREM PageKeepsChannelSafe ==
    PageSpec => []ChannelSafe /\ ChannelProgress
<1>1. ChannelInv => ChannelSafe
  BY DEF ChannelInv
<1>2. QED
  BY <1>1, PageImplementsWidgets, ChannelKeeps, ChannelStepsForward, PTL

(***************************************************************************)
(* The page never leaves the states of its widgets: each of the invariants *)
(* above has the widget's type in it, or is given it by a bound of its own *)
(* (TreeTyped, GridTyped, PickerTyped, ComboTyped and SliderTyped).        *)
(***************************************************************************)
THEOREM PageTypeCorrect == PageSpec => []PageTypeOK
<1>1. PageInit => using \in Widgets
  BY DEF PageInit
<1>2. using \in Widgets /\ [PageNext]_pageVars => (using \in Widgets)'
  BY DEF PageNext, Uses, pageVars
<1>3. /\ LightboxInv => LightboxTypeOK
      /\ PieInv => PieTypeOK
      /\ ButtonInv => ButtonTypeOK
      /\ TipInv(tooltip) => TooltipTypeOK
      /\ DropdownInv => DropdownTypeOK
      /\ SpyInv => SpyTypeOK
      /\ CollapseInv => CollapseTypeOK
  BY DEF LightboxInv, PieInv, ButtonInv, TipInv, Tips, TooltipTypeOK, DropdownInv, SpyInv,
         CollapseInv
<1>4. /\ ModalInv => ModalTypeOK
      /\ CarouselInv => CarouselTypeOK
      /\ TabInv => TabTypeOK
      /\ ChannelInv => ChannelTypeOK
  BY ModalTyped, CarouselTyped DEF ModalInv, CarouselInv, Turns, TabInv, ChannelInv
<1>5. /\ WizardInv => WizardTypeOK
      /\ FormInv => FormTypeOK
      /\ SpinnerInv => SpinnerTypeOK
  BY DEF WizardInv, FormInv, SpinnerInv
<1>6. PageSpec => [](using \in Widgets)
  BY <1>1, <1>2, PTL DEF PageSpec
<1>7. PageSpec => [](LightboxTypeOK /\ PieTypeOK /\ DropdownTypeOK /\ WizardTypeOK /\ FormTypeOK
                     /\ SpinnerTypeOK)
  BY <1>3, <1>5, PageImplementsWidgets, LightboxKeeps, PieKeeps, DropdownKeeps, WizardKeeps,
     FormKeeps, SpinnerKeeps, PTL
<1>8. PageSpec => [](TreeTypeOK /\ GridTypeOK /\ PickerTypeOK /\ ComboTypeOK /\ SliderTypeOK)
  BY PageImplementsWidgets, TreeTyped, GridTyped, PickerTyped, ComboTyped, SliderTyped, PTL
<1>9. PageSpec => [](ButtonTypeOK /\ TooltipTypeOK /\ SpyTypeOK /\ CollapseTypeOK)
  BY <1>3, PageImplementsWidgets, ButtonKeeps, TooltipKeeps, SpyKeeps, CollapseKeeps, PTL
<1>10. PageSpec => [](ModalTypeOK /\ CarouselTypeOK /\ TabTypeOK /\ ChannelTypeOK)
  BY <1>4, PageImplementsWidgets, ModalKeeps, CarouselKeeps, TabKeeps, ChannelKeeps, PTL
<1>11. QED
  BY <1>6, <1>7, <1>8, <1>9, <1>10, PTL DEF PageTypeOK

=============================================================================
