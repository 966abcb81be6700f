----------------------------- MODULE UIChannel -----------------------------
(***************************************************************************)
(* What the scheduler tells its users: the actor LocalRender broadcasts    *)
(* each message through SocketServer, whose static server one thread per   *)
(* instance (tasker) tests, creates and starts without a lock; the page    *)
(* subscribes on every connect (ListenerRegister) and shows the messages.  *)
(* Sending is fire and forget: nothing is kept for a later browser.        *)
(***************************************************************************)
EXTENDS Naturals, Sequences, SequencesExt

CONSTANTS
    MaxMessages,
    MaxTaskers,     \* bound on the instances of LocalRender, the first included
    MaxConnects

ASSUME ChannelAssumption ==
    MaxMessages \in Nat /\ MaxTaskers \in Nat \ {0} /\ MaxConnects \in Nat

Subjects == {"taskStatus", "jobStatus", "jobProgressValue"}
RenderRequests == [subject : Subjects, value : 1 .. MaxMessages]
Tasker == 1 .. MaxTaskers

VARIABLE
    channel   \* mail (of LocalRender), sent, taskers (where each thread is), server
              \* (the static field, named by the tasker that created it, 0: null), bound
              \* (the server that has the port), connected, subscriptions (of
              \* each subject), wire, tasks, jobs (the page, top down), progress
              \* (animations that run), percent, raced (history: two threads
              \* were between test and creation at once)

ChannelTypeOK ==
    channel \in [mail : Seq(RenderRequests), sent : 0 .. MaxMessages,
                 taskers : [Tasker -> {"none", "new", "create", "start", "sleep", "dead"}],
                 server : {0} \cup Tasker, bound : {0} \cup Tasker, connected : BOOLEAN,
                 subscriptions : 0 .. MaxConnects, wire : Seq(RenderRequests),
                 tasks : Seq(0 .. MaxMessages), jobs : Seq(1 .. MaxMessages),
                 progress : Seq(1 .. MaxMessages), percent : 0 .. MaxMessages,
                 raced : BOOLEAN]

ChannelInit ==
    channel = [mail |-> <<>>, sent |-> 0,
               taskers |-> [t \in Tasker |-> IF t = 1 THEN "new" ELSE "none"],
               server |-> 0, bound |-> 0, connected |-> FALSE, subscriptions |-> 0,
               wire |-> <<>>, tasks |-> <<0>>, jobs |-> <<>>, progress |-> <<>>,
               percent |-> 0, raced |-> FALSE]

-----------------------------------------------------------------------------
(* The first block takes the text and is cloned below itself. *)
TaskRefresh(tasks, v) == <<v, v>> \o Tail(tasks)

(* The first job stays on top, the others come below it, newest first. *)
JobRefresh(jobs, v) == IF jobs = <<>> THEN <<v>> ELSE <<Head(jobs), v>> \o Tail(jobs)

(* One call of the subject's callback. *)
Rendered(c, m) ==
    CASE m.subject = "taskStatus"       -> [c EXCEPT !.tasks = TaskRefresh(@, m.value)]
      [] m.subject = "jobStatus"        -> [c EXCEPT !.jobs = JobRefresh(@, m.value)]
      [] m.subject = "jobProgressValue" -> [c EXCEPT !.progress = Append(@, m.value)]

-----------------------------------------------------------------------------
ChannelSend(subject) ==
    /\ channel.sent < MaxMessages
    /\ channel' = [channel EXCEPT !.sent = @ + 1,
           !.mail = Append(@, [subject |-> subject, value |-> channel.sent + 1])]

(* broadcast to the clients of the static server. *)
ChannelBroadcast ==
    /\ channel.mail # <<>>
    /\ channel.server # 0
    /\ channel' = [channel EXCEPT !.mail = Tail(@),
           !.wire = IF channel.connected /\ channel.server = channel.bound
                    THEN Append(@, Head(channel.mail)) ELSE @]

(* Still no server after ten seconds: the exception costs the message, and
   the restarted LocalRender has a SocketServer, and a thread, of its own. *)
ChannelGivesUp ==
    /\ channel.mail # <<>>
    /\ channel.server = 0
    /\ \E t \in Tasker :
          /\ channel.taskers[t] = "none"
          /\ \A u \in 1 .. (t - 1) : channel.taskers[u] # "none"
          /\ channel' = [channel EXCEPT !.mail = Tail(@), !.taskers[t] = "new"]

(* Mutant of TaskerTest: the test is missing. *)
TaskerTestNothing(t) ==
    /\ channel.taskers[t] = "new"
    /\ channel' = [channel EXCEPT !.taskers[t] = "create",
           !.raced = @ \/ \E u \in Tasker : channel.taskers[u] = "create"]

TaskerTest(t) ==
    /\ channel.taskers[t] = "new"
    /\ channel' = [channel EXCEPT
           !.taskers[t] = IF channel.server = 0 THEN "create" ELSE "start",
           !.raced = @ \/ (channel.server = 0
                              /\ \E u \in Tasker : channel.taskers[u] = "create")]

TaskerCreate(t) ==
    /\ channel.taskers[t] = "create"
    /\ channel' = [channel EXCEPT !.taskers[t] = "start", !.server = t]

(* Starts the static server, whoever created it; the port can be taken. *)
TaskerStart(t) ==
    /\ channel.taskers[t] = "start"
    /\ channel' = [channel EXCEPT
           !.taskers[t] = IF channel.bound = 0 THEN "sleep" ELSE "dead",
           !.bound = IF @ = 0 THEN channel.server ELSE @]

(* After Integer.MAX_VALUE ms the server is stopped, but not forgotten. *)
TaskerStops(t) ==
    /\ channel.taskers[t] = "sleep"
    /\ IF channel.server = channel.bound
       THEN channel' = [channel EXCEPT !.taskers[t] = "dead", !.bound = 0,
                                       !.connected = FALSE, !.wire = <<>>]
       ELSE channel' = [channel EXCEPT !.taskers[t] = "dead"]

-----------------------------------------------------------------------------
(* Every 'connect' subscribes once more. *)
BrowserConnects ==
    /\ ~channel.connected
    /\ channel.bound # 0
    /\ channel.subscriptions < MaxConnects
    /\ channel' = [channel EXCEPT !.connected = TRUE, !.subscriptions = @ + 1]

BrowserLosesLine ==
    /\ channel.connected
    /\ channel' = [channel EXCEPT !.connected = FALSE, !.wire = <<>>]

BrowserReceives ==
    /\ channel.wire # <<>>
    /\ channel' = FoldLeft(Rendered, [channel EXCEPT !.wire = Tail(@)],
                           [n \in 1 .. channel.subscriptions |-> Head(channel.wire)])

(* An animation ends.  All last equally long, and each writes its steps into
   the one percentCount there is, so they end as they began. *)
ProgressEnds ==
    /\ channel.progress # <<>>
    /\ channel' = [channel EXCEPT !.percent = Head(channel.progress),
                                  !.progress = Tail(@)]

ChannelNext ==
    \/ \E subject \in Subjects : ChannelSend(subject)
    \/ ChannelBroadcast \/ ChannelGivesUp
    \/ \E t \in Tasker : TaskerTest(t) \/ TaskerCreate(t) \/ TaskerStart(t) \/ TaskerStops(t)
    \/ BrowserConnects \/ BrowserLosesLine \/ BrowserReceives \/ ProgressEnds

ChannelFairness ==
    /\ WF_channel(ChannelBroadcast)
    /\ \A t \in Tasker : WF_channel(TaskerTest(t) \/ TaskerCreate(t) \/ TaskerStart(t))

ChannelSpec == ChannelInit /\ [][ChannelNext]_channel /\ ChannelFairness

-----------------------------------------------------------------------------
(* Newest first, each once. *)
NewestFirst(s) == \A i, j \in DOMAIN s : i < j => s[i] > s[j]

(***************************************************************************)
(* As long as the browser connected at most once, whatever taskers, lost   *)
(* lines and waiting messages do: no message is shown twice or out of      *)
(* order.  The tasks are listed newest first below the current one, and    *)
(* the jobs newest first below the first.  (Every reconnection makes each  *)
(* later message show once more.)                                          *)
(***************************************************************************)
ChannelShowsOnce ==
    channel.subscriptions <= 1 =>
        /\ NewestFirst(Tail(channel.tasks))
        /\ Len(channel.tasks) > 1 => channel.tasks[1] = channel.tasks[2]
        /\ channel.jobs # <<>> =>
              /\ NewestFirst(Tail(channel.jobs))
              /\ \A i \in 2 .. Len(channel.jobs) : channel.jobs[i] > channel.jobs[1]

(***************************************************************************)
(* LocalRender talks to the server that has the port, although every       *)
(* restart begins another thread that may create one - unless two threads  *)
(* were between the test and the creation at once: then messages may go to *)
(* a server no browser can reach.                                          *)
(***************************************************************************)
ChannelServes ==
    (channel.bound # 0 /\ ~channel.raced) => channel.server = channel.bound

(***************************************************************************)
(* The channel: messages once and in order, through the server that has    *)
(* the port.                                                               *)
(***************************************************************************)
ChannelSafe == ChannelShowsOnce /\ ChannelServes

(***************************************************************************)
(* A message does not wait in the mailbox of LocalRender for ever: some    *)
(* thread creates the server, and the mailbox is then emptied.             *)
(***************************************************************************)
ChannelDrains == (channel.mail # <<>>) ~> (channel.mail = <<>>)

(***************************************************************************)
(* The percentage that is left when an animation ends never falls back:    *)
(* of animations that overlap, the earlier ones of which lost their        *)
(* element, the newest value stays.                                        *)
(***************************************************************************)
ChannelProgress ==
    [][channel'.percent # channel.percent => channel'.percent > channel.percent]_channel

=============================================================================
