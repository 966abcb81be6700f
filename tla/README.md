# A formal model of silen: the scheduler and its web page

silen schedules jobs: directed graphs of Spark tasks that a user draws in a web
page or writes as an Oozie workflow. A client sends the tasks of a job to the
master; the master's node manager builds a graph of them, creates one akka actor
per node, and starts those without predecessors; every node that finishes hands
its result to its successors and starts them. What happens is broadcast to the
browser, whose page is made of Bootstrap and Fuel UX widgets that the repository
carries and extends. This directory models that core, the channel and the widgets
in TLA+, checks them with TLC and proves part of it with TLAPS.

Paths below are relative to `src/Scheduler-core/src/main/java/silen/scheduler/`
unless they start with `src/`.

## 1. Inventory

| Component | State | Operations | Talks to |
|---|---|---|---|
| `TaskGraph` (service/job/TaskGraph.scala) | `from`, `to`, `firstEdge`, `nextEdge`, `nodeInfo` | `init`, `getPrenodes`, `getSuccnodes`, `findStartNodes`, `getNodeNum` | built and queried by `DataNodeManager` |
| `JobContainer` with `NodeEventHandler`, `RootNode` (service/job) | three plain `HashMap`s, one object per process: `dataRef`, `nodeRef`, `nodeStatus` | `addDataRes`, `setRunStatus`, `checkRunStatus`, `findNodeData`, `addNode`, `findNode`, `addEvent` | shared by all handlers and the manager, no lock |
| `DataHandler` (service/job/DataHandler.scala) | none between messages; one actor per node of a job | `receive(NodeIdentity)` | begun by the manager and by its predecessors; reports to the manager |
| `DataNodeManager` (service/job) with `TaskDesContainer` (data/job), `JobCountObserver` (observer) | tasks by job, total and finished nodes by job | ASSIGN, RUN, NODE_FIRST, NODE_PRE_START, NODE_FINISH, NODE_OVER | receives from clients and handlers, renders to the UI |
| `JobScheduleListener` (service/job/MasterSystem.scala) | retries in the time range | forwards tasks; supervises the manager | restarts or stops it |
| `SchedulerSubmit`, `SingleService` (service/client) | none | `submitJob` | asks the master, no answer is ever sent |
| `WorkFlowParser`, `XMLHelper`, oozieconf | node numbers by name, joins | `toNativeWorkFlow` | makes the tasks that are submitted |
| `UserClassLoader`, `TaskUtil` | loaders | load and invoke the user's class | called by a handler |
| `UIManager`, `UIListener` (service/client), `src/scheduler.ui/src/main/java` | the mailbox of `LocalRender`, one static socket server, a thread per instance | render, broadcast, start and stop of the server | receives from manager and observer, sends to the page |
| The page's client (`index.html`, `loadProgress.js`) | subscriptions, lists of tasks and jobs, percentage | connect, message handlers, animations | receives from the socket server |
| Bootstrap's widgets (`bootstrap.js`, `bootstrap-lightbox.js`, part of `app.js`) | per element: flags, classes, callbacks that wait for transitions and timers | show, hide, toggle, slide, scroll, setState | people, timers, transition ends |
| Fuel UX controls (`fuelux.js`, `app.data.js`, part of `app.plugin.js`) | options, classes, pending answers and timers | search, page, sort, spin, select, step | people, timers, data sources |
| Pickers (`bootstrap-datepicker.js`, `combodate.js`, `bootstrap-slider.js`) | date and view, selects and field, handles and values | click, type, navigate, drag | people |
| Pie chart (`jquery.easy-pie-chart.js`, `app.plugin.js`) | the flag of the loop | toggle, animate | timers |
| `RuntimeCounter`, `DateTimeUtil` | counters, a shared formatter | `increase`, `currentDateTime` | |
| `UDFRDD`, `SimpleIterator` (common/utils) | a reader per partition | `compute` | outside the scheduler's path |
| silen-ml (`src/silen-ml`) | training sets, trees | group, split, train | on its own |

What is hard in it:

* **Concurrency.** Every handler runs on a dispatcher thread; all of them and the
  manager share three unsynchronised hash maps. Readiness of a node is a check of
  statuses that others are writing.
* **Dropped messages.** A handler that is begun before all predecessors are done
  drops the message (`//TODO do something`) and relies on a later one. A join is
  begun once per predecessor, and may drop some of the messages or run on several.
* **Order.** Results, statuses, begin messages and reports to the manager are
  sent in an order that later steps rely on.
* **Failure.** A message that makes the manager throw replaces it by an empty one;
  failures in a handler are only logged; asks may be lost.
* **Arrays sized by a guess.** The number of nodes of a job is inferred from the
  number of its tasks.
* **Fire and forget.** A message to the browser is kept for nobody; the static
  server is tested, created and started by racing threads; every reconnection of
  the page subscribes once more.
* **Callbacks of the page.** A widget that is animated has changed its flags long
  before its elements: show, hide, a timer, the end of a transition and an answer
  of a data source come in any order, and each reads what the others left.
* **Copies of one choice.** Options, classes, labels, icons and fields repeat each
  other and are updated by different handlers.
* **Arithmetic of dates and steps.** Months of different lengths, ends of years,
  noon and midnight, steps that do not divide their range.

What makes each component correct:

* graph: both query directions agree, no list loses an edge, start nodes are
  among the nodes that get registered;
* handlers: no node before its predecessors, no node stranded, no report before
  the results are handed on;
* manager: a job is launched whole, its counters are those of its launch, a job
  that is launched comes to its announced end;
* channel: no message is shown twice or out of order, the mailbox empties, the
  server that is talked to is the one that has the port;
* widgets: at rest the elements, flags and labels agree with the last thing that
  was asked; no callback, timer or backdrop is left behind or doubled; what is
  picked, shown and stored is one value.

`PROJECT.json` lists the components, each hazard at its line, and for every
definition of the modules the lines it stands for.

## 2. Modules

```
TaskGraph                      JobContainer      DataNodeManager
    |                               |              |         |
WorkFlowParser   DependencyOrder <~~ DataHandler   |     Submission
                                    \______________|
                                          Scheduler
```

```
Modal Lightbox Collapse Carousel Tab Tooltip Dropdown Button ScrollSpy   (Bootstrap)
Wizard Datagrid Spinner Tree FormControls                                (Fuel UX)
Datepicker Slider Combodate     PieLoop     UIChannel
   \__________________________________________/
                     WebPage
```

Solid lines are EXTENDS, `<~~` is implementation. Each specification has an MC
module with the instances for TLC. Proofs are in modules of their own:
`TaskGraphProofs`, `SchedulerProofs` (handlers alone and under the manager),
`SubmissionProofs`, `BootstrapProofs`, `FuelProofs`, `PickerProofs`, and `PageProofs`
(the channel, and the page around its widgets). `FoldLemmas` has what several of
them need: least and greatest elements, and what the folds of the community modules
compute.

**TaskGraph.** A behaviour is one `init` on a task list, one step per task
(`Link`), so that the half-built arrays can be talked about; `OutOfBounds` is the
throw of a source without a slot. `nodeInfo` stores the edge whose command a node
got. Edges are numbered from 1 and `NoEdge = 0` is the code's -1. `FindNodeEdges`
reads the recursive function `Walk` along the list.

**WorkFlowParser.** What precedes the graph when a job is submitted as a workflow:
`ToNativeWorkFlow` folds `ParseAction` over the actions in the order of the XML and
numbers nodes as `createNodeIndex` does; the behaviour is then TaskGraph's on the
tasks that result. `nodeMap` is a sequence of names, the index of a name its place.
Names are strings; what a workflow is made of is `IsWorkFlow`, assumed of every
element of `WorkFlows` (`WorkFlowsAssumption`).
The walk along joins is bounded by their number, and `Parses` leaves out what makes
the client throw (no joins at all) or never end (joins in a cycle). `Precedes` and
`LeadsTo`, used by the property only, read joins and forks of the workflow itself.

**JobContainer.** The maps as sets of keys: `dataRef` (pairs producer, consumer),
`nodeRef`, `nodeStatus`. `mailbox` counts the begin messages of a node; they are
all equal. Unsynchronised access is modelled by its outcomes: a put that overlaps
another put may lose any entries (`AfterPut`), a get that overlaps a put may miss
one. `raced` remembers that a result or a status was affected; properties that cannot
survive it say so.

**DataHandler.** One `receive` of a node is cut where other threads can see a
difference: `Prepare` or `NotReady` (the check), `InputMissing`, `TaskFails` or
`TaskSucceeds` (fetch the inputs, run the user's task), `PutData` and
`MarkAndBegin` for each successor, `Finish`. `pc` and `k` say where a handler is.
`LookupFails` is the failed cast in `findNode`, when the successor was never created
(`Created` are the nodes 1 to `getNodeNum` of each job, whatever numbers its tasks
have) or is missed while another job's nodes are being added; `cutOff` remembers the
successors the loop did not come to. `BeginLaunch` and `EndLaunch` bracket the manager's `run`, during which
`nodeRef` is unstable. `inbox` holds the messages to the manager.
Two merges are justified by the data: (a) a scan over statuses or results is one
step, because the maps only grow, so a scan that succeeds at the end would succeed
as an atomic read then, and one that fails would fail as an atomic read at its
failing get; (b) setting a status and sending the begin message are one step, since
the delivery of the message could only come later, and everything a receiver does
before it is possible after it as well. `Errors` outside `Exception` that a user's
class may throw are not modelled: the actor system treats them as fatal.
`nodeRef` is written when the launch ends; nobody can reach a node of the job
before, as no begin message to one exists.

**DependencyOrder.** The abstract promise: known nodes, those created when their job is
launched, run after their predecessors. `DataHandler` implements it with `known <- nodeRef`, `done <- ran`.

**DataNodeManager.** `container` (tasks by job; node names are dropped), `total`
and `success` (the observer's two kinds of keys), `retries`, `status`. `NodeNum`
and `Builds` restate what `TaskGraph` computes. `Supervise` is akka's one-for-one
strategy with `maxNrOfRetries`: restart, with retries counted in a time range that
may have run out, or stop. `CountFinish` increments and then computes the
progress; if the job is unknown the exception discards the increment with the
instance (`FinishThrows`). NullPointerException and other exceptions restart alike.

**Submission.** `DataNodeManager` with clients around it. Messages of a client
arrive in order or not at all (`Lose`); those of several interleave. The job id has
a resolution of a second, so two clients may share one.

**Scheduler.** `DataHandler` and `DataNodeManager` together, the tasks assembled
and the RUN of each job on its way. `CompleteRun` announces the total and begins
the start nodes. `HandleMessage` takes the head of the queue. A job without tasks
stands for every RUN that throws: the manager restarts while handlers go on. Here
the manager's thread is in one place at a time (`ManagerFree`), which `DataHandler`
alone does not know.

### The page

Every module of the page has one variable, a record whose fields are the widget's
flags, classes, options and what is pending: `waiting`, `fades`, `moves`, `timers`,
`pending` and the like hold the callbacks that a transition, a timer or an answer will
run, in the order in which they were registered. There is one action per event handler
or callback, which runs to its end, as the browser's single thread runs it. Fields
called *history* (`overlapped`, `hasty`, `rushed`, `chorded`, `again`, `raced`,
`tied`, ...) are not in the code; they remember that an order of events occurred after
which the code is known not to keep the property, so that the property is exact about
when it holds. Those orders are described at each property, and named in the note of
the hazard they belong to. Where the code recovers the history does: `rushed` ends
with the last update of the pie chart, `chorded` with a release that finds no lost
timer, the lightbox's `hasty` with a hide that leaves neither an image on its way nor
a forgotten backdrop, the grid's with a page chosen on an answer or a change of the
query, `tied` with the next move, that of carousel, tooltip, tabs, the dialog's focus
handler and the accordion's links with the next slide, show, click, hide or click at
rest; and the tree's `again` is a number, by which its copies are bounded in every
order of clicks and answers. `overlapped` (dialog, accordion) and `raced` (server)
stay: there the code keeps a second backdrop, a second open panel or an unreachable
server, and nothing the page does afterwards is certain to mend it.

* **Modal, Lightbox, Collapse, Carousel, Tab, Tooltip** (`bootstrap.js`,
  `bootstrap-lightbox.js`): opening and closing by transitions. An end event runs
  every callback that waits on its element, in the order of registration:
  `ElementsIn` of **SubSequences** picks them, as jQuery (minified here) does. Tooltip is also the popover's base.
* **Dropdown, Button, ScrollSpy**: menus and their keyboard, with the selection
  `app.js` adds; states set through timers; the active entry by the position, and
  affix.
* **Wizard, Datagrid, Spinner, Tree, FormControls** (`fuelux.js` with the page's
  handlers in `app.plugin.js` and data sources in `app.data.js`): `Ask` and
  `RenderData` are what every change of the grid's query ends with; `Data` is the
  source's answer, computed from the options as they are when the timer runs.
  FormControls has the combobox, radio buttons, check box and pillbox.
* **Datepicker, Combodate, Slider**: the arithmetic of the code over months
  (12 * year + month, from the year 100 on: `new Date` takes smaller ones for years of
  the last century) and days, over selects, and over handles measured from the
  least value. `NewDate` is the browser's Date with a day beyond its month.
* **PieLoop**: the loop of animation and timer behind one flag.
* **UIChannel**: `mail` is the mailbox of `LocalRender`; `Tasker*` are the steps of
  a thread between its test of the static field, the creation and the start;
  `ChannelGivesUp` is the broadcast that throws after ten seconds without a server
  and restarts the actor, which begins another thread. `TaskerStops`: the thread
  stops the server after Integer.MAX_VALUE ms. `BrowserConnects` adds a
  subscription each time, `BrowserLosesLine` loses what is on the wire.
* **WebPage** composes them. Each widget's handlers read and write only data of
  their own element, so the behaviours of the page are the interleavings of those
  of its widgets, and a property of one widget holds on the page iff it holds of
  the widget with the others at rest. The page therefore chooses one widget
  (`using`), and every action is that of one widget with the rest UNCHANGED; the
  state space is the sum of the widgets', not their product.

## 3. What TLC checks

| Run | Instance | Shows |
|---|---|---|
| task_graph | every list of 1 to 3 tasks over nodes 1 to 5; every workflow of 1 to 3 actions in any order with any transitions, one fork and up to two joins; the two workflows the repository keeps | the arrays are chained lists at every iteration; the two query directions agree; start nodes are registered; the graph of an ordinary workflow has its actions, order, start and end (`GraphIsWorkFlow`) |
| handlers_triangle | nodes 1, 2, 3 with edges 1-2, 2-3, 1-3 and the target of the last task its own source; 1 signals 2 first | order, no lost wakeup, hand-over before NODE_FINISH, liveness of ready nodes, refinement of DependencyOrder, under racing maps |
| handlers_two_jobs | a chain, and a job with a node numbered beyond those created, first in its predecessor's list, launched while the other runs; no task leaves the last nodes of the second | ready nodes run, except those that a failed lookup in `nodeRef` (`LookupFails`) cut off; nothing else of one job disturbs the other |
| submission | four clients: two share a job id, one of these cannot be built, two have their own ids and more or as many nodes as tasks | jobs are launched whole, or a suffix after a restart; totals are those of launches; submissions are launched |
| scheduler_join | two start nodes and a join, a second job whose RUN throws | the composition implements DataHandler; the end is announced only when all ran; jobs end, with two handlers in the maps at once |
| scheduler_two_jobs | a chain, a single node, a RUN that throws | messages of two jobs mix; totals are known before finishes are counted, unless the manager threw; jobs end, after a restart as well: it costs their progress only, and the stop of the manager everything |
| web_page | one page: 3 shows of each dialog, 3 panels, 3 slides, 3 tabs, 2 menus of 3 items (one of radio buttons, one item disabled), 2 radio buttons, 3 sections over 8 positions, 3 steps that all need validation, up to 3 rows in pages of 1 or 2 with 2 answers pending, a range of 1 to 6 by 2, 3 items, 6 months around ends of years and leap days, a slider of 1 to 7 by 2, dates at midnight, noon and at ends of months, 3 words, 3 messages, 2 threads, 2 connects | one invariant for each widget and for the channel, one of types, and what the page owes over time (`PageKeepsWord`), in every order of events |

An invariant of the page (`ModalSafe`, `CarouselSafe`, `GridSafe`, ...) is the
conjunction of the widget's named properties, each stated with its exceptions in
the widget's module; `PageKeepsWord` is that of the five temporal ones:
`ModalDisappears`, `TooltipDisappears`, `CarouselHonours`, `ChannelDrains` and
`ChannelProgress`. Button and FormControls are part of the page and their types
are checked; their properties are proved (section 4) and not listed in the run, and so
is Submission's type invariant.

`GraphIsWorkFlow` is about ordinary workflows: forks are entered from the start or
from forks, joins lead to actions, every action is reached, and no two elements share
a name (`NamesDiffer`: neither the client nor the parser checks it, and two actions of
one name would be one node). Of the workflows of the
instance 882 are, among them the two of the repository; of others it says nothing,
because a fork that is entered from an action, or a join that leads to the end,
becomes a node without a command.

Five runs show that the code does not do what a comment or a printed text of it
says (`findings` in PROJECT.json):

* task_graph_fork_join: `getNodeNum` is said to discount an isolated point; the
  fork-and-join flow of Test3.scala, six nodes and seven tasks, is counted as seven.
* handlers_ready: the check is not a readiness check, because the status is kept
  per producer and not per edge. `NoLostWakeup` shows why this is harmless but for a
  logged exception: the wakeup that belongs to the missing result is still to come.
* submission_resume: "resume worker" is a restart, which discards other jobs.
* scheduler_percent: a join begun by two predecessors may run and be counted twice;
  its job's progress reaches 133 percent.
* scheduler_over: NODE_OVER may be handled before an earlier node's NODE_FINISH.

None of the last two needs a race in the maps or a restart.

**Bounds.** `MaxTasks = 3`, `MaxNode = 5`: three tasks give a node two outgoing
edges, repeated edges, self loops and cycles, and five is the smallest number
beyond the slots of three tasks. Three actions and two joins give chains of joins,
branches that meet, and every order in which names can be met. Three nodes are enough for a node with two
predecessors, one of which is also the other's, and for two handlers inside the
same put. `MaxRetries = 2` stands for the code's 10: one restart, a second one, and
the stop. `Reports = 1` in Submission bounds NODE_FINISH per node of a launch;
Scheduler has the repeated ones. Nothing else is bounded. The constants are never
symmetric (jobs have different shapes), so no symmetry is used.

For the page: two overlapping shows or slides are what the properties are about,
a third shows that nothing accumulates (`MaxShows`, `MaxLooks`, `MaxStates`,
`MaxUpdates` = 3, `MaxQueue` = 3, `MaxFades` = 4, `MaxFadeOuts` = 2); three panels,
tabs and items are the smallest number at which "the other one" is not unique.
`SpinStep` = 2 does not divide `SpinMax - SpinMin`, `SliderStep` = 2 divides the slider's
range, as `SliderValueInRange` asks; `Beyond` = 2 takes the mouse off both ends;
`Typed` has a value out of the range. `MCMonths` has December and January, a
February with and without a leap day and jumps of a year and a decade; `Days` has
1, 28 and 31; the picker starts with the view of months (`StartViewMode` = 1) and may
go down to days. `MCSetDates` has midnight, noon, a year that is not offered and
minutes that are not. `MaxTaskers` = 2 is enough for the race, `MaxConnects` = 2 for
a second subscription. `DelayHide` is set and `DelayShow` is not, so that both kinds
of leave and enter occur; the proofs have every combination.

**Fairness.** Weak fairness of `Handle(n)` for every node: the dispatcher runs an
actor that has a message and its thread goes on; of `EndLaunch` / `CompleteRun`:
`run` returns; of `HandleMessage`: the manager's mailbox is served; of `Submit(c)`:
a message that is not lost is received. None for RUN in Scheduler (it may never
come), for loss, for failures or for NODE_FINISH in Submission. A user task that
never returns is excluded by the fairness of `Handle`: liveness is of tasks that end.

On the page (`PageFairness`): transitions end, timers expire, threads are
scheduled, the actor takes its mail. People, data sources and the network owe
nothing. That transitions end is the browser's and `emulateTransitionEnd`'s doing;
the latter triggers `webkitTransitionEnd` only, so in other browsers the assumption
is on the browser's own event.

**Deadlock** is not checked: all these systems come to rest when their jobs have
ended. That they do not come to rest too early is what `ReadyNodesRun`,
`SubmissionsAreLaunched` and `JobsEnd` say.

Each property has a mutant in PROJECT.json: an operator beside the one it
replaces, with a plausible bug, under which TLC finds the property violated.

## 4. What is proved

All for every value of the constants that satisfies the ASSUMEs of the modules
(`TaskListsAssumption`, `WorkFlowsAssumption`, `GraphAssumption`, `SchedulerAssumption`,
`SubmissionAssumption`). `GraphAssumption` says of predecessors and successors what
`PredecessorsSignal` proves of TaskGraph, that successors belong to the same job, and
that the nodes created are among those considered: tasks may name others.
`EndMeansAllRan` also assumes that jobs are acyclic (`Descends`: some rank decreases
from every node to its other successors), which the code does not check: a node on a
cycle never runs, while the rest of such a job may end. The instances of TLC satisfy
it (`MCJobsDescend`).

| Theorem | Argument |
|---|---|
| TaskGraphProofs `TypeCorrect` | inductive: `TypeOK` and that `i` stays within the list while building |
| `ListsAreChained` | `ChainInv` is inductive over `TypeInv`: linking edge i moves one head |
| `StartNodesRegistered` | `ChainInv` (a non-empty list starts with an edge of its node) and the definition of `GetNodeNum`: the last slot is dropped only if nothing starts there |
| `PredecessorsSignal` | every link of a built graph leads to an earlier edge (`ChainInv`), so the walk is defined for every head (`WalkIsDefined`) and reads, latest first, exactly the edges of its node (`WalkReads`); those that lead to a node are counted by a bijection (`SignalsPerEdge`) |
| `WorkFlowIsKept` | the names that were met are numbered from 1, none twice (`ParsedUpTo`, kept by every step of the fold over the actions: `ActionIsParsed`, `WorkFlowIsParsed`), and of an ordinary workflow these are the names of its actions, as many as there are tasks (`ActionsAreOrdinary`, `JoinsAreFollowed`, `NamesAreCounted`); so n tasks are over n nodes, each the source of its own (`ListsAreSingle`), and nodes, order, start and end can be read off the chains (`LinkedNodesTell`, `TasksPrecede`, `LinkedGraphIsWorkFlow`) |
| `WorkFlowsAsTasks` | parsing yields a list of tasks between numbered nodes (`ParsingIsTyped`), so the lemmas of the theorems above apply to it |
| SchedulerProofs `TypeCorrect` | `TypeOK` is inductive; `IndexOK` ties `k` to `pc` |
| `PredecessorsComeFirst` | `OrderInv`: `Earned` (every status and every handler past its task belongs to a node that ran) with the property. Puts may lose entries but only add the one that is put, so races do not matter |
| `ImplementsOrder` | `TaskSucceeds` maps to `Run`, `EndLaunch` to `Start`, the rest stutters; needs `OrderInv` and that whoever is handled is registered |
| `NoWakeupIsLost` | `WakeInv`: without a race, whoever has signalled has its status set and its result for that successor registered (`SignalsStand`, `ResultsStand`); so when the last signal is in, neither the check nor the fetch can fail any more, and the message it comes with is enough |
| `FinishComesLast` | `HandInv`: a handler at successor k has served those before it |
| `HandlersAsSpecified` | every step of the composition is a step of DataHandler or stutters; all theorems above carry over, `SchedulerWakes` is one |
| `FinishIsCounted` | `CountInv`: before any restart the total of every registered node's job is known, and only registered nodes send |
| `EndMeansAllRan` | `EndInv`: who announces an end has run and signals nobody else. Of the nodes of the job that had not run take one of the least rank: a successor of it has run, against `PredecessorsFirst` |
| SubmissionProofs `SubmissionTyped`, `TotalsCountLaunches` | both are inductive; what a RUN counts and what it launches are read in one step |
| `SuffixIsLaunched`, `WholeIsLaunched` | `LaunchInv`: what is assembled for a client is a contiguous stretch of its tasks that ends with the last one sent (`Stretch`), and begins with the first unless a restart discarded some; each ASSIGN makes it grow (`StretchGrows`) |

Of the page, each for the widget's own specification and every value of its
constants (`*Assumption` of its module), without fairness:

| Theorem | Argument |
|---|---|
| BootstrapProofs `LightboxIsWhole` | with the property: a backdrop that is in the page is older than `next` (`BackdropsBefore`), and, unless the last hide was hasty, an image is on its way only while the lightbox is shown and not displayed (`OneImage`) |
| `PieLoopIsAlive` | animations and timers together are at least one while the flag is on, at most one unless rushed, and rushed is taken back when none is left |
| `ButtonIsSafe` | the last timer of the queue is that of the last state, so the attribute is right when the queue is empty; `resetText` is the original text once it is set |
| `TooltipIsFollowed` | `TipInv` relates timer, `hoverState` and the tip for either delay; shown and left by `ShowTipKeeps`, `HideTipKeeps`, `EnterKeeps`, `LeaveKeeps` |
| `DropdownIsSafe` | `OneOpen` and `OneChecked` say it without counting; closing all menus and opening at most one keeps it (`ToggleKeeps`, `ChangeKeeps`) |
| `SpyIsSafe` | some section matches every position past the first (`SomeSectionMatches`), and `process` ends at one that does (`ProcessFollows`) |
| `AccordionIsSafe` | `CollapseInv`: what moves does so by a callback of its own and has no class in (`MovesByOwn`, `MovingIsShut`), one panel at most is up (`OneUp`), every instance was made by a click and knows its parent (`KnowParent`), and, after a click at rest, the link of what is up is not folded (`LinksOfUp`) |
| `ModalIsSafe` | `ModalInv`: unless it was shown while it was closing, the dialog is closed or has the page's one backdrop and is in one of eight phases of opening and closing (`ModalPhase`), each with the callbacks it waits for. Every end event leads from a phase to a phase (`ModalPhaseEnds`): one or two callbacks run in their order (`RunsOne`, `RunsTwo`) |
| `CarouselIsSafe` | one item is active and the only slide leaves it (`OneSlide`); the carousel rests, slides or has slid, and in the last two the first handler that waits is that of the indicators (`IndicatorWaits`), the queued ones coming after it; or its last slide began too early (`Late`), and then either the 'slid' of the one before is still to come or no handler of the indicators is left, so that the next slide starts afresh |
| `TabShows` | all transitions that are awaited began with the panes that are active, so they end together; whatever the earlier ones do, the last leads to the selected tab (`PaneEnds`); there is only one unless the last click was hasty |
| FuelProofs `WizardIsSafe` | forms that need no validation are valid and only the one shown can change, which is not complete |
| `FormIsSafe` | `FormInv`; removing and appending keep a sequence without repetitions (`RemovedDiffer`, `AppendedDiffer`) |
| `TreeIsSafe` | `TreeNoDuplicates` is kept step by step: an item is there, or asked for, once, and once more for each time `again` counts, and a folder that has its items asks no more; without multiSelect one item at most is selected (`TreeOneSelected`), and what is told is what is selected (`TreeTold`) |
| `SpinnerIsSafe` | unless chorded no timer is lost and none is pending when nothing is held, and a release takes chorded back only if none is lost; a step that ends out of the range began farther out (`InRangeKept`) |
| `GridIsSafe` | `GridPaged`: the index is 0 or on a page of the options in force; asking anew keeps it because it goes to the first page (`AskKeeps`), paging on an answer because the label bounds it (`PageKeeps`) |
| PickerProofs `PickerGoesToMonth`, `PickerFieldIsDate` | the day of the view is at most 28 after every click; `NewDate` yields a date that exists (`NewDateIsReal`), which is parsed as itself |
| `PickerCalendarIsRight`, `PickerIsSafe` | the sum of the lengths of months is a number (`DaysBeforeNumber`), so the first cell is at most six days before the end of the month before (`FirstDayBounds`); from there every cell is a day of that month, of the one shown or of the next (`CellIs`), and its class says of which (`MonthOfClass`) |
| `ComboIsSafe` | hours to 12 and back are the same hours (`HoursReturn`), offered minutes are their own nearest (`NearestOffered`) |
| `SliderIsSafe` | rounding is monotone for every step (`RoundKeepsOrder`) and takes the end to itself if the step divides the range (`ValueIsInRange`); a press moves the nearer handle, a move swaps them |
| PageProofs `ChannelIsSafe` | mailbox and wire rise in value, the wire is older than the mailbox, and the page shows nothing that is as new as either (`InOrder`); a handler's fold over its subscriptions runs at most once while there is at most one (`RenderedGoesThrough`). No thread is past the creation without a server, and of those between test and creation there is one at most until `raced` (`ServerFirst`) |
| `ChannelGoesForward` | animations that run end in the order of their values (`ProgressRises`) |
| `PageImplementsWidgets` | every action of the page is one of one widget and leaves the others alone (`PageSteps`) |
| `PageTypeCorrect` | each inductive invariant has the widget's types in it; those whose safety did not need the types have a bound of their own (`TreeTyped`, `GridTyped`, `PickerTyped`, `ComboTyped`, `SliderTyped`) |
| `PageKeepsBootstrapSafe`, `PageKeepsFuelSafe`, `PageKeepsPickersSafe`, `PageKeepsChannelSafe` | the theorems above, of the whole page; where a widget's specification states a fairness the page does not owe, its inductive invariant is used instead |

The property alone is not inductive in most of these: `NoLostWakeup`, for one, says
nothing of a node whose last predecessor is about to signal it.

Model-checked only: everything temporal (`ReadyNodesRun`, `JobsEnd`,
`SubmissionsAreLaunched`, and of `PageKeepsWord` all but `ChannelProgress`: liveness is
out of reach of the prover). Every safety invariant of the passing runs has its
theorem. The induction theorems of the
library take operators as parameters, which the provers do not instantiate; where a
proof needs induction over data (the walks of the graph, paths to the end of a job,
the sections of the page) it argues from a least counterexample instead
(`LeastRank`, `LeastNatural`). So it is with the folds over callbacks:
the recursion by which the community modules define a fold has a solution
(`SetFoldIsDefined`, `FoldIsDefined`), which goes through the sequence from its first
element to its last (`FoldGoesThrough`); each operator that is folded has an instance
of this (`CallbacksGoesThrough`, `FadesGoesThrough`, ...), and what one step keeps is
handed on to the end by `HandedOn`.

To run: `tlc -config MCSchedulerJoin.cfg MCScheduler`, `tlc -config MCWebPage.cfg
MCWebPage`, `tlapm SchedulerProofs.tla`, and so on.

## 5. Not modelled

* Text, logging, rendering, node names, the values of results (no reader uses them).
* Reading XML into beans, a library's work, and filling in the arguments of tasks.
  Transitions `error` are not read by the code either.
* A second job under the id of an earlier one in `DataHandler`: `nodeStatus` and
  `dataRef` are never cleaned, so it would find old statuses. `Submission` has the
  shared id on the manager's side only.
* Class loading, Spark, silen-ml: see `components`.
* Of the page: what is only drawn (placement, geometry of the grid, sparklines,
  `excanvas.js`, `bootstrap.file-input.js`, charts); alerts, which keep no state; the
  lightbox with the class fade, whose hide calls a method Bootstrap 3 does not have
  and throws; `cacheItems = false` of the tree; the sources of the calendar and of
  the data table; enabling and disabling controls by script; minified libraries
  and moment.js, of which Combodate uses whether a date exists.
* Copies of other projects' sources (Spark's ClosureCleaner, Guava's Hashing), the
  assets of the web application, and `RuntimeCounter`, whose `increase` nobody calls.

## 6. What could follow

1. `DataHandler` with repeated launches of one job id.
2. `UserClassLoader`'s cache of loaders.
3. silen-ml: `StaticLink`, the grouping of `TrainSet`, `ParamAssigner`.
4. `UDFRDD`'s iterator.
