--------------------------- MODULE MCPipelinePages ---------------------------
(* The views of a pipeline for TLC: its console with the replay, its diagram,  *)
(* the monitor with its controls, the dialog of a task, the analyses and the   *)
(* lists of faults.  They share no state here, so a behaviour is one of one of *)
(* them.                                                                       *)
EXTENDS PipelineConsole

CONSTANTS
  Words,                                       \* of the diagram: TypeOf
  MaxMoves, MaxFetches,                        \* of the monitor and of the dialog
  MaxCountdown, MaxPosts,                      \* of the dialog
  Data, Tab, Positions, MaxHeld,               \* of the analyses
  StepOf, Moments, MaxEnds, MaxCalls           \* of the faults

VARIABLES
  part,
  deps, drawn, hovered, picked, viewMode,                             \* the diagram's; drawn is its status
  status, moves, opened, monitor, data, measured, spinning, fetching, timer, modal,  \* the monitor's; opened and spinning are its selected and loading
  task, taskMoves, taskId, details, opening, error, countdown, fetches, posts, \* the dialog's
  chosen, switched, model, waiting, refused, flight, replaying, position, span, follows, worker,
  tab, pool, touched,  \* the analyses'; chosen to refused, position and follows are their selected to error, at and task
  server, ends, fetched, moment, errorsTab, focus, expanded, busy, told, calls  \* the faults'; fetched and focus are their data and selected

diagramVars == <<deps, drawn, hovered, picked, viewMode>>
monitorVars == <<status, moves, opened, monitor, data, measured, spinning, fetching, timer, modal>>
dialogVars  == <<task, taskMoves, taskId, details, opening, error, countdown, fetches, posts>>
analysisVars == <<chosen, switched, model, waiting, refused, flight, replaying, position, span, follows, worker, tab, pool, touched>>
faultVars   == <<server, ends, fetched, moment, errorsTab, focus, expanded, busy, told, calls>>
allVars     == <<part, vars, diagramVars, monitorVars, dialogVars, analysisVars, faultVars>>

D == INSTANCE PipelineDiagram WITH Tasks <- Len(Words), TypeOf <- Words, status <- drawn
M == INSTANCE PipelineDashboard WITH selected <- opened, loading <- spinning
T == INSTANCE TaskModal WITH Task <- TaskId, status <- task, moves <- taskMoves, loading <- opening

Base(w) == [workers |-> w, exec |-> 600, retry |-> 200, queue |-> 300, path |-> 900, whole |-> 1200]
Segment(t, k, w) == [task |-> t, attempt |-> k, worker |-> w]

\* p1 ran a task twice, on two workers, and is to run another; p2 has run nothing.
TwoAnalyses ==
  [p1 |-> [events |-> <<[task |-> "t1", worker |-> None], [task |-> "t2", worker |-> "w2"], [task |-> "t1", worker |-> None]>>,
           segments |-> <<Segment("t1", 0, "w1"), Segment("t1", 1, "w2")>>, future |-> {"t2"},
           rank |-> [w1 |-> 1, w2 |-> 2], advice |-> {[tasks |-> <<"t1">>, workers |-> <<>>]}, base |-> Base(2)],
   p2 |-> [events |-> <<>>, segments |-> <<>>, future |-> {},
           rank |-> [w1 |-> 1, w2 |-> 2], advice |-> {[tasks |-> <<>>, workers |-> <<"w1">>]}, base |-> Base(1)]]

E(t, w, type, after, time) ==
  [task |-> t, worker |-> w, type |-> type, after |-> after, says |-> FALSE, time |-> time]

\* p1 fails a task and runs it again at the same time; p2, another task, is earlier
\* than both, so its row is the first to be pushed out.
TwoLogs ==
  [p1 |-> <<E("t1", "w1", "task_failed", "failed", 4), E("t1", None, "task_retry", None, 4)>>,
   p2 |-> <<E("t2", None, "task_blocked", None, 3)>>]

A == INSTANCE PipelineAnalysis WITH selected <- chosen, due <- switched, loading <- waiting, error <- refused,
                                    at <- position, task <- follows

\* Two tasks of one stage, of which the replay shows the moment that both had failed.
OneStage  == <<1, 1>>
OneMoment == <<[status |-> <<"failed", "failed">>, faults |-> <<2, 1>>]>>

P == INSTANCE ProcessingPage WITH Tasks <- Len(StepOf), data <- fetched, selected <- focus

ASSUME PartsAssumption ==
  /\ D!DiagramAssumption /\ M!DashboardAssumption /\ T!DialogAssumption
  /\ A!AnalysisAssumption /\ P!PageAssumption

\* Every non-decreasing choice of up to five times out of four.
TimedLogs ==
  {log \in UNION {[1 .. n -> [time : 1 .. 4]] : n \in 1 .. 5} :
     \A k \in 1 .. Len(log) - 1 : log[k].time <= log[k + 1].time}

\* The third task is of the second's stage, the second's name is of two stages.
ThreeTasks == <<{"pars"}, {"chunk", "valid"}, {"chunk"}>>

\* Bound: nothing is picked in the diagram while a node is hovered over.
PickOrHover == picked' = <<>> \/ hovered' = 0

\* Bound: while a retry or a cancellation is under way, the dialog fetches once at most.
OneFetch == posts' = {} \/ Len(fetches') <= 1

\* Bound: snapshots are compared while no poll and no retry is under way.
CompareAtRest == (replay'.a = -1 /\ replay'.b = -1) \/ (polls' = {} /\ ~retrying')

\* Bound: the list of faults is at most one change of its tasks behind the server, and no
\* replay is entered or left while a retry is on its way.
OneBehind == (server' = server \/ server = fetched) /\ (moment' = moment \/ calls = {})

Console == part = "console" /\ UNCHANGED <<part, diagramVars, monitorVars, dialogVars, analysisVars, faultVars>>
Diagram == part = "diagram" /\ UNCHANGED <<part, vars, monitorVars, dialogVars, analysisVars, faultVars>>
Monitor == part = "monitor" /\ UNCHANGED <<part, vars, diagramVars, dialogVars, analysisVars, faultVars>>
Dialog  == part = "dialog" /\ UNCHANGED <<part, vars, diagramVars, monitorVars, analysisVars, faultVars>>
Analyses == part = "analyses" /\ UNCHANGED <<part, vars, diagramVars, monitorVars, dialogVars, faultVars>>
Faults  == part = "faults" /\ UNCHANGED <<part, vars, diagramVars, monitorVars, dialogVars, analysisVars>>

\* Only the diagram varies its edges, and only there; of the two tasks of the dialog one
\* has got lost from Redis and one has failed.
AllInit ==
  /\ part \in {"console", "diagram", "monitor", "dialog", "analyses", "faults"}
  /\ Init /\ D!Init /\ M!Init /\ T!Init /\ A!Init /\ P!Init
  /\ part # "diagram" => deps = {}
  /\ task = [t \in TaskId |-> IF t = "t1" THEN "stale" ELSE "failed"]

AllNext ==
  \/ Console /\ Next /\ CompareAtRest
  \/ Diagram /\ D!Next /\ PickOrHover
  \/ Monitor /\ M!Next
  \/ Dialog /\ T!Next /\ OneFetch
  \/ Analyses /\ A!Next
  \/ Faults /\ P!Next /\ OneBehind

\* The fairness of PipelineConsole.
AllSpec ==
  /\ AllInit /\ [][AllNext]_allVars
  /\ WF_allVars(Console /\ RunEffects) /\ WF_allVars(Console /\ PollTick) /\ WF_allVars(Console /\ Tick)
  /\ WF_allVars(Console /\ \E q \in polls : PollAnswer(q))

\* The variables have the types of their modules.
AllTypeOK == TypeOK /\ D!TypeOK /\ M!TypeOK /\ T!TypeOK /\ A!TypeOK /\ P!TypeOK

\* What the pages compute from a pipeline's data is what it says of the pipeline: the
\* comparison of two moments of a replay, the event a jump lands on (PipelineConsole), the
\* tasks that stand out around the one hovered and the progress (PipelineDiagram), the
\* lanes of a forecast and the durations simulated (PipelineAnalysis), the stage that runs
\* (ProcessingPage).
ComputedIsTrue ==
  /\ part = "console" => DiffIsTrue /\ JumpFinds
  /\ part = "diagram" => D!HighlightIsRelated /\ D!ProgressAgrees
  /\ part = "analyses" => A!DrawnOnce /\ A!UntouchedGainsNothing /\ A!MoreWorkersNeverHurt
  /\ part = "faults" => P!StageRuns

\* What a page shows belongs to what is selected on it, however late answers come: the
\* monitor's pipeline (PipelineDashboard), the analyses and the span that stands out in
\* them (PipelineAnalysis), the fault that is unfolded and the retry that is waited for
\* (ProcessingPage).  It does not hold of the dialog of a task (TaskModal).
ShownIsOfSelected ==
  M!MonitorIsOfSelected /\ A!AnalysesAreOfSelected /\ P!SelectedIsExpanded /\ P!WaitsForItsOwn

\* The dialog of a task has something to draw whatever its fetches, retries and closings
\* do to each other: details it has, an error, or a fetch that is under way (TaskModal).
\* Whose details they are is another matter (TaskModal!DetailsAreOfTask).
DialogDraws == T!DetailsAreThere /\ T!LoadingIsFetched

\* No step loses or misplaces what the user has in view: a row of the timeline stays until
\* it is pushed out (PipelineConsole), a span chosen takes the replay to its task
\* (PipelineAnalysis).
StepsKeepPlace == TimelineKeeps /\ A!SpanIsSought
=============================================================================
