--------------------------- MODULE PipelineAnalysis ---------------------------
(***************************************************************************)
(* The four analyses of the selected pipeline - performance, optimization, *)
(* forecast and scheduling advice - as PipelineContext.js loads and drops  *)
(* them, and the tabs of the developer panel that show them                *)
(* (DeveloperPanelTabs.jsx, workspace/timeline/).                          *)
(*                                                                         *)
(* The context offers the loads to its pages; the tabs of this version     *)
(* only show what has been loaded, so a load is an action of any page.     *)
(* What the analyses say is the server's and constant (Data); the zoom of  *)
(* the time axes and the order of the stage table are layout and left out. *)
(* Selecting a pipeline and the replay are PipelineConsole's, here with    *)
(* what they do to the analyses; no snapshots are compared.                *)
(***************************************************************************)
EXTENDS Integers, FiniteSets, Sequences, SequencesExt

CONSTANTS
  Pipeline,
  Data,       \* of each pipeline: [events, segments, future, rank, advice, base]
  Tab,        \* the tabs: those of the analyses and "logs" among others
  Positions,  \* of the slider of the workers
  MaxHeld,    \* bound: analyses loaded, loading or failed at a time
  None

VARIABLES
  selected, due,  \* selectedPipelineId; its effects have not run
  model,          \* performanceModel and the like: of which pipeline
  loading, error,
  flight,         \* the request of each analysis that has not been aborted
  replaying, at,  \* replayEvents are there; replayIndex
  span,           \* selectedPerformanceSpanId
  task, worker,   \* selectedTaskId, selectedWorkerId
  tab,            \* activeTab, None while the panel is closed
  pool, touched   \* the slider of the workers in the tab; moved since it was set

vars == <<selected, due, model, loading, error, flight, replaying, at, span, task, worker, tab, pool, touched>>

\* A segment is of a task; the attempts of a task are numbered from 0.  Bound: none is
\* later than the third, for the flame graph knows no later one.  A rank is a name's
\* place in the order of names.  Of the base, the critical path is no longer than its
\* tasks run and wait (analyze_performance).  Bound: it takes time, for of none the tab
\* reckons with another base (cp_base).
AnalysisAssumption ==
  /\ None \notin Pipeline /\ "logs" \in Tab
  /\ \A p \in Pipeline :
       /\ DOMAIN Data[p].events = 1 .. Len(Data[p].events) /\ DOMAIN Data[p].segments \subseteq Nat
       /\ Data[p].base \in [workers : Nat \ {0}, exec : Nat, retry : Nat, queue : Nat, path : Nat \ {0}, whole : Nat \ {0}]
       /\ Data[p].base.path <= Data[p].base.exec + Data[p].base.queue
       /\ \A k \in DOMAIN Data[p].segments :
            /\ Data[p].segments[k].task # None /\ Data[p].segments[k].attempt \in 0 .. 3
            /\ Data[p].rank[Data[p].segments[k].worker] \in Nat
            /\ \E j \in DOMAIN Data[p].segments :
                 Data[p].segments[j].task = Data[p].segments[k].task /\ Data[p].segments[j].attempt = 0

Analysis == {"performance", "optimization", "forecast", "scheduling"}

Nothing == [k \in Analysis |-> None]

TypeOK ==
  /\ selected \in Pipeline \cup {None} /\ due \in BOOLEAN
  /\ model \in [Analysis -> Pipeline \cup {None}] /\ flight \in [Analysis -> Pipeline \cup {None}]
  /\ loading \in [Analysis -> BOOLEAN]
  /\ error \in [Analysis -> BOOLEAN]
  /\ replaying \in BOOLEAN /\ at \in Nat \cup {-1}
  /\ tab \in Tab \cup {None} /\ pool \in Nat \ {0} /\ touched \in BOOLEAN

Init ==
  /\ selected = None /\ due = FALSE
  /\ model = Nothing /\ flight = Nothing
  /\ loading = [k \in Analysis |-> FALSE] /\ error = [k \in Analysis |-> FALSE]
  /\ replaying = FALSE /\ at = -1
  /\ span = None /\ task = None /\ worker = None
  /\ tab = None /\ pool = 1 /\ touched = FALSE

----------------------------------------------------------------------------
(* What an analysis shows.                                                 *)

\* The first of these: loading, the error, nothing, or the model.
View(k) ==
  IF loading[k] THEN "loading"
  ELSE IF error[k] THEN "error"
  ELSE IF model[k] = None THEN "empty" ELSE "shown"

Segments(p) == IF p = None THEN <<>> ELSE Data[p].segments
Workers(p)  == {s.worker : s \in Range(Segments(p))}

\* There is a lane for each worker with a segment, in the order of their names.
FirstLane(p) == CHOOSE w \in Workers(p) : \A v \in Workers(p) : Data[p].rank[w] <= Data[p].rank[v]

\* getWorkerIdForTask: of the task's first segment, or else of the first lane.
WorkerOf(p, t) ==
  LET of == {k \in DOMAIN Segments(p) : Segments(p)[k].task = t}
  IN IF of # {} THEN Segments(p)[Min(of)].worker ELSE IF Workers(p) # {} THEN FirstLane(p) ELSE "system"

\* The bars in a lane: what its worker has run, and what it is expected to run.
Bars(p, w) ==
  [done |-> {s \in Range(Segments(p)) : s.worker = w},
   next |-> {t \in Data[p].future : WorkerOf(p, t) = w}]

\* The spans of the flame graph that stand out: every attempt, to the third, of the task.
Marked == {s \in Range(Segments(model["performance"])) : span # None /\ s.task = span.task /\ span.attempt \in 0 .. 3}

----------------------------------------------------------------------------
(* The what-if simulations, in whole units of time.                        *)

AtLeast(n, m) == IF n < m THEN m ELSE n

\* OptimizationTab: the pipeline's duration with w workers, c halves of the stages'
\* concurrency, r quarters of the retries and q quarters of the waiting.
Optimized(b, w, c, r, q) ==
  LET path == b.exec - b.retry + (r * b.retry) \div 4 + (q * b.workers * b.queue) \div (2 * w * c)
  IN AtLeast(AtLeast(b.whole - (b.path - path), path), 10)

\* SchedulingAdvisorTab: with w workers instead of n, c tenths of the concurrency,
\* r tenths of the backoff and q twentieths of the waiting.
Advised(b, n, w, c, r, q) ==
  LET spread == (b.path * (118 * n - 18 * w)) \div (100 * n)
      path   == AtLeast((((spread * (1350 - 35 * c)) \div 1000) * (9150 + 85 * r)) \div 10000, 100)
      wait   == AtLeast((((b.queue * q * n) \div (2 * w * c)) * (122 * n - 22 * w)) \div (100 * n), 0)
  IN AtLeast(b.whole - (b.path - path) + (wait - b.queue) \div 2, 100)

Saved(b, duration) == AtLeast(b.whole - duration, 0)

\* The pool the tab's baseline speaks of, if it does; the advisor's never does, and the
\* tab takes that of the performance analysis.
PoolOf(k, m) ==
  LET p == IF k = "optimization" THEN m["optimization"] ELSE IF k = "scheduling" THEN m["performance"] ELSE None
  IN IF p = None THEN None ELSE Data[p].base.workers

BasePool == LET n == PoolOf("scheduling", model) IN IF n = None THEN 1 ELSE n

\* The duration simulated in the open tab, the other sliders untouched.
Simulated ==
  LET b == Data[model[tab]].base
  IN IF tab = "optimization" THEN Optimized(b, pool, 2, 4, 4) ELSE Advised(b, BasePool, pool, 10, 10, 20)

\* A tab that opens has its sliders at 1; the effect sets the slider of the workers when
\* the pool it speaks of has changed.
PoolSet ==
  LET n == PoolOf(tab', model') IN
  IF n # None /\ (tab' # tab \/ n # PoolOf(tab, model)) THEN pool' = n /\ touched' = FALSE
  ELSE IF tab' # tab THEN pool' = 1 /\ touched' = FALSE
  ELSE UNCHANGED <<pool, touched>>

----------------------------------------------------------------------------
(* Loading and dropping.                                                   *)

Dropped == model' = Nothing /\ flight' = Nothing /\ error' = [k \in Analysis |-> FALSE] /\ span' = None

\* An analysis there already is of the pipeline is not loaded again; a request under way
\* is aborted, and an aborted one has no further effect.
Load(k) ==
  /\ ~due /\ selected # None /\ model[k] # selected
  /\ Cardinality({j \in Analysis : View(j) # "empty"} \cup {k}) <= MaxHeld
  /\ flight' = [flight EXCEPT ![k] = selected]
  /\ loading' = [loading EXCEPT ![k] = TRUE] /\ error' = [error EXCEPT ![k] = FALSE]
  /\ UNCHANGED <<selected, due, model, replaying, at, span, task, worker, tab>>

Loaded(k) ==
  /\ flight[k] # None
  /\ model' = [model EXCEPT ![k] = flight[k]]
  /\ flight' = [flight EXCEPT ![k] = None] /\ loading' = [loading EXCEPT ![k] = FALSE]
  /\ UNCHANGED <<selected, due, error, replaying, at, span, task, worker, tab>>

\* 409 (no replay), 404, or any other error, each with a message of its own.
LoadFails(k) ==
  /\ flight[k] # None
  /\ error' = [error EXCEPT ![k] = TRUE]
  /\ flight' = [flight EXCEPT ![k] = None] /\ loading' = [loading EXCEPT ![k] = FALSE]
  /\ UNCHANGED <<selected, due, model, replaying, at, span, task, worker, tab>>

\* clearForecast, clearAdvisor.
Clear(k) ==
  /\ ~due /\ k \in {"forecast", "scheduling"}
  /\ model' = [model EXCEPT ![k] = None] /\ flight' = [flight EXCEPT ![k] = None]
  /\ loading' = [loading EXCEPT ![k] = FALSE] /\ error' = [error EXCEPT ![k] = FALSE]
  /\ UNCHANGED <<selected, due, replaying, at, span, task, worker, tab>>

Select(p) ==
  /\ p # selected /\ ~due
  /\ selected' = p /\ due' = TRUE
  /\ UNCHANGED <<model, loading, error, flight, replaying, at, span, task, worker, tab>>

\* Pipeline Switch Cleanup, and the effect that clears the selections.
SwitchCleanup ==
  /\ due /\ due' = FALSE
  /\ Dropped
  /\ loading' = [k \in Analysis |-> FALSE] /\ replaying' = FALSE /\ at' = -1 /\ task' = None /\ worker' = None
  /\ UNCHANGED <<selected, tab>>

\* The task and the worker selected follow the replay: the last it has come across.
LastOf(part, k) ==
  LET known == {j \in 1 .. k + 1 : Data[selected].events[j][part] # None}
      last  == CHOOSE j \in known : \A i \in known : i <= j
  IN IF known = {} THEN None ELSE Data[selected].events[last][part]
Followed == task' = LastOf("task", at') /\ worker' = LastOf("worker", at')

\* A step of the replay.
Seek(k) ==
  /\ ~due /\ replaying /\ k # at /\ at' = k
  /\ Followed
  /\ UNCHANGED <<selected, due, model, loading, error, flight, replaying, span, tab>>

\* enterReplayMode, its answer: the requests are aborted, but what waits for them is not
\* told.
ReplayLoaded ==
  /\ ~due /\ selected # None /\ ~replaying /\ Data[selected].events # <<>>
  /\ Dropped
  /\ replaying' = TRUE /\ at' = 0 /\ Followed
  /\ UNCHANGED <<selected, due, loading, tab>>

exitReplayMode ==
  /\ ~due /\ replaying
  /\ Dropped
  /\ loading' = [k \in Analysis |-> FALSE] /\ replaying' = FALSE /\ at' = -1
  /\ UNCHANGED <<selected, due, task, worker, tab>>

----------------------------------------------------------------------------
(* The panel.                                                              *)

\* The tab that opens first is "logs".
TogglePanel ==
  /\ tab' = IF tab = None THEN "logs" ELSE None
  /\ UNCHANGED <<selected, due, model, loading, error, flight, replaying, at, span, task, worker>>

setActiveTab(k) ==
  /\ tab # None /\ k # tab /\ tab' = k
  /\ UNCHANGED <<selected, due, model, loading, error, flight, replaying, at, span, task, worker>>

\* The position of a task's first event: the effect looks for the segment's start first,
\* in a field (timestamp) that replayed events do not have (normalizeReplayEvent).
FirstOf(t) == CHOOSE k \in DOMAIN Data[selected].events :
                /\ Data[selected].events[k].task = t
                /\ \A j \in 1 .. k - 1 : Data[selected].events[j].task # t

\* The effect of a span chosen: its task is selected and sought in the replay.
SpanChosen(s) ==
  /\ span' = s
  /\ IF replaying /\ s.task \in {e.task : e \in Range(Data[selected].events)} /\ at # FirstOf(s.task) - 1
       THEN at' = FirstOf(s.task) - 1 /\ Followed
       ELSE task' = s.task /\ UNCHANGED <<at, worker>>

Span(s) == [task |-> s.task, attempt |-> s.attempt]

\* A click on a bar of the timeline.
SpanClick(s) ==
  /\ ~due /\ tab = "performance" /\ View(tab) = "shown"
  /\ s \in Range(Segments(model["performance"])) /\ Span(s) # span
  /\ SpanChosen(Span(s))
  /\ UNCHANGED <<selected, due, model, loading, error, flight, replaying, tab>>

\* A click on a span of the flame graph stands for the first attempt of its task.
FlameClick(s) ==
  /\ ~due /\ tab = "performance" /\ View(tab) = "shown"
  /\ s \in Range(Segments(model["performance"])) /\ span # [task |-> s.task, attempt |-> 0]
  /\ SpanChosen([task |-> s.task, attempt |-> 0])
  /\ UNCHANGED <<selected, due, model, loading, error, flight, replaying, tab>>

\* A click on a bar of the forecast, which draws those of the performance analysis too.
ForecastClick(s) ==
  /\ ~due /\ tab = "forecast" /\ View(tab) = "shown"
  /\ s \in Range(Segments(model["performance"]))
  /\ IF Span(s) # span THEN SpanChosen(Span(s)) ELSE task' = s.task /\ UNCHANGED <<span, at, worker>>
  /\ UNCHANGED <<selected, due, model, loading, error, flight, replaying, tab>>

\* The tasks that have not run, on the critical path or beside it.
Expected(p) == Data[p].future

\* A click on a task expected, or on one of the critical path.
TaskClick(t) ==
  /\ ~due /\ tab = "forecast" /\ View(tab) = "shown" /\ t \in Expected(model["forecast"])
  /\ task' = t
  /\ UNCHANGED <<selected, due, model, loading, error, flight, replaying, at, span, worker, tab>>

\* The rows of the advice.
Recommended == Data[model["scheduling"]].advice

\* selectRecommendation: the first task and the first worker it affects, if any.
selectRecommendation(r) ==
  /\ ~due /\ tab = "scheduling" /\ View(tab) = "shown" /\ r \in Recommended
  /\ task' = IF r.tasks # <<>> THEN Head(r.tasks) ELSE task
  /\ worker' = IF r.workers # <<>> THEN Head(r.workers) ELSE worker
  /\ UNCHANGED <<selected, due, model, loading, error, flight, replaying, at, span, tab>>

\* A click on a row of the table of the workers.
WorkerClick(w) ==
  /\ ~due /\ tab = "scheduling" /\ View(tab) = "shown" /\ w \in Workers(model["scheduling"])
  /\ worker' = w
  /\ UNCHANGED <<selected, due, model, loading, error, flight, replaying, at, span, task, tab>>

\* The slider of the workers.
Slider(k) == IF k = "optimization" THEN 1 .. 10 ELSE 1 .. 32

MovePool(n) ==
  /\ tab \in {"optimization", "scheduling"} /\ View(tab) = "shown"
  /\ n \in Slider(tab) /\ n # pool
  /\ pool' = n /\ touched' = TRUE
  /\ UNCHANGED <<selected, due, model, loading, error, flight, replaying, at, span, task, worker, tab>>

Replay ==
  \/ ReplayLoaded \/ exitReplayMode
  \/ selected # None /\ \E k \in 0 .. Len(Data[selected].events) - 1 : Seek(k)
Loads == \E k \in Analysis : Load(k) \/ Loaded(k) \/ LoadFails(k) \/ Clear(k)
Panel == TogglePanel \/ \E k \in Tab : setActiveTab(k)
Clicks ==
  \E p \in Pipeline :
       \/ \E s \in Range(Segments(p)) : SpanClick(s) \/ FlameClick(s) \/ ForecastClick(s)
       \/ \E t \in Data[p].future : TaskClick(t)
       \/ \E r \in Data[p].advice : selectRecommendation(r)
       \/ \E w \in Workers(p) : WorkerClick(w)

Next ==
  \/ /\ \/ \E p \in Pipeline \cup {None} : Select(p)
        \/ SwitchCleanup \/ Replay \/ Loads \/ Panel \/ Clicks
     /\ PoolSet
  \/ \E n \in Positions : MovePool(n)

Spec == Init /\ [][Next]_vars

----------------------------------------------------------------------------
(* Properties.                                                             *)

\* Whatever is loaded, dropped, replayed and selected meanwhile, an analysis on a tab or on
\* its way is of the selected pipeline, one on its way has its tab waiting, and the span
\* that stands out is one of the analysis (Pipeline Switch Cleanup, enterReplayMode).
AnalysesAreOfSelected ==
  /\ ~due => \A k \in Analysis : model[k] \in {None, selected} /\ flight[k] \in {None, selected}
  /\ \A k \in Analysis : flight[k] # None => View(k) = "loading"
  /\ span # None => span \in {Span(s) : s \in Range(Segments(model["performance"]))} /\ Marked # {}

\* A forecast is drawn whole: what each task has run and is expected to run is in one lane
\* (getWorkerIdForTask), if there is any lane.
DrawnOnce ==
  tab = "forecast" /\ View(tab) = "shown" =>
    LET p == model["performance"] IN Workers(p) # {} =>
      /\ \A s \in Range(Segments(p)) : Cardinality({w \in Workers(p) : s \in Bars(p, w).done}) = 1
      /\ \A t \in Data[p].future : Cardinality({w \in Workers(p) : t \in Bars(p, w).next}) = 1

\* A tab promises no gain from changing nothing: as long as its slider has not been moved
\* the simulated duration is the one measured.  The advice keeps to it only as long as
\* the performance analysis it takes the pool from is there: a slider set from one that
\* was dropped since stays (the effects of OptimizationTab and SchedulingAdvisorTab).
UntouchedGainsNothing ==
  tab \in {"optimization", "scheduling"} /\ View(tab) = "shown" /\ PoolOf(tab, model) # None /\ ~touched =>
    Saved(Data[model[tab]].base, Simulated) = 0

\* One more worker never makes a simulated pipeline longer, however the other sliders stand.
MoreWorkersNeverHurt ==
  tab \in {"optimization", "scheduling"} /\ View(tab) = "shown" =>
    LET b == Data[model[tab]].base IN
    IF tab = "optimization"
      THEN \A c \in {1, 2, 8} : \A r, q \in {0, 4, 8} :
             Optimized(b, pool + 1, c, r, q) <= Optimized(b, pool, c, r, q)
      ELSE \A c \in {5, 10, 30} : \A r, q \in {0, 10, 20} :
             Advised(b, BasePool, pool + 1, c, r, q) <= Advised(b, BasePool, pool, c, r, q)

\* In a replay a span chosen takes the replay to an event of its task, which is the task
\* selected ("Synchronize selection state when span changes").
SpanIsSought ==
  [][span' # span /\ span' # None =>
       /\ task' = span'.task
       /\ replaying /\ (\E e \in Range(Data[selected].events) : e.task = task') =>
            Data[selected].events[at' + 1].task = task']_vars
=============================================================================
