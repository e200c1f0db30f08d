---------------------------- MODULE PipelineDiagram ----------------------------
(***************************************************************************)
(* The drawing of a pipeline: its stages with their status and its tasks   *)
(* as a graph in which the relatives of the task under the pointer stand   *)
(* out (pipeline/PipelineVisualizer.jsx).                                  *)
(*                                                                         *)
(* Tasks are numbered as the server lists them; a task's type is the stage *)
(* word its name contains.  Measured times and the layout are left out, as *)
(* are the folded stages.                                                  *)
(***************************************************************************)
EXTENDS Integers, Sequences, FiniteSets, SequencesExt

CONSTANTS
  Tasks,       \* number of tasks
  TypeOf       \* of each, the words of its type name

DiagramAssumption == Tasks \in Nat

Task   == 1 .. Tasks
Status == {"pending", "running", "completed", "failed"}

VARIABLES
  deps,       \* <<dependency, task>>: as the tasks' dependencies say
  status,     \* of each task, as last fetched
  hovered,    \* hoveredNodeId, 0 for none
  picked,     \* selectedItemState: <<>>, <<"stage", s>> or <<"task", t>>
  viewMode

vars == <<deps, status, hovered, picked, viewMode>>

STAGE_ORDER == <<"preprocessing", "parsing", "persistence", "validation", "chunking",
                 "embedding", "indexing", "summarization">>
Stage == Range(STAGE_ORDER)

TypeOK ==
  /\ deps \subseteq {e \in Task \X Task : e[1] < e[2]}
  /\ status \in [Task -> Status] /\ hovered \in Task \cup {0}
  /\ picked \in {<<>>} \cup ({"stage"} \X Stage) \cup ({"task"} \X Task)
  /\ viewMode \in {"timeline", "graph"}

Init ==
  /\ deps \in SUBSET {e \in Task \X Task : e[1] < e[2]}
  /\ status = [t \in Task |-> "pending"]
  /\ hovered = 0 /\ picked = <<>> /\ viewMode = "timeline"

----------------------------------------------------------------------------
(* Stages.                                                                 *)

\* The first of these words the name contains; preprocessing otherwise.
StageWords == <<<<"valid", "validation">>, <<"pars", "parsing">>, <<"ocr", "parsing">>,
                <<"persist", "persistence">>, <<"store", "persistence">>, <<"layout", "persistence">>,
                <<"chunk", "chunking">>, <<"embed", "embedding">>, <<"index", "indexing">>,
                <<"summari", "summarization">>>>

StageOf(t) ==
  LET found == {k \in DOMAIN StageWords : StageWords[k][1] \in TypeOf[t]}
  IN IF found = {} THEN "preprocessing" ELSE StageWords[Min(found)][2]

TasksOf(s) == {t \in Task : StageOf(t) = s}

\* The stages drawn, by their places in the order: those with tasks.
stagesData == {i \in DOMAIN STAGE_ORDER : TasksOf(STAGE_ORDER[i]) # {}}

StageStatus(s) ==
  LET states == {status[t] : t \in TasksOf(s)}
  IN CASE "failed" \in states       -> "failed"
       [] "failed" \notin states /\ "running" \in states -> "running"
       [] states = {"completed"}    -> "completed"
       [] OTHER                     -> "queued"

\* The stage named beside the progress bar: the first that runs, or the last.
activeStage ==
  LET running == {i \in stagesData : StageStatus(STAGE_ORDER[i]) = "running"}
  IN STAGE_ORDER[IF running # {} THEN Min(running) ELSE Max(stagesData)]

\* The percentage of completed tasks, rounded.
overallProgress ==
  IF Tasks = 0 THEN 0
  ELSE (Cardinality({t \in Task : status[t] = "completed"}) * 200 + Tasks) \div (2 * Tasks)

----------------------------------------------------------------------------
(* The graph.                                                              *)

\* The nodes: the tasks of the stages drawn, stage by stage.
Place(t) == CHOOSE i \in DOMAIN STAGE_ORDER : STAGE_ORDER[i] = StageOf(t)
Before(u, t) == Place(u) < Place(t) \/ (Place(u) = Place(t) /\ u < t)
Nodes == UNION {TasksOf(STAGE_ORDER[i]) : i \in stagesData}

initialNodes ==
  [k \in 1 .. Cardinality(Nodes) |->
     CHOOSE t \in Nodes : Cardinality({u \in Nodes : Before(u, t)}) = k - 1]

\* The dependencies, or a chain of the nodes when there are none.
initialEdges ==
  IF deps # {} THEN deps
  ELSE {<<initialNodes[i], initialNodes[i + 1]>> : i \in 1 .. Len(initialNodes) - 1}

\* A task's border.
Border(t) ==
  CASE status[t] = "completed" -> "green" [] status[t] = "running" -> "blue"
    [] status[t] = "failed"    -> "red"   [] OTHER                 -> "dashed"

\* One pass of the loop: edges are taken one by one, and what an edge adds counts for
\* those after it.
Pass(found) ==
  FoldLeft(LAMBDA f, e :
            [f EXCEPT !.down = IF e[1] \in f.down THEN @ \cup {e[2]} ELSE @,
                      !.up   = IF e[2] \in f.up THEN @ \cup {e[1]} ELSE @],
          found, SetToSeq(initialEdges))

Found == [down : SUBSET Task, up : SUBSET Task]

\* Faulty variant: the loop goes on only while descendants are found.
LoopOfDescendants ==
  LET loop[found \in Found] == IF Pass(found).down = found.down THEN Pass(found) ELSE loop[Pass(found)]
  IN loop

\* while (changed)
Loop ==
  LET loop[found \in Found] == IF Pass(found) = found THEN found ELSE loop[Pass(found)]
  IN loop

highlightedNodes ==
  LET found == Loop[[down |-> {hovered}, up |-> {hovered}]]
  IN IF hovered = 0 THEN Task ELSE found.down \cup found.up

----------------------------------------------------------------------------
(* Details.                                                                *)

\* The panel of the picked stage or task, and the failed task its button retries.
selectedItem ==
  IF picked = <<>> THEN {} ELSE IF picked[1] = "stage" THEN TasksOf(picked[2]) ELSE {picked[2]}

Retried == {t \in selectedItem : status[t] = "failed" /\ \A u \in selectedItem : status[u] = "failed" => t <= u}

----------------------------------------------------------------------------
\* New data: a task that may run does, or ends.
Refetched(t) ==
  /\ \/ status[t] = "pending" /\ (\A e \in deps : e[2] = t => status[e[1]] = "completed")
        /\ status' = [status EXCEPT ![t] = "running"]
     \/ status[t] = "running" /\ \E s \in {"completed", "failed"} : status' = [status EXCEPT ![t] = s]
  /\ UNCHANGED <<deps, hovered, picked, viewMode>>

RetryTask(t) ==
  /\ t \in Retried /\ viewMode = "timeline"
  /\ status' = [status EXCEPT ![t] = "pending"]
  /\ UNCHANGED <<deps, hovered, picked, viewMode>>

Hover(t) ==
  /\ viewMode = "graph" /\ hovered' = (IF hovered = t THEN 0 ELSE t)
  /\ UNCHANGED <<deps, status, picked, viewMode>>

\* A node of the graph; a stage, or a task of an unfolded stage, of the timeline.
Pick(item) ==
  /\ viewMode = "timeline" \/ (item # <<>> /\ item[1] = "task")
  /\ picked' = item
  /\ UNCHANGED <<deps, status, hovered, viewMode>>

\* Leaving the graph sends no mouse-leave: the hovered node stays set.
setViewMode(m) ==
  viewMode' = m /\ UNCHANGED <<deps, status, hovered, picked>>

Next ==
  \/ \E t \in Task : Refetched(t) \/ RetryTask(t) \/ Hover(t) \/ Pick(<<"task", t>>)
  \/ \E s \in Stage : TasksOf(s) # {} /\ Pick(<<"stage", s>>)
  \/ Pick(<<>>)
  \/ \E m \in {"timeline", "graph"} : setViewMode(m)

Spec == Init /\ [][Next]_vars

----------------------------------------------------------------------------
Closed(S, edges)  == \A e \in edges : e[1] \in S => e[2] \in S
Reached(t, edges) == {u \in Task : \A S \in SUBSET Task : t \in S /\ Closed(S, edges) => u \in S}

\* The tasks that stand out are the hovered one, all it depends on and all that depend
\* on it, over any number of edges and whatever the order of the edges in the loop.
HighlightIsRelated ==
  hovered # 0 =>
    highlightedNodes = Reached(hovered, initialEdges)
                       \cup Reached(hovered, {<<e[2], e[1]>> : e \in initialEdges})

\* The progress bar, the stages and the graph say the same: "100% Complete" is shown when
\* every stage and every node is completed, and then only (for fewer than 200 tasks: of
\* more, one may be rounded away; without tasks it is 0%).  So no task is lost between
\* the stages.
ProgressAgrees ==
  LET done == overallProgress = 100 IN
  Tasks \in 1 .. 199 =>
     /\ done = (\A i \in stagesData : StageStatus(STAGE_ORDER[i]) = "completed")
     /\ done = (\A t \in Range(initialNodes) : Border(t) = "green")
     /\ done => StageStatus(activeStage) = "completed"
=============================================================================
