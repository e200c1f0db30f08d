---------------------------- MODULE ProcessingPage ----------------------------
(***************************************************************************)
(* The page of a pipeline that is being processed, as far as its faults    *)
(* go: the list of failed tasks, shown on the page and once more in the    *)
(* developer panel, with the row that is unfolded in each and the retries  *)
(* asked for there (pipeline/ProcessingWorkspace.jsx, logs/ErrorPanel.jsx, *)
(* DeveloperPanelTabs.jsx, PipelineContext.js).                            *)
(*                                                                         *)
(* Tasks are numbered as the server lists them; a cancelled task is listed *)
(* like a failed one.  What a replay computes from the log and how two     *)
(* moments of it are compared is PipelineConsole's: here a moment is given *)
(* with the rows it shows.                                                 *)
(***************************************************************************)
EXTENDS Integers, Sequences, FiniteSets, SequencesExt

CONSTANTS
  Tasks,      \* number of tasks
  StepOf,     \* of each, the place of its type among STAGE_LABELS, or -1
  Moments,    \* of a replay, in order: what Rows are of each
  MaxEnds,    \* bound: tasks that end, and retries that fail on their way
  MaxCalls    \* bound: retries on their way

Task   == 1 .. Tasks
Status == {"pending", "running", "completed", "failed"}
Panel  == {"page", "drawer"}
STAGE_LABELS == <<"upload", "ocr", "layout", "chunking", "embedding", "indexing", "ready">>

\* What the page shows of a pipeline: its tasks, and the failed ones, the last first.
Rows == [status : [Task -> Status], faults : Seq(Task)]

PageAssumption ==
  /\ Tasks \in Nat /\ StepOf \in [Task -> -1 .. Len(STAGE_LABELS) - 1]
  /\ Moments \in Seq(Rows) /\ MaxEnds \in Nat /\ MaxCalls \in Nat

VARIABLES
  server,     \* Rows at the server
  ends,       \* tasks that have ended so far
  data,       \* Rows as last fetched
  moment,     \* the moment replayed, 0 in the live view
  errorsTab,  \* the developer panel shows its fault list
  selected,   \* selectedTaskId, 0 for none
  expanded,   \* expandedTaskId of each list
  busy,       \* loadingTaskId of each list
  told,       \* retryErrors of each list: the tasks with a message
  calls       \* retries on their way; a list that is unmounted hears of none

lists == <<expanded, busy, told>>
vars == <<server, ends, data, moment, errorsTab, selected, lists, calls>>

Call == [panel : Panel, task : Task, heard : BOOLEAN, result : {"none", "accepted", "refused"}]

TypeOK ==
  /\ server \in Rows /\ data \in Rows /\ ends \in 0 .. MaxEnds
  /\ moment \in 0 .. Len(Moments) /\ errorsTab \in BOOLEAN /\ selected \in Task \cup {0}
  /\ expanded \in [Panel -> Task \cup {0}] /\ busy \in [Panel -> Task \cup {0}]
  /\ told \in [Panel -> SUBSET Task] /\ calls \subseteq Call

Init ==
  /\ server = [status |-> [t \in Task |-> "pending"], faults |-> <<>>] /\ data = server /\ ends = 0
  /\ moment = 0 /\ errorsTab = FALSE /\ selected = 0
  /\ expanded = [p \in Panel |-> 0] /\ busy = expanded /\ told = [p \in Panel |-> {}] /\ calls = {}

----------------------------------------------------------------------------
(* What is shown.                                                          *)

\* currentActiveDag.
Shown == IF moment = 0 THEN data ELSE Moments[moment]

\* A list is there as long as it has a row.
Mounted(p) == Shown.faults # <<>> /\ (p = "page" \/ errorsTab)

Step(at, t) ==
  IF StepOf[t] = -1 THEN at
  ELSE IF Shown.status[t] = "running" THEN StepOf[t]
  ELSE IF Shown.status[t] = "completed" /\ StepOf[t] + 1 > at THEN StepOf[t] + 1 ELSE at

\* "Current Stage": of the tasks in their order, the last that runs or the step after
\* the furthest completed.
resolveActiveStep ==
  LET at == FoldLeft(Step, 0, [t \in Task |-> t])
  IN IF at < Len(STAGE_LABELS) THEN at ELSE Len(STAGE_LABELS) - 1

\* The rows of a list that can be retried: the unfolded one, unless a retry is on its way.
Retriable(p) == IF Mounted(p) /\ busy[p] = 0 THEN {expanded[p]} \cap Range(Shown.faults) ELSE {}

----------------------------------------------------------------------------
(* Effects.                                                                *)

\* Faulty variant: a selected task is unfolded when it is selected, not when it fails.
UnfoldOnSelection(p) ==
  IF moment' # 0 THEN Head(Shown'.faults)
  ELSE IF selected' # selected /\ selected' \in Range(Shown'.faults) THEN selected' ELSE expanded[p]

\* A list that is drawn anew unfolds the task selected elsewhere and then, in a replay,
\* its first row instead.
Unfold(p) ==
  IF moment' # 0 THEN Head(Shown'.faults)
  ELSE IF selected' \in Range(Shown'.faults) THEN selected' ELSE expanded[p]

\* The commit of a step.  The faults are listed afresh with every change of what the
\* page gets from the context; a list without rows is gone, with its state.
Commit(redrawn) ==
  /\ expanded' = [p \in Panel |-> IF ~Mounted(p)' THEN 0
                                  ELSE IF redrawn \/ ~Mounted(p) THEN Unfold(p) ELSE expanded[p]]
  /\ busy' = [p \in Panel |-> IF Mounted(p)' THEN busy[p] ELSE 0]
  /\ told' = [p \in Panel |-> IF Mounted(p)' THEN told[p] ELSE {}]
  /\ calls' = {[c EXCEPT !.heard = @ /\ Mounted(c.panel)'] : c \in calls}

----------------------------------------------------------------------------
(* The server.                                                             *)

Without(s, t) == RemoveFirst(s, t)

\* A task is claimed, or ends.
Progress(t) ==
  /\ \/ server.status[t] = "pending" /\ server' = [server EXCEPT !.status[t] = "running"] /\ UNCHANGED ends
     \/ /\ server.status[t] = "running" /\ ends < MaxEnds /\ ends' = ends + 1
        /\ \/ server' = [server EXCEPT !.status[t] = "completed"]
           \/ server' = [status |-> [server.status EXCEPT ![t] = "failed"], faults |-> <<t>> \o server.faults]
  /\ UNCHANGED <<data, moment, errorsTab, selected, lists, calls>>

Retried(t) == server' = [status |-> [server.status EXCEPT ![t] = "pending"], faults |-> Without(server.faults, t)]

\* A retry from elsewhere: the diagram, the dialog of the task.
RetryElsewhere(t) ==
  /\ server.status[t] = "failed" /\ Retried(t)
  /\ UNCHANGED <<ends, data, moment, errorsTab, selected, lists, calls>>

\* A failed task, or one that still waits, is put into its queue; others are refused.
RetryServed(c) ==
  /\ c \in calls /\ c.result = "none"
  /\ LET fine == server.status[c.task] \in {"failed", "pending"}
     IN /\ IF fine THEN Retried(c.task) ELSE UNCHANGED server
        /\ calls' = (calls \ {c}) \cup {[c EXCEPT !.result = IF fine THEN "accepted" ELSE "refused"]}
  /\ UNCHANGED <<ends, data, moment, errorsTab, selected, lists>>

\* The request itself fails.
RetryLost(c) ==
  /\ c \in calls /\ c.result = "none" /\ ends < MaxEnds /\ ends' = ends + 1
  /\ calls' = (calls \ {c}) \cup {[c EXCEPT !.result = "refused"]}
  /\ UNCHANGED <<server, data, moment, errorsTab, selected, lists>>

----------------------------------------------------------------------------
(* The page.                                                               *)

\* The details poll, which a replay suspends.
Fetch ==
  /\ moment = 0 /\ data # server /\ data' = server
  /\ UNCHANGED <<server, ends, moment, errorsTab, selected>>
  /\ Commit(TRUE)

\* Into the replay, on in it, and out of it.
Replay(m) ==
  /\ m # moment /\ moment' = m
  /\ UNCHANGED <<server, ends, data, errorsTab, selected>>
  /\ Commit(TRUE)

setActiveTab ==
  /\ errorsTab' = ~errorsTab
  /\ UNCHANGED <<server, ends, data, moment, selected>>
  /\ Commit(FALSE)

\* In the diagrams, the console and the analyses.
setSelectedTaskId(t) ==
  /\ t # selected /\ selected' = t
  /\ UNCHANGED <<server, ends, data, moment, errorsTab>>
  /\ Commit(TRUE)

\* The head of a row folds and unfolds it and selects its task, or none; only another
\* selection has the lists drawn anew.
HeaderClick(p, t) ==
  /\ Mounted(p) /\ t \in Range(Shown.faults)
  /\ UNCHANGED <<server, ends, data, moment, errorsTab, busy, told, calls>>
  /\ selected' = IF expanded[p] = t THEN 0 ELSE t
  /\ expanded' = [q \in Panel |-> IF selected' # selected /\ Mounted(q) /\ (moment # 0 \/ selected' # 0) THEN Unfold(q)
                                  ELSE IF q = p THEN selected' ELSE expanded[q]]

\* "Retry Task Stage".
handleTaskRetryClick(p, t) ==
  /\ t \in Retriable(p) /\ Cardinality(calls) < MaxCalls
  /\ busy' = [busy EXCEPT ![p] = t] /\ told' = [told EXCEPT ![p] = @ \ {t}]
  /\ calls' = calls \cup {[panel |-> p, task |-> t, heard |-> TRUE, result |-> "none"]}
  /\ UNCHANGED <<server, ends, data, moment, errorsTab, selected, expanded>>

\* A refusal is told under the row; an accepted retry has the page drawn anew.
RetryAnswered(c) ==
  /\ c \in calls /\ c.result # "none" /\ calls' = calls \ {c}
  /\ UNCHANGED <<server, ends, data, moment, errorsTab, selected>>
  /\ busy' = IF c.heard THEN [busy EXCEPT ![c.panel] = 0] ELSE busy
  /\ told' = IF c.heard /\ c.result = "refused" THEN [told EXCEPT ![c.panel] = @ \cup {c.task}] ELSE told
  /\ expanded' = [q \in Panel |-> IF Mounted(q) /\ c.result = "accepted" THEN Unfold(q) ELSE expanded[q]]

Next ==
  \/ \E t \in Task : Progress(t) \/ RetryElsewhere(t)
  \/ Fetch \/ setActiveTab
  \/ \E m \in 0 .. Len(Moments) : Replay(m)
  \/ \E t \in Task \cup {0} : setSelectedTaskId(t)
  \/ \E p \in Panel, t \in Task : HeaderClick(p, t) \/ handleTaskRetryClick(p, t)
  \/ \E c \in calls : RetryServed(c) \/ RetryLost(c) \/ RetryAnswered(c)

Spec == Init /\ [][Next]_vars

----------------------------------------------------------------------------
\* "Auto-expand task when it is selected elsewhere" (ErrorPanel.jsx:98): in the live view
\* every list unfolds the selected task as soon as it is among its rows, whether it was
\* selected before or after it failed, in the diagram or in the other list.  (In a replay
\* it does not: the first row takes its place.)
SelectedIsExpanded ==
  \A p \in Panel : Mounted(p) /\ moment = 0 /\ selected \in Range(Shown.faults) => expanded[p] = selected

\* A list waits for one retry at a time, which it has sent and will hear of, so its
\* buttons do come free; and it tells no error of a task whose retry it is waiting for
\* (handleTaskRetryClick).
WaitsForItsOwn ==
  \A p \in Panel :
    LET heard == {c \in calls : c.panel = p /\ c.heard}
    IN /\ {c.task : c \in heard} = {busy[p]} \ {0} /\ Cardinality(heard) <= 1
       /\ busy[p] \notin told[p]

\* "Current Stage" names the stage of the task that runs when tasks run one after the
\* other in the order of the list (resolveActiveStep); tasks of parallel branches may make
\* it name another one.
StageRuns ==
  \A t \in Task :
    /\ StepOf[t] # -1 /\ Shown.status[t] = "running"
    /\ \A u \in Task : u # t => Shown.status[u] = (IF u < t THEN "completed" ELSE "pending")
    => resolveActiveStep = StepOf[t]
=============================================================================
