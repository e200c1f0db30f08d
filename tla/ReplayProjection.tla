-------------------------- MODULE ReplayProjection --------------------------
(***************************************************************************)
(* What the execution console computes from a pipeline's event log: the    *)
(* snapshot after every event, the difference of two snapshots, the live   *)
(* timeline merged out of polled answers, the position of a timestamp and  *)
(* what the diagrams and the fault list show of a snapshot                 *)
(* (contexts/PipelineContext.js, components/workspace/logs and pipeline).  *)
(*                                                                         *)
(* An event is a record [task, worker, type, after, says, time]: `after`   *)
(* is status_after, `says` whether the message mentions a retry.           *)
(***************************************************************************)
EXTENDS Integers, Sequences, FiniteSets, SequencesExt

CONSTANTS
  TaskId, WorkerId,
  None       \* null: no task, no worker, no status, no pipeline

System == "system"

Event == [task : TaskId \cup {None}, worker : WorkerId \cup {None}, type : STRING,
          after : STRING \cup {None}, says : BOOLEAN, time : Nat]

\* SEVERITY_MAP; every other type is INFO.
Severity(type) ==
  IF type \in {"task_failed", "pipeline_failed"} THEN "error"
  ELSE IF type \in {"task_blocked", "task_recovered", "lease_expired", "dependency_blocked",
                    "backpressure_deferred", "stale_worker_update_rejected",
                    "queue_pressure_update", "priority_escalated",
                    "pipeline_ownership_taken_over"}
    THEN "warning"
  ELSE "info"

\* normalizeReplayEvent: an event without a worker is the system's.
Normalized(e) == [e EXCEPT !.worker = IF @ = None THEN System ELSE @]

----------------------------------------------------------------------------
(* computeReplaySnapshots.                                                 *)

\* A task or a worker no event has changed yet; the code leaves it out of the
\* snapshot and every reader of one fills in these values.
NewTask   == [status |-> "pending", worker |-> None, retries |-> 0]
NewWorker == [state |-> "idle", task |-> None, lease |-> "valid"]

Blank == [tasks   |-> [t \in TaskId |-> NewTask],
          workers |-> [w \in WorkerId |-> NewWorker],
          task    |-> None]

Recorded(s, t) == s.tasks[t] # NewTask

Retries(e) == e.type \in {"task_retry", "task_recovered"}

NextTask(row, e) ==
  [status  |-> IF e.after # None THEN e.after
               ELSE IF e.type \in {"task_blocked", "dependency_blocked"} THEN "blocked"
               ELSE IF Retries(e) THEN "retrying" ELSE row.status,
   worker  |-> IF e.worker = System THEN row.worker ELSE e.worker,
   retries |-> row.retries + IF Retries(e) \/ e.says THEN 1 ELSE 0]

Starts(e) == e.after = "running" \/ e.type \in {"task_running", "running"}
Ends(e)   == e.after \in {"completed", "failed"} \/ e.type \in {"task_completed", "task_failed"}

NextWorker(row, e) ==
  [state |-> IF e.type = "lease_expired" THEN "offline"
             ELSE IF Starts(e) THEN "busy" ELSE IF Ends(e) THEN "idle" ELSE row.state,
   task  |-> IF Starts(e) THEN e.task ELSE IF Ends(e) THEN None ELSE row.task,
   lease |-> IF e.type = "lease_expired" THEN "expired" ELSE row.lease]

Advance(s, e) ==
  [tasks   |-> [t \in TaskId |-> IF e.task = t THEN NextTask(s.tasks[t], e) ELSE s.tasks[t]],
   workers |-> [w \in WorkerId |-> IF e.worker = w THEN NextWorker(s.workers[w], e) ELSE s.workers[w]],
   task    |-> IF e.task = None THEN s.task ELSE e.task]

Snapshots(log) ==
  FoldLeft(LAMBDA done, e : Append(done, Advance(IF done = <<>> THEN Blank ELSE Last(done), Normalized(e))),
           <<>>, log)

----------------------------------------------------------------------------
(* computeSnapshotDiff: before is snapshot a, after is snapshot b.         *)

RetryDelta(a, b) == FoldSet(LAMBDA t, n : n + b.tasks[t].retries - a.tasks[t].retries, 0, TaskId)

Diff(a, b) ==
  [tasks   |-> {c \in TaskId \X {"status", "worker"} : a.tasks[c[1]][c[2]] # b.tasks[c[1]][c[2]]},
   workers |-> {w \in WorkerId : a.workers[w] # b.workers[w]},
   retries |-> RetryDelta(a, b)]

----------------------------------------------------------------------------
(* The live timeline: rows [of, n, time], kept by time of event.           *)

Key(row) == <<row.of, row.n>>

\* What the stable sort by time puts before the k-th of rows, of those at the positions P.
Ahead(rows, P, k) == {j \in P : rows[j].time < rows[k].time \/ (rows[j].time = rows[k].time /\ j < k)}

Sorted(rows, P) ==
  [i \in 1 .. Cardinality(P) |-> rows[CHOOSE k \in P : Cardinality(Ahead(rows, P, k)) = i - 1]]

\* Faulty variant: the earliest rows are kept.
FirstRows(rows, cap) == SubSeq(rows, 1, IF Len(rows) > cap THEN cap ELSE Len(rows))

LastRows(rows, cap) == SubSeq(rows, IF Len(rows) > cap THEN Len(rows) - cap + 1 ELSE 1, Len(rows))

\* Faulty variant: rows that are there already are added again.
MergeAll(rows, raw, cap) == LastRows(Sorted(rows \o raw, 1 .. Len(rows) + Len(raw)), cap)

\* Faulty variant: a row is known by its number alone.
MergeByNumber(rows, raw, cap) ==
  LET known == {rows[k].n : k \in 1 .. Len(rows)}
  IN LastRows(Sorted(rows \o raw, {k \in 1 .. Len(rows) + Len(raw) :
                                     k <= Len(rows) \/ raw[k - Len(rows)].n \notin known}), cap)

\* Of rows followed by raw, the positions of the rows and of the new ones.
Taken(rows, raw) ==
  LET known == {Key(rows[k]) : k \in 1 .. Len(rows)}
  IN {k \in 1 .. Len(rows) + Len(raw) : k <= Len(rows) \/ Key(raw[k - Len(rows)]) \notin known}

\* mergeEvents: new rows only, a stable sort, and the last `cap` of them.
Merge(rows, raw, cap) ==
  IF Taken(rows, raw) = 1 .. Len(rows) THEN rows
  ELSE LastRows(Sorted(rows \o raw, Taken(rows, raw)), cap)

----------------------------------------------------------------------------
(* handleJumpSubmit: the replay position of a timestamp, counted from 0.   *)

\* A log as the server serves it, in the order of time.
Chronological(log) ==
  /\ Len(log) \in Nat /\ \A k \in 1 .. Len(log) : log[k].time \in Nat
  /\ \A j, k \in 1 .. Len(log) : j <= k => log[j].time <= log[k].time

\* The loop's low, high and the best match so far.
Bounds(log) == [lo : 0 .. Len(log), hi : -1 .. Len(log) - 1, best : -1 .. Len(log) - 1]

Bisect(log, target) ==
  LET found[b \in Bounds(log)] ==
        LET mid == (b.lo + b.hi) \div 2
        IN IF b.lo > b.hi THEN b.best
           ELSE IF log[mid + 1].time >= target THEN found[[lo |-> b.lo, hi |-> mid - 1, best |-> mid]]
           ELSE found[[lo |-> mid + 1, hi |-> b.hi, best |-> b.best]]
  IN found

Jump(log, target) ==
  LET at == Bisect(log, target)[[lo |-> 0, hi |-> Len(log) - 1, best |-> -1]]
  IN IF at = -1 THEN Len(log) - 1 ELSE at

\* The reference for Jump: the first event at or after the time, or the last one.
FirstAt(log, target) ==
  LET after == {k \in 1 .. Len(log) : log[k].time >= target}
  IN IF after = {} THEN Len(log) - 1 ELSE (CHOOSE k \in after : \A j \in after : k <= j) - 1

----------------------------------------------------------------------------
(* What is shown of a snapshot.                                            *)

Failing == {"failed", "cancelled"}

\* currentActiveDag: the task rows under the diagram, the tabs and the fault
\* list.  A task the snapshot does not record keeps its live row.
ReplayedRows(s, live) ==
  [t \in TaskId |-> IF Recorded(s, t) THEN s.tasks[t] ELSE live.tasks[t]]

\* ErrorPanel: the category of a task when two snapshots are compared, None if
\* it fails in neither.
Category(a, b, t) ==
  LET inA == a.tasks[t].status \in Failing
      inB == b.tasks[t].status \in Failing
  IN IF inB /\ ~inA THEN "Introduced" ELSE IF inA /\ ~inB THEN "Resolved"
     ELSE IF inA THEN "Persistent" ELSE None

\* ErrorPanel while replaying: of the listed errors, those the snapshot has failed.
FaultsAt(s, errors) == {t \in errors : s.tasks[t].status \in Failing}
=============================================================================
