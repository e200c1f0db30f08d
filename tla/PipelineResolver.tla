-------------------------- MODULE PipelineResolver --------------------------
(***************************************************************************)
(* One pipeline: a DAG of tasks whose statuses the request handlers and    *)
(* scanners of backend/app.py move, with orchestrator/dependency_resolver  *)
(* releasing children, propagating failures and rolling the task statuses  *)
(* up into the pipeline's.                                                 *)
(*                                                                         *)
(* A handler that consults other rows runs as a transaction in two steps:  *)
(* Begin reads (READ COMMITTED, so only what others committed) and Commit  *)
(* writes the rows the handler changes.  Rows are versioned (version_id):  *)
(* a transaction that writes a row changed since it was read rolls back    *)
(* and its caller repeats it.  Rows it only READ are not protected.        *)
(* Which worker runs a task, and by which lease, is TaskLifecycle's.       *)
(***************************************************************************)
EXTENDS Integers, FiniteSets

CONSTANTS
  Node,        \* tasks of the pipeline
  Parents,     \* Parents[n]: the tasks n depends on (Task.dependent_on)
  PipelineRow, \* the pipeline's own row
  MaxRetries,  \* Task.max_retries
  Overlap,     \* bound: transactions open at the same time
  Limit        \* bounds on pauses, reaps and user requests

Request == {"pause", "stalePause", "reap", "cancel", "retry", "cancelPipeline", "retryPipeline"}

ASSUME GraphAssumption ==
  /\ Parents \in [Node -> SUBSET Node]
  /\ IsFiniteSet(Node)
  /\ PipelineRow \notin Node
  /\ MaxRetries \in Nat
  /\ Overlap \in Nat
  /\ Limit \in [Request -> Nat]

VARIABLES
  status,    \* Task.status
  reason,    \* Task.blocked_reason: "none", "backoff", "deferred" or "upstream"
  retry,     \* Task.retry_count
  pipeline,  \* Pipeline.status
  released,  \* DEPENDENCY_RELEASED events: pairs <<parent, child>>
  doing,     \* what the open transaction on this task does
  seen,      \* what it read when it began
  touched,   \* the rows others have written since
  claimed,   \* history: tasks some worker has had
  meddled,   \* history: tasks moved behind the pipeline's back, by a user's
             \* cancel or retry or by a pause reported late
  used       \* how much of each Limit is spent

rows  == <<status, reason, retry>>
txs   == <<doing, seen, touched>>
vars  == <<rows, pipeline, released, txs, claimed, meddled, used>>

TaskStatus == {"pending", "running", "paused", "blocked", "completed", "failed", "cancelled"}
Reason     == {"none", "backoff", "deferred", "upstream"}
Timed      == {"backoff", "deferred"}   \* the reasons the unblock scanner releases
PipelineStatus == {"created", "running", "completed", "failed", "blocked", "cancelled"}
Handler    == {"complete", "fail", "fatal", "recover", "unblock"}
View  == [status : [Node -> TaskStatus], reason : [Node -> Reason], pipeline : PipelineStatus]
Blank == [status |-> [n \in Node |-> "blocked"], reason |-> [n \in Node |-> "none"],
          pipeline |-> "created"]
Row   == Node \cup {PipelineRow}
Roots == {n \in Node : Parents[n] = {}}

TypeOK ==
  /\ status   \in [Node -> TaskStatus]
  /\ reason   \in [Node -> Reason]
  /\ retry    \in [Node -> Nat]
  /\ pipeline \in PipelineStatus
  /\ released \subseteq Node \X Node
  /\ doing    \in [Node -> Handler \cup {"none"}]
  /\ seen     \in [Node -> View]
  /\ touched  \in [Node -> SUBSET Row]
  /\ claimed  \subseteq Node
  /\ meddled  \subseteq Node
  /\ used     \in [Request -> Nat]

\* create_pipeline, as of its first commit.
Init ==
  /\ status   = [n \in Node |-> IF n \in Roots THEN "pending" ELSE "blocked"]
  /\ reason   = [n \in Node |-> "none"]
  /\ retry    = [n \in Node |-> 0]
  /\ pipeline = "created"
  /\ released = {}
  /\ doing    = [n \in Node |-> "none"]
  /\ seen     = [n \in Node |-> Blank]
  /\ touched  = [n \in Node |-> {}]
  /\ claimed  = {}
  /\ meddled  = {}
  /\ used     = [r \in Request |-> 0]

----------------------------------------------------------------------------
(* dependency_resolver.py                                                  *)

\* Faulty variant: what is neither running nor failed counts as completed.
RollUpByAbsence(old, st, raw) ==
  LET some(S) == \E n \in Node \ raw : st[n] \in S IN
  IF old = "cancelled" THEN old
  ELSE IF some({"running", "pending"}) THEN "running"
  ELSE IF some({"failed"})    THEN "failed"
  ELSE IF some({"blocked"})   THEN "blocked"
  ELSE IF some({"cancelled"}) THEN "cancelled"
  ELSE "completed"

\* Faulty variant: a failed pipeline is final.
RollUpFinal(old, st, raw) ==
  LET some(S) == \E n \in Node \ raw : st[n] \in S IN
  IF old \in {"cancelled", "failed"} THEN old
  ELSE IF \A n \in Node : st[n] = "completed" THEN "completed"
  ELSE IF some({"running", "pending"}) THEN "running"
  ELSE "failed"

\* update_pipeline_status.  A paused task is in none of its counts, nor is one
\* in raw: a status the handler has just assigned as a string ('blocked') is
\* not equal to the Enum member the count compares it with.
RollUp(old, st, raw) ==
  LET some(S) == \E n \in Node \ raw : st[n] \in S IN
  IF old = "cancelled" THEN old
  ELSE IF \A n \in Node : st[n] = "completed" THEN "completed"
  ELSE IF some({"running", "pending"}) THEN "running"
  ELSE IF some({"failed"})    THEN "failed"
  ELSE IF some({"blocked"})   THEN "blocked"
  ELSE IF some({"cancelled"}) THEN "cancelled"
  ELSE "failed"

RolledUp(w, raw) == [w EXCEPT !.pipeline = RollUp(w.pipeline, w.status, raw)]

\* propagate_failure_iterative from the tasks in From: the descendants it marks,
\* going on only through those it marks.
Marked(v, From) ==
  LET Markable == {c \in Node : v.status[c] \in {"pending", "blocked"} /\ v.reason[c] = "none"}
      reach[k \in 0 .. Cardinality(Node)] ==
        IF k = 0 THEN From
        ELSE reach[k - 1] \cup {c \in Markable : Parents[c] \cap reach[k - 1] # {}}
  IN  {c \in Markable \ From : c \in reach[Cardinality(Node)]}

Put(v, n, s) == [v EXCEPT !.status[n] = s]

MarkBlocked(v, S) ==
  [v EXCEPT !.status = [n \in Node |-> IF n \in S THEN "blocked" ELSE v.status[n]],
            !.reason = [n \in Node |-> IF n \in S THEN "upstream" ELSE v.reason[n]]]

\* Faulty variant: a child that was once taken for hopeless is not looked at again.
ChildrenUnmarked(v, n) ==
  IF v.pipeline = "cancelled" THEN {}
  ELSE {c \in Node : /\ n \in Parents[c] /\ <<n, c>> \notin released
                     /\ v.status[c] \in {"pending", "blocked"} /\ v.reason[c] = "none"}

\* resolve_dependencies for a task n that v shows completed: the children it
\* looks at, those it releases, those st makes it take for hopeless.
Children(v, n) ==
  IF v.pipeline = "cancelled" THEN {}
  ELSE {c \in Node : /\ n \in Parents[c] /\ <<n, c>> \notin released
                     /\ v.status[c] \in {"pending", "blocked"}}

\* Faulty variant: one completed parent is enough.
ReadyAny(v, n) == {c \in Children(v, n) : \E p \in Parents[c] : v.status[p] = "completed"}

Ready(v, n) == {c \in Children(v, n) : \A p \in Parents[c] : v.status[p] = "completed"}

Hopeless(v, n, st) ==
  {c \in Children(v, n) \ Ready(v, n) :
     \E p \in Parents[c] : st[p] \in {"failed", "cancelled", "blocked"}}

\* What it writes when backpressure defers the ready children in D.  A released
\* child keeps the blocked_reason it had.
Release(v, n, D) ==
  LET ready == Ready(v, n) IN
  [v EXCEPT !.status = [c \in Node |-> IF c \in ready \cap D THEN "blocked"
                                       ELSE IF c \in ready THEN "pending" ELSE v.status[c]],
            !.reason = [c \in Node |-> IF c \in ready \cap D THEN "deferred" ELSE v.reason[c]]]

\* ... and when it finds the children in H hopeless: whether a sibling they also
\* depend on is released before or after them is the order of required_by.
Resolve(v, n, D, H) ==
  LET r == Release(v, n, D) IN MarkBlocked(r, H \cup Marked(r, H))

Choice(v, n) ==
  {c \in [D : SUBSET Ready(v, n), H : SUBSET Children(v, n)] :
     Hopeless(v, n, Release(v, n, c.D).status) \subseteq c.H /\ c.H \subseteq Hopeless(v, n, v.status)}

\* A failure for good: every descendant is told.
Condemn(v, n) == LET w == Put(v, n, "failed") IN MarkBlocked(w, Marked(w, {n}))

----------------------------------------------------------------------------
(* The handlers that consult other rows.                                   *)

\* update_task counts a failure before it compares, the recovery scanner
\* compares before it counts.
Exhausted(n, h) ==
  \/ h = "fatal"
  \/ h = "fail" /\ retry[n] + 1 >= MaxRetries
  \/ h = "recover" /\ retry[n] >= MaxRetries

\* What a handler h on task n that has read v may leave behind.
Outcomes(v, n, h) ==
  CASE h = "complete" ->
         LET w == Put(v, n, "completed") IN
         {RolledUp(Resolve(w, n, c.D, c.H), {}) : c \in Choice(w, n)}
    [] h \in {"fail", "fatal"} /\ Exhausted(n, h) -> {RolledUp(Condemn(v, n), {})}
    [] h = "recover" /\ Exhausted(n, h)           -> {RolledUp(Condemn(v, n), {n})}
    [] h = "fail" /\ ~Exhausted(n, h) ->
         {RolledUp([v EXCEPT !.status[n] = "blocked", !.reason[n] = "backoff"], {n})}
    [] h = "recover" /\ ~Exhausted(n, h) -> {RolledUp(Put(v, n, "pending"), {n})}
    [] h = "unblock" ->
         {RolledUp([v EXCEPT !.status[n] = "pending",
                             !.reason[n] = IF v.status[n] = "paused" THEN @ ELSE "none"], {n})}

\* advance_pipeline_segment: a completion that leaves nothing running or pending
\* writes the pipeline's row even if its status stays.
Advances(w, h) ==
  /\ h = "complete" /\ w.pipeline # "cancelled"
  /\ \A m \in Node : w.status[m] \notin {"running", "pending"}

Changed(v, w, n) == {n} \cup {m \in Node : w.status[m] # v.status[m] \/ w.reason[m] # v.reason[m]}

Writes(v, w, n, h) ==
  Changed(v, w, n) \cup (IF w.pipeline # v.pipeline \/ Advances(w, h) THEN {PipelineRow} ELSE {})

Open == {n \in Node : doing[n] # "none"}

\* The transactions still open learn that the rows R were written.
Touch(T, R) == [m \in Node |-> IF m \in T THEN touched[m] \cup R ELSE touched[m]]

\* Faulty variant: the unblock scanner takes a blocked task for whatever reason.
AppliesAnyReason(h, s, r) ==
  \/ h \in {"complete", "fail", "fatal"} /\ s \in {"running", "paused"}
  \/ h = "recover" /\ s = "running"
  \/ h = "unblock" /\ s \in {"paused", "blocked"}

\* The rows each handler is for: the stale-update check, the scanners' queries.
Applies(h, s, r) ==
  \/ h \in {"complete", "fail", "fatal"} /\ s \in {"running", "paused"}
  \/ h = "recover" /\ s = "running"
  \/ h = "unblock" /\ (s = "paused" \/ (s = "blocked" /\ r \in Timed))

Begin(n, h) ==
  /\ doing[n] = "none" /\ Cardinality(Open) < Overlap
  /\ Applies(h, status[n], reason[n])
  /\ doing' = [doing EXCEPT ![n] = h]
  /\ seen'  = [seen EXCEPT ![n] = [status |-> status, reason |-> reason, pipeline |-> pipeline]]
  /\ UNCHANGED <<rows, pipeline, released, touched, claimed, meddled, used>>

\* The commit: the rows this transaction changes, and no others, are written,
\* if their versions are still those it read.
Write(n, w) ==
  LET v == seen[n]
      R == Writes(v, w, n, doing[n])
  IN  /\ R \cap touched[n] = {}
      /\ status' = [m \in Node |-> IF m \in R THEN w.status[m] ELSE status[m]]
      /\ reason' = [m \in Node |-> IF m \in R THEN w.reason[m] ELSE reason[m]]
      /\ pipeline' = IF PipelineRow \in R THEN w.pipeline ELSE pipeline
      /\ touched' = [Touch(Open \ {n}, R) EXCEPT ![n] = {}]
      /\ released' = IF doing[n] = "complete"
           THEN released \cup {<<n, c>> : c \in {m \in Ready(Put(v, n, "completed"), n) :
                                                  w.status[m] = "pending"}}
           ELSE released

Counted(n) ==
  retry' = [retry EXCEPT ![n] = CASE doing[n] = "fatal" -> MaxRetries
                                  [] doing[n] = "fail"  -> @ + 1
                                  [] doing[n] = "recover" /\ ~Exhausted(n, "recover") -> @ + 1
                                  [] OTHER -> @]

End(n) ==
  /\ doing' = [doing EXCEPT ![n] = "none"]
  /\ seen'  = [seen EXCEPT ![n] = Blank]

Commit(n) ==
  /\ doing[n] # "none"
  /\ \E w \in Outcomes(seen[n], n, doing[n]) : Write(n, w)
  /\ Counted(n)
  /\ End(n)
  /\ UNCHANGED <<claimed, meddled, used>>

\* StaleDataError: nothing is written; the worker's request is repeated, the
\* scanner's next pass tries again.
Rollback(n) ==
  /\ doing[n] # "none"
  /\ \E w \in Outcomes(seen[n], n, doing[n]) :
       Writes(seen[n], w, n, doing[n]) \cap touched[n] # {}
  /\ touched' = [touched EXCEPT ![n] = {}]
  /\ End(n)
  /\ UNCHANGED <<rows, pipeline, released, claimed, meddled, used>>

----------------------------------------------------------------------------
(* Handlers that write without consulting other rows.                      *)

Spend(r) == used[r] < Limit[r] /\ used' = [used EXCEPT ![r] = @ + 1]

SetRow(n, s) ==
  /\ status'  = [status EXCEPT ![n] = s]
  /\ touched' = Touch(Open, {n})
  /\ UNCHANGED <<reason, pipeline, released, doing, seen>>

\* create_pipeline, second half: the roots are queued or deferred.
Admit(D) ==
  /\ pipeline = "created"
  /\ \A n \in D : status[n] = "pending"
  /\ status'   = [n \in Node |-> IF n \in D THEN "blocked" ELSE status[n]]
  /\ reason'   = [n \in Node |-> IF n \in D THEN "deferred" ELSE reason[n]]
  /\ pipeline' = RollUp(pipeline, status', D)
  /\ touched'  = Touch(Open, D \cup {PipelineRow})
  /\ UNCHANGED <<retry, released, doing, seen, claimed, meddled, used>>

\* claim_task: no dependency is checked here.
Claim(n) ==
  /\ status[n] = "pending"
  /\ SetRow(n, "running")
  /\ claimed' = claimed \cup {n}
  /\ UNCHANGED <<retry, meddled, used>>

\* update_task, paused_rate_limit: the pipeline is not told.
Pause(n) ==
  /\ status[n] = "running" /\ Spend("pause")
  /\ SetRow(n, "paused")
  /\ UNCHANGED <<retry, claimed, meddled>>

\* ... nor is it asked who holds the lease, or whether the task still runs.
StalePause(n) ==
  /\ n \in claimed /\ status[n] # "running" /\ Spend("stalePause")
  /\ SetRow(n, "paused")
  /\ meddled' = meddled \cup {n}
  /\ UNCHANGED <<retry, claimed>>

\* reap_stuck_tasks: neither children nor pipeline are told.
Reap(n) ==
  /\ status[n] = "running" /\ Spend("reap")
  /\ retry' = [retry EXCEPT ![n] = @ + 1]
  /\ SetRow(n, IF retry[n] + 1 < MaxRetries THEN "pending" ELSE "failed")
  /\ UNCHANGED <<claimed, meddled>>

\* cancel_task: possible in every status (its guard never fires).
Cancel(n) ==
  /\ Spend("cancel")
  /\ SetRow(n, "cancelled")
  /\ meddled' = meddled \cup {n}
  /\ UNCHANGED <<retry, claimed>>

\* retry_task (with force): no dependency is checked.
Retry(n) ==
  /\ status[n] \in {"failed", "cancelled", "pending"} /\ Spend("retry")
  /\ SetRow(n, "pending")
  /\ meddled' = meddled \cup {n}
  /\ UNCHANGED <<retry, claimed>>

\* cancel_pipeline: the loop over the tasks compares Enum members to strings and
\* cancels none of them; the terminal-status guard never fires either.
CancelPipeline ==
  /\ Spend("cancelPipeline")
  /\ pipeline' = "cancelled"
  /\ touched' = Touch(Open, {PipelineRow})
  /\ UNCHANGED <<rows, released, doing, seen, claimed, meddled>>

\* retry_pipeline: of the failed tasks only those without dependencies pass its
\* check (again Enum against string); their retry_count starts over.
RetryPipeline ==
  LET S == {n \in Roots : status[n] = "failed"} IN
  /\ S # {} /\ Spend("retryPipeline")
  /\ status'   = [n \in Node |-> IF n \in S THEN "pending" ELSE status[n]]
  /\ retry'    = [n \in Node |-> IF n \in S THEN 0 ELSE retry[n]]
  /\ pipeline' = "running"
  /\ touched'  = Touch(Open, S \cup {PipelineRow})
  /\ UNCHANGED <<reason, released, doing, seen, claimed, meddled>>

----------------------------------------------------------------------------

TaskStep(n) ==
  \/ \E h \in Handler : Begin(n, h)
  \/ Commit(n) \/ Rollback(n)
  \/ Claim(n) \/ Pause(n) \/ StalePause(n) \/ Reap(n) \/ Cancel(n) \/ Retry(n)

Next ==
  \/ \E n \in Node : TaskStep(n)
  \/ \E D \in SUBSET Roots : Admit(D)
  \/ CancelPipeline \/ RetryPipeline

Spec == Init /\ [][Next]_vars

(* Fairness: create_pipeline ends; workers claim what is pending and report  *)
(* what they run (a lost worker's task is recovered); the scanners run;      *)
(* transactions end.                                                         *)
FairSpec ==
  /\ Spec
  /\ WF_vars(\E D \in SUBSET Roots : Admit(D))
  /\ \A n \in Node :
       /\ WF_vars(Claim(n))
       /\ SF_vars(Begin(n, "complete") \/ Begin(n, "fail"))
       /\ SF_vars(Begin(n, "unblock"))
       /\ WF_vars(Commit(n) \/ Rollback(n))

----------------------------------------------------------------------------
(* Properties.                                                             *)

\* resolve_dependencies: however requests overlap, fail and are repeated, a task
\* is run only when its parents have completed (a task or a parent the user
\* cancelled or retried on its own, or a late pause moved, is excepted: those
\* handlers look at nothing).
Started == {"running", "paused", "completed", "failed"}
RunsAfterParents ==
  \A n \in Node \ meddled : status[n] \in Started =>
    \A p \in Parents[n] : status[p] = "completed" \/ p \in meddled

\* Why: so may no task that could still start, a waiting one whose timer could
\* release it included; and what an open transaction has read is current on
\* every row not written since, and never wrong about a completed task.
Live(n) == \/ status[n] \in Started \cup {"pending"}
           \/ status[n] = "blocked" /\ reason[n] \in Timed
Done(p) == status[p] = "completed" \/ p \in meddled

LiveAfterParents ==
  \A n \in Node \ meddled : Live(n) => \A p \in Parents[n] : Done(p)

ViewsCurrent ==
  \A n \in Open :
    /\ Applies(doing[n], seen[n].status[n], seen[n].reason[n])
    /\ \A m \in Node :
         /\ m \notin touched[n] => seen[n].status[m] = status[m] /\ seen[n].reason[m] = reason[m]
         /\ seen[n].status[m] = "completed" => Done(m)

Provenance == LiveAfterParents /\ ViewsCurrent

\* update_pipeline_status: a pipeline reported completed has no unfinished task,
\* although the counts it took may be out of date when they are committed.
CompletedPipelineIsDone == pipeline = "completed" => \A n \in Node : Done(n)

\* "Finds children, checks if all parents completed, passes artifacts, and
\* enqueues children": a task whose parents have all completed is not left
\* blocked.
ReadyIsReleased ==
  \A n \in Node :
    status[n] = "blocked" /\ (\A p \in Parents[n] : status[p] = "completed")
      ~> status[n] # "blocked"

\* "Updates the Pipeline execution state based on all component tasks": once
\* nothing runs or will run, the pipeline says so.
PipelineSettles ==
  (\A n \in Node : status[n] = "completed") ~> pipeline \in {"completed", "cancelled"}
=============================================================================
