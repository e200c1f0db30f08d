---------------------------- MODULE TaskLifecycle ----------------------------
(***************************************************************************)
(* The life of a task row: the API handlers of backend/app.py that claim,  *)
(* renew, report, retry and cancel it, the leader's recovery, heal and     *)
(* unblock scanners, the Redis queue of task ids, and the worker processes *)
(* of backend/worker.py with the reports they have in flight.              *)
(*                                                                         *)
(* A handler whose only external effect is its commit is one action: the   *)
(* row's version_id (models.py, Task.__mapper_args__) makes concurrent     *)
(* writers of one row fail and roll back.  The handlers that push to Redis *)
(* BEFORE they commit take two steps, the push and the commit, with the    *)
(* row locked in between (tx).  Those that push AFTER the commit leave an  *)
(* obligation behind (creating, requeue).                                  *)
(***************************************************************************)
EXTENDS Integers, FiniteSets

CONSTANTS
  Task,            \* task rows
  Child,           \* the tasks with relational parents, a subset of Task
  Worker,          \* worker processes
  NoTask, NoWorker,
  MaxRetries,      \* Task.max_retries
  Strikes,         \* failed renewals after which a LeaseRenewer aborts (3)
  Kinds,           \* the reports workers send in this instance
  OverloadPolicy,  \* overload_protection_policy, "defer" or "reject"
  Limit            \* bounds: how many faults, pauses, cancels and user retries

ReportKind == {"completed", "failed", "permanent", "fatal", "paused"}
Event      == {"fault", "pause", "cancel", "retry"}

ASSUME ConstantsAssumption ==
  /\ Child \subseteq Task
  /\ NoTask \notin Task
  /\ NoWorker \notin Worker
  /\ MaxRetries \in Nat
  /\ Strikes \in Nat \ {0}
  /\ Kinds \subseteq ReportKind
  /\ OverloadPolicy \in {"defer", "reject"}
  /\ Limit \in [Event -> Nat]

VARIABLES
  status,    \* Task.status; "absent" before creation, "waiting" = blocked with
             \* no blocked_reason, "blocked" = blocked with a releasable reason
  owner,     \* assigned_worker_id
  token,     \* lease_token: the number of the claim that wrote it, 0 = None
  lapsed,    \* lease_expires_at and last_progress_at both past their limits
  retry,     \* retry_count
  tx,        \* the handler holding the row with its commit still to come
  creating,  \* created and committed, create_task still to admit it
  requeue,   \* recovered and committed, its LPUSH still to come
  queue,     \* how often the id is in its Redis list
  pc, job, held, strikes,  \* per worker: state, task, lease_token, failed renewals
  net,       \* PATCH /tasks/<id> requests in flight
  issued,    \* history: claims granted on each task
  extra,     \* history: user retries and pauses applied to each task
  accepted,  \* history: tokens whose completion was applied
  gaveUp,    \* history: a permanent failure was applied
  used       \* how much of each Limit is spent

rowVars  == <<status, owner, token, lapsed, retry, tx>>
pushVars == <<creating, requeue, queue>>
wkVars   == <<pc, job, held, strikes>>
history  == <<issued, extra, accepted, gaveUp>>
vars == <<rowVars, pushVars, wkVars, net, history, used>>

TaskStatus == {"absent", "deleted", "waiting", "pending", "running", "paused",
               "blocked", "completed", "failed", "cancelled"}
TxKind  == {"release", "retry", "unblock", "reap"}
Leased  == {"running", "paused"}
Settled == {"completed", "failed", "cancelled"}
Report  == [task : Task, worker : Worker, token : Nat, kind : ReportKind]

TypeOK ==
  /\ status   \in [Task -> TaskStatus]
  /\ owner    \in [Task -> Worker \cup {NoWorker}]
  /\ token    \in [Task -> Nat]
  /\ lapsed   \in [Task -> BOOLEAN]
  /\ retry    \in [Task -> Nat]
  /\ tx       \in [Task -> TxKind \cup {"none"}]
  /\ creating \subseteq Task
  /\ requeue  \subseteq Task
  /\ queue    \in [Task -> Nat]
  /\ pc       \in [Worker -> {"idle", "claiming", "running"}]
  /\ job      \in [Worker -> Task \cup {NoTask}]
  /\ held     \in [Worker -> Nat]
  /\ strikes  \in [Worker -> 0 .. Strikes]
  /\ net      \subseteq Report
  /\ issued   \in [Task -> Nat]
  /\ extra    \in [Task -> Nat]
  /\ accepted \in [Task -> SUBSET Nat]
  /\ gaveUp   \in [Task -> BOOLEAN]
  /\ used     \in [Event -> Nat]
  \* a worker that is not idle has a task
  /\ \A w \in Worker : pc[w] # "idle" => job[w] \in Task

Init ==
  /\ status   = [t \in Task |-> IF t \in Child THEN "waiting" ELSE "absent"]
  /\ owner    = [t \in Task |-> NoWorker]
  /\ token    = [t \in Task |-> 0]
  /\ lapsed   = [t \in Task |-> FALSE]
  /\ retry    = [t \in Task |-> 0]
  /\ tx       = [t \in Task |-> "none"]
  /\ creating = {} /\ requeue = {}
  /\ queue    = [t \in Task |-> 0]
  /\ pc       = [w \in Worker |-> "idle"]
  /\ job      = [w \in Worker |-> NoTask]
  /\ held     = [w \in Worker |-> 0]
  /\ strikes  = [w \in Worker |-> 0]
  /\ net      = {}
  /\ issued   = [t \in Task |-> 0]
  /\ extra    = [t \in Task |-> 0]
  /\ accepted = [t \in Task |-> {}]
  /\ gaveUp   = [t \in Task |-> FALSE]
  /\ used     = [e \in Event |-> 0]

----------------------------------------------------------------------------
(* Shared parts of the actions.                                            *)

Spend(e) == used[e] < Limit[e] /\ used' = [used EXCEPT ![e] = @ + 1]

\* add_task_to_queue / enqueue_task: LPUSH, its Redis error swallowed.
Enqueue(t) ==
  \/ queue' = [queue EXCEPT ![t] = @ + 1] /\ UNCHANGED used
  \/ UNCHANGED queue /\ Spend("fault")

SpendWithFault(e) ==
  /\ used[e] < Limit[e] /\ used["fault"] < Limit["fault"]
  /\ used' = [used EXCEPT ![e] = @ + 1, !["fault"] = @ + 1]

\* A user's request changes the list, or its Redis error is swallowed.
Requested(e, t, n) ==
  \/ queue' = [queue EXCEPT ![t] = n] /\ Spend(e)
  \/ UNCHANGED queue /\ SpendWithFault(e)

\* The transactions in progress, each a set of rows.  A scanner pass commits
\* all it released at once; a release or a user retry is a request of its own.
Transactions ==
  {{t} : t \in {u \in Task : tx[u] \in {"release", "retry"}}}
    \cup ({{t \in Task : tx[t] = k} : k \in {"unblock", "reap"}} \ {{}})

\* The server's check of a lease holder (renew, progress, completed, failed).
Holds(w, k, t) == status[t] \in Leased /\ owner[t] = w /\ token[t] = k

\* Faulty variant: a second claim of a task hands out its first token again.
GrantSameToken(t, w) ==
  /\ status' = [status EXCEPT ![t] = "running"]
  /\ owner'  = [owner EXCEPT ![t] = w]
  /\ issued' = [issued EXCEPT ![t] = @ + 1]
  /\ token'  = [token EXCEPT ![t] = IF @ = 0 THEN issued[t] + 1 ELSE @]
  /\ lapsed' = [lapsed EXCEPT ![t] = FALSE]
  /\ UNCHANGED <<retry, tx, extra, accepted, gaveUp>>

\* A claim: a fresh token, and the lease clock starts.
Grant(t, w) ==
  /\ status' = [status EXCEPT ![t] = "running"]
  /\ owner'  = [owner EXCEPT ![t] = w]
  /\ issued' = [issued EXCEPT ![t] = @ + 1]
  /\ token'  = [token EXCEPT ![t] = issued[t] + 1]
  /\ lapsed' = [lapsed EXCEPT ![t] = FALSE]
  /\ UNCHANGED <<retry, tx, extra, accepted, gaveUp>>

Execute(w, t, k) ==
  /\ pc'      = [pc EXCEPT ![w] = "running"]
  /\ job'     = [job EXCEPT ![w] = t]
  /\ held'    = [held EXCEPT ![w] = k]
  /\ strikes' = [strikes EXCEPT ![w] = 0]

GoIdle(w) ==
  /\ pc'      = [pc EXCEPT ![w] = "idle"]
  /\ job'     = [job EXCEPT ![w] = NoTask]
  /\ held'    = [held EXCEPT ![w] = 0]
  /\ strikes' = [strikes EXCEPT ![w] = 0]

SetStatus(t, s) ==
  /\ status' = [status EXCEPT ![t] = s]
  /\ UNCHANGED <<owner, token, lapsed, tx>>

----------------------------------------------------------------------------
(* Creation and release.                                                   *)

\* create_task: the row is committed pending, nothing is queued yet.
Create(t) ==
  /\ status[t] = "absent"
  /\ SetStatus(t, "pending")
  /\ creating' = creating \cup {t}
  /\ UNCHANGED <<retry, requeue, queue, wkVars, net, history, used>>

\* create_task, second half: admitted, pushed.
Admit(t) ==
  /\ t \in creating
  /\ creating' = creating \ {t}
  /\ Enqueue(t)
  /\ UNCHANGED <<rowVars, requeue, wkVars, net, history>>

\* The row is as create_task wrote it: its version_id has not moved.
Untouched(t) ==
  status[t] = "pending" /\ issued[t] = 0 /\ extra[t] = 0 /\ tx[t] = "none"

\* create_task under overload: the row, if nobody changed it since, is deferred
\* (or deleted, by policy).  Otherwise the versioned update fails.
Overload(t) ==
  /\ t \in creating
  /\ creating' = creating \ {t}
  /\ \/ /\ Untouched(t)
        /\ SetStatus(t, IF OverloadPolicy = "reject" THEN "deleted" ELSE "blocked")
        /\ UNCHANGED retry
     \/ ~Untouched(t) /\ UNCHANGED rowVars
  /\ UNCHANGED <<requeue, queue, wkVars, net, history, used>>

\* resolve_dependencies releases a child whose parents completed: pushed first,
\* committed with the rest of the parent's request.
Release(t) ==
  /\ status[t] = "waiting" /\ tx[t] = "none"
  /\ tx' = [tx EXCEPT ![t] = "release"]
  /\ Enqueue(t)
  /\ UNCHANGED <<status, owner, token, lapsed, retry, creating, requeue,
                 wkVars, net, history>>

\* resolve_dependencies under congestion or backpressure.
Throttle(t) ==
  /\ status[t] = "waiting" /\ tx[t] = "none"
  /\ SetStatus(t, "blocked")
  /\ UNCHANGED <<retry, pushVars, wkVars, net, history, used>>

\* scan_and_unblock_deferred_tasks, one row: a deferred, backing-off or paused
\* task whose time has come is pushed; the commit ends the pass.
Unblock(t) ==
  /\ status[t] \in {"blocked", "paused"} /\ tx[t] = "none"
  /\ tx' = [tx EXCEPT ![t] = "unblock"]
  /\ Enqueue(t)
  /\ UNCHANGED <<status, owner, token, lapsed, retry, creating, requeue,
                 wkVars, net, history>>

\* retry_task: open to failed, cancelled and pending tasks; the retry limit is
\* the user's to override (force), and no dependency is checked.
UserRetry(t) ==
  /\ status[t] \in {"failed", "cancelled", "pending"} /\ tx[t] = "none"
  /\ tx' = [tx EXCEPT ![t] = "retry"]
  /\ Requested("retry", t, queue[t] + 1)
  /\ UNCHANGED <<status, owner, token, lapsed, retry, creating, requeue,
                 wkVars, net, history>>

\* reap_stuck_tasks, on GET /tasks: a task running for TASK_RUNNING_TIMEOUT is
\* retried whatever its lease says; its owner and token stay.
Reap(t) ==
  /\ status[t] = "running" /\ tx[t] = "none"
  /\ retry[t] + 1 < MaxRetries
  /\ tx' = [tx EXCEPT ![t] = "reap"]
  /\ Enqueue(t)
  /\ UNCHANGED <<status, owner, token, lapsed, retry, creating, requeue,
                 wkVars, net, history>>

ReapFail(t) ==
  /\ status[t] = "running" /\ tx[t] = "none"
  /\ retry[t] + 1 >= MaxRetries
  /\ retry' = [retry EXCEPT ![t] = @ + 1]
  /\ SetStatus(t, "failed")
  /\ UNCHANGED <<pushVars, wkVars, net, history, used>>

\* The commit of a transaction that pushed: every row of it becomes pending.
Commit(S) ==
  /\ status' = [t \in Task |-> IF t \in S THEN "pending" ELSE status[t]]
  /\ retry'  = [t \in Task |-> IF t \in S /\ tx[t] = "reap" THEN retry[t] + 1
                                                            ELSE retry[t]]
  /\ extra'  = [t \in Task |-> IF t \in S /\ tx[t] = "retry" THEN extra[t] + 1
                                                             ELSE extra[t]]
  /\ tx'     = [t \in Task |-> IF t \in S THEN "none" ELSE tx[t]]
  /\ UNCHANGED <<owner, token, lapsed, pushVars, wkVars, net, issued, accepted,
                 gaveUp, used>>

\* The process dies, or the database refuses the commit: the pushes stand.
Rollback(S) ==
  /\ Spend("fault")
  /\ tx' = [t \in Task |-> IF t \in S THEN "none" ELSE tx[t]]
  /\ UNCHANGED <<status, owner, token, lapsed, retry, pushVars, wkVars, net, history>>

\* The server dies between a commit and the push that was to follow it.
ForgetPush(t) ==
  /\ t \in creating \cup requeue
  /\ creating' = creating \ {t} /\ requeue' = requeue \ {t}
  /\ Spend("fault")
  /\ UNCHANGED <<rowVars, queue, wkVars, net, history>>

\* Redis restarts without its lists.
RedisLoss ==
  /\ Spend("fault")
  /\ queue' = [t \in Task |-> 0]
  /\ UNCHANGED <<rowVars, creating, requeue, wkVars, net, history>>

----------------------------------------------------------------------------
(* The leader's recovery scanner.                                          *)

\* Faulty variant: a recovered attempt is not counted.
RecoverUncounted(t) ==
  /\ status[t] = "running" /\ lapsed[t] /\ tx[t] = "none"
  /\ owner' = [owner EXCEPT ![t] = NoWorker]
  /\ token' = [token EXCEPT ![t] = 0]
  /\ lapsed' = [lapsed EXCEPT ![t] = FALSE]
  /\ status'  = [status EXCEPT ![t] = "pending"]
  /\ requeue' = requeue \cup {t}
  /\ UNCHANGED <<retry, tx, creating, queue, wkVars, net, history, used>>

\* Faulty variant: a task out of retries is left running.
RecoverOnlyRetries(t) ==
  /\ status[t] = "running" /\ lapsed[t] /\ tx[t] = "none" /\ retry[t] < MaxRetries
  /\ owner' = [owner EXCEPT ![t] = NoWorker]
  /\ token' = [token EXCEPT ![t] = 0]
  /\ lapsed' = [lapsed EXCEPT ![t] = FALSE]
  /\ status'  = [status EXCEPT ![t] = "pending"]
  /\ retry'   = [retry EXCEPT ![t] = @ + 1]
  /\ requeue' = requeue \cup {t}
  /\ UNCHANGED <<tx, creating, queue, wkVars, net, history, used>>

\* scan_and_recover_tasks, one row: committed first, queued afterwards.
Recover(t) ==
  /\ status[t] = "running" /\ lapsed[t] /\ tx[t] = "none"
  /\ owner' = [owner EXCEPT ![t] = NoWorker]
  /\ token' = [token EXCEPT ![t] = 0]
  /\ lapsed' = [lapsed EXCEPT ![t] = FALSE]
  /\ \/ /\ retry[t] < MaxRetries
        /\ status'  = [status EXCEPT ![t] = "pending"]
        /\ retry'   = [retry EXCEPT ![t] = @ + 1]
        /\ requeue' = requeue \cup {t}
     \/ /\ retry[t] >= MaxRetries
        /\ status' = [status EXCEPT ![t] = "failed"]
        /\ UNCHANGED <<retry, requeue>>
  /\ UNCHANGED <<tx, creating, queue, wkVars, net, history, used>>

PushRecovered(t) ==
  /\ t \in requeue
  /\ requeue' = requeue \ {t}
  /\ Enqueue(t)
  /\ UNCHANGED <<rowVars, creating, wkVars, net, history>>

\* Faulty variant: only tasks that were never retried are healed.
HealFresh(t) ==
  /\ status[t] = "pending" /\ queue[t] = 0 /\ t \notin Child /\ retry[t] = 0
  /\ queue' = [queue EXCEPT ![t] = 1]
  /\ UNCHANGED <<rowVars, creating, requeue, wkVars, net, history, used>>

\* scan_and_fix_missing_queue_tasks.  A task with relational parents is never
\* healed: `parent.status == 'completed'` compares an Enum member to a string.
Heal(t) ==
  /\ status[t] = "pending" /\ queue[t] = 0 /\ t \notin Child
  /\ queue' = [queue EXCEPT ![t] = 1]
  /\ UNCHANGED <<rowVars, creating, requeue, wkVars, net, history, used>>

\* Time passes: the lease runs out and nothing is heard for 120 seconds.
Lapse(t) ==
  /\ status[t] = "running" /\ ~lapsed[t]
  /\ lapsed' = [lapsed EXCEPT ![t] = TRUE]
  /\ UNCHANGED <<status, owner, token, retry, tx, pushVars, wkVars, net, history, used>>

\* ... as it must when no worker is left to renew it.
OrphanLapse(t) ==
  /\ \A w \in Worker : job[w] = t => held[w] # token[t]
  /\ Lapse(t)

----------------------------------------------------------------------------
(* Workers.                                                                *)

\* get_next_task: RPOP.
Pop(w, t) ==
  /\ pc[w] = "idle" /\ queue[t] > 0
  /\ queue' = [queue EXCEPT ![t] = @ - 1]
  /\ pc'  = [pc EXCEPT ![w] = "claiming"]
  /\ job' = [job EXCEPT ![w] = t]
  /\ UNCHANGED <<rowVars, creating, requeue, held, strikes, net, history, used>>

\* Faulty variant: a claim does not look at the status.
ClaimableAnyStatus(t) == status[t] \notin {"absent", "deleted"} /\ tx[t] = "none"

\* claim_task.
Claimable(t) == status[t] = "pending" /\ tx[t] = "none"

Claim(w) ==
  LET t == job[w] IN
  /\ pc[w] = "claiming" /\ Claimable(t)
  /\ Grant(t, w)
  /\ Execute(w, t, issued[t] + 1)
  /\ UNCHANGED <<pushVars, net, used>>

\* The claim is committed but its answer is lost: nobody executes the task.
ClaimLost(w) ==
  LET t == job[w] IN
  /\ pc[w] = "claiming" /\ Claimable(t)
  /\ Grant(t, w)
  /\ GoIdle(w)
  /\ Spend("fault")
  /\ UNCHANGED <<pushVars, net>>

\* Any other answer ends the attempt and the popped id is gone: a Response with
\* status 400 is falsy, so worker_loop's five-fold retry of a 400 never runs.
ClaimRefused(w) ==
  /\ pc[w] = "claiming" /\ ~Claimable(job[w])
  /\ GoIdle(w)
  /\ UNCHANGED <<rowVars, pushVars, net, history, used>>

\* get_next_task without Redis: POST /tasks/poll claims straight from the table.
PollFromDb(w, t) ==
  /\ pc[w] = "idle" /\ Claimable(t)
  /\ Spend("fault")
  /\ Grant(t, w)
  /\ Execute(w, t, issued[t] + 1)
  /\ UNCHANGED <<pushVars, net>>

\* LeaseRenewer.run, a renewal answered 200; it may be late, the server accepts
\* it as long as the row is still this worker's.
Renew(w) ==
  LET t == job[w] IN
  /\ pc[w] = "running" /\ strikes[w] < Strikes
  /\ Holds(w, held[w], t) /\ tx[t] = "none"
  /\ lapsed'  = [lapsed EXCEPT ![t] = FALSE]
  /\ strikes' = [strikes EXCEPT ![w] = 0]
  /\ UNCHANGED <<status, owner, token, retry, tx, pushVars, pc, job, held, net,
                 history, used>>

\* Any other answer, or none: one more failure.  A 409 is counted like the
\* rest (its Response is falsy too), it does not abort the run at once.
RenewFails(w) ==
  /\ pc[w] = "running" /\ strikes[w] < Strikes
  /\ strikes' = [strikes EXCEPT ![w] = @ + 1]
  /\ UNCHANGED <<rowVars, pushVars, pc, job, held, net, history, used>>

\* update_task_progress extends the lease as a renewal does.
Progress(w) ==
  LET t == job[w] IN
  /\ pc[w] = "running" /\ Holds(w, held[w], t) /\ tx[t] = "none"
  /\ lapsed' = [lapsed EXCEPT ![t] = FALSE]
  /\ UNCHANGED <<status, owner, token, retry, tx, pushVars, wkVars, net, history, used>>

\* worker_loop: the run ends and is reported, unless the renewer has aborted.
\* The request may outlive the worker's wait for it.
Finish(w, k) ==
  /\ pc[w] = "running" /\ strikes[w] < Strikes
  /\ net' = net \cup {[task |-> job[w], worker |-> w, token |-> held[w], kind |-> k]}
  /\ IF k = "paused" THEN Spend("pause") ELSE UNCHANGED used
  /\ GoIdle(w)
  /\ UNCHANGED <<rowVars, pushVars, history>>

Abort(w) ==
  /\ pc[w] = "running" /\ strikes[w] = Strikes
  /\ GoIdle(w)
  /\ UNCHANGED <<rowVars, pushVars, net, history, used>>

\* The process dies (or is told to stop) and a new one takes its place.
CrashWorker(w) ==
  /\ pc[w] # "idle" /\ Spend("fault")
  /\ GoIdle(w)
  /\ UNCHANGED <<rowVars, pushVars, net, history>>

----------------------------------------------------------------------------
(* update_task: a report reaches the server.  _api_request repeats it when  *)
(* the answer is an error or is lost, so it may be applied and still be     *)
(* in flight.                                                               *)

Take(m) ==
  \/ net' = net \ {m} /\ UNCHANGED used
  \/ UNCHANGED net /\ Spend("fault")

\* Faulty variant: a report is checked for its worker, not for its token.
CurrentOwner(m) == status[m.task] \in Leased /\ owner[m.task] = m.worker

Current(m) == Holds(m.worker, m.token, m.task)

Complete(m) ==
  LET t == m.task IN
  /\ m.kind = "completed" /\ Current(m) /\ tx[t] = "none"
  /\ Take(m)
  /\ SetStatus(t, "completed")
  /\ accepted' = [accepted EXCEPT ![t] = @ \cup {m.token}]
  /\ UNCHANGED <<retry, pushVars, wkVars, issued, extra, gaveUp>>

\* Faulty variant: a retried failure is not counted.
FailUncounted(m) ==
  LET t == m.task IN
  /\ m.kind \in {"failed", "permanent"} /\ Current(m) /\ tx[t] = "none"
  /\ Take(m)
  /\ SetStatus(t, IF retry[t] + 1 < MaxRetries THEN "blocked" ELSE "failed")
  /\ gaveUp' = [gaveUp EXCEPT ![t] = @ \/ m.kind = "permanent"]
  /\ UNCHANGED <<retry, pushVars, wkVars, issued, extra, accepted>>

\* "permanent" is worker_loop's own verdict (its keyword list, its "PERMANENT: "
\* prefix); the server's list does not know it and treats it as any failure.
Fail(m) ==
  LET t == m.task IN
  /\ m.kind \in {"failed", "permanent"} /\ Current(m) /\ tx[t] = "none"
  /\ Take(m)
  /\ retry' = [retry EXCEPT ![t] = @ + 1]
  /\ SetStatus(t, IF retry[t] + 1 < MaxRetries THEN "blocked" ELSE "failed")
  /\ gaveUp' = [gaveUp EXCEPT ![t] = @ \/ m.kind = "permanent"]
  /\ UNCHANGED <<pushVars, wkVars, issued, extra, accepted>>

\* A message the server itself recognises as permanent.
FailForGood(m) ==
  LET t == m.task IN
  /\ m.kind = "fatal" /\ Current(m) /\ tx[t] = "none"
  /\ Take(m)
  /\ retry' = [retry EXCEPT ![t] = MaxRetries]
  /\ SetStatus(t, "failed")
  /\ gaveUp' = [gaveUp EXCEPT ![t] = TRUE]
  /\ UNCHANGED <<pushVars, wkVars, issued, extra, accepted>>

\* The stale-update check covers completed and failed only: a pause is applied
\* to the row whatever its status and whoever holds its lease.
Pause(m) ==
  LET t == m.task IN
  /\ m.kind = "paused" /\ tx[t] = "none"
  /\ Take(m)
  /\ SetStatus(t, "paused")
  /\ extra' = [extra EXCEPT ![t] = @ + 1]
  /\ UNCHANGED <<retry, pushVars, wkVars, issued, accepted, gaveUp>>

RejectStale(m) ==
  /\ m.kind # "paused" /\ ~Current(m)
  /\ net' = net \ {m}
  /\ UNCHANGED <<rowVars, pushVars, wkVars, history, used>>

Drop(m) ==
  /\ net' = net \ {m} /\ Spend("fault")
  /\ UNCHANGED <<rowVars, pushVars, wkVars, history>>

\* cancel_task: its terminal-status guard compares an Enum member to strings
\* and never fires, so any task is cancelled.  The id is removed from Redis
\* before the commit, which may be refused.
Cancel(t) ==
  /\ status[t] \notin {"absent", "deleted"} /\ tx[t] = "none"
  /\ \/ Requested("cancel", t, 0) /\ SetStatus(t, "cancelled") /\ UNCHANGED retry
     \/ SpendWithFault("cancel") /\ queue' = [queue EXCEPT ![t] = 0] /\ UNCHANGED rowVars
  /\ UNCHANGED <<creating, requeue, wkVars, net, history>>

----------------------------------------------------------------------------

TaskStep(t) ==
  \/ Create(t) \/ Admit(t) \/ Overload(t) \/ Release(t) \/ Throttle(t)
  \/ Unblock(t) \/ UserRetry(t) \/ Reap(t) \/ ReapFail(t) \/ ForgetPush(t)
  \/ Recover(t) \/ PushRecovered(t) \/ Heal(t) \/ Lapse(t) \/ Cancel(t)

WorkerStep(w) ==
  \/ \E t \in Task : Pop(w, t) \/ PollFromDb(w, t)
  \/ Claim(w) \/ ClaimLost(w) \/ ClaimRefused(w)
  \/ Renew(w) \/ RenewFails(w) \/ Progress(w)
  \/ \E k \in Kinds : Finish(w, k)
  \/ Abort(w) \/ CrashWorker(w)

Answer(m) == Complete(m) \/ Fail(m) \/ FailForGood(m) \/ Pause(m) \/ RejectStale(m)

Next ==
  \/ \E t \in Task : TaskStep(t)
  \/ \E S \in Transactions : Commit(S) \/ Rollback(S)
  \/ RedisLoss
  \/ \E w \in Worker : WorkerStep(w)
  \/ \E m \in net : Answer(m) \/ Drop(m)

Spec == Init /\ [][Next]_vars

(* Fairness.  The scanners run every few seconds on the leader; a request  *)
(* that was started ends; a live worker takes work, and ends each run; the *)
(* clock runs for a lease nobody renews.  Nothing is assumed of creation,  *)
(* release, the reaper, the user, renewals and faults.                     *)
ScannerFairness ==
  \A t \in Task : WF_vars(Recover(t)) /\ WF_vars(PushRecovered(t)) /\ WF_vars(Heal(t))
                  /\ WF_vars(Unblock(t)) /\ WF_vars(OrphanLapse(t))
ServerFairness ==
  /\ \A t \in Task : WF_vars(Admit(t))
  /\ WF_vars(\E S \in Transactions : Commit(S))
  /\ WF_vars(\E m \in net : Answer(m))
WorkerFairness ==
  \A w \in Worker :
    /\ WF_vars(\E t \in Task : Pop(w, t))
    /\ WF_vars(Claim(w) \/ ClaimRefused(w))
    /\ WF_vars((\E k \in Kinds : Finish(w, k)) \/ Abort(w))

FairSpec == Spec /\ ScannerFairness /\ ServerFairness /\ WorkerFairness

----------------------------------------------------------------------------
(* Properties.                                                             *)

\* No row, run, report or completion carries a token that was not issued.
TokensIssued ==
  /\ \A t \in Task : token[t] \in {0, issued[t]} /\ accepted[t] \subseteq 1 .. issued[t]
  /\ \A w \in Worker : pc[w] = "running" => held[w] \in 1 .. issued[job[w]]
  /\ \A m \in net : m.token \in 1 .. issued[m.task]

\* A running task has an owner and the token of its latest claim.
RunningIsClaimed ==
  \A t \in Task : status[t] = "running" =>
    token[t] = issued[t] /\ issued[t] > 0 /\ owner[t] \in Worker

\* One claim is run by one worker, and not after it was reported.
OneRunPerClaim ==
  /\ \A v, w \in Worker :
       pc[v] = "running" /\ pc[w] = "running" /\ job[v] = job[w] /\ held[v] = held[w]
         => v = w
  /\ \A m \in net, w \in Worker :
       ~(pc[w] = "running" /\ job[w] = m.task /\ held[w] = m.token)

\* Fencing, as claim_task, renew_task_lease and update_task rely on it.
Fenced == TokensIssued /\ RunningIsClaimed /\ OneRunPerClaim

\* However reports are delayed, repeated or overtaken by a recovery, only the
\* latest claim of a task completes it, and only while it has the lease.
OnlyLatestClaimCompletes ==
  [][\A t \in Task : accepted'[t] # accepted[t] =>
       status[t] \in Leased /\ accepted'[t] = accepted[t] \cup {issued[t]}]_vars

\* "Retry logic verified with no duplicate task execution": a task is claimed
\* at most MaxRetries + 1 times, plus once for every user retry and every pause,
\* whatever mixture of failures, recoveries and reaps ended its runs.
AttemptBudget == \A t \in Task : issued[t] <= MaxRetries + 1 + extra[t]

\* A task completes at most once, plus once for every user retry and pause.
CompletionBudget == \A t \in Task : Cardinality(accepted[t]) <= 1 + extra[t]

\* Why the two budgets hold.  A row keeps the status that opened its
\* transaction; a task that may be claimed has paid for every earlier claim with
\* a retry, a user retry or a pause, and for every completion with one of the
\* last two.
Once(t, S) == IF status[t] \in S THEN 1 ELSE 0

LockedRows ==
  \A t \in Task :
    /\ tx[t] = "release" => status[t] = "waiting"
    /\ tx[t] = "unblock" => status[t] \in {"blocked", "paused"}
    /\ tx[t] = "retry"   => status[t] \in {"failed", "cancelled", "pending"}
    /\ tx[t] = "reap"    => status[t] = "running" /\ retry[t] + 1 < MaxRetries

AttemptsPaid ==
  \A t \in Task :
    LET paid == IF retry[t] <= MaxRetries THEN retry[t] ELSE MaxRetries
    IN  issued[t] <= paid + extra[t] + Once(t, {"running"} \cup Settled)

CompletionsPaid ==
  \A t \in Task : /\ IsFiniteSet(accepted[t])
                  /\ Cardinality(accepted[t]) <= extra[t] + Once(t, Settled)

Accounts == LockedRows /\ AttemptsPaid /\ CompletionsPaid

\* update_task's list of permanent messages: a failure on it is not retried, not
\* even by a scanner.  (Kinds without "permanent": the list lacks the prefix the
\* worker gives its own verdicts, and with them this fails.)
PermanentIsFinal == \A t \in Task : gaveUp[t] => status[t] = "failed"

\* The state diagram of docs/architecture_documentation.md: no settled task is
\* ever moved again, by whatever scanner, transaction or delayed report.  (It holds
\* without cancels, user retries and pauses: the handlers of the first and the last do
\* not look, and what those then cost is in CompletionBudget.)
SettledIsFinal ==
  [][\A t \in Task : status[t] \in Settled => status'[t] = status[t]]_vars

\* Every task a worker could take is settled in the end, whatever is lost or
\* crashes (within the bounds) on the way: recovery, heal and backoff suffice.
EventuallySettled ==
  \A t \in Task : status[t] \in {"pending", "running", "blocked", "paused"}
                   ~> status[t] \in Settled

\* The docstring of scan_and_fix_missing_queue_tasks: a pending task missing
\* from its queue is queued again.
MissingIsHealed ==
  \A t \in Task : status[t] = "pending" /\ queue[t] = 0
                   ~> queue[t] > 0 \/ status[t] # "pending"

\* The protocol seen as FencedTask: a running task is held by its token.  It is
\* an implementation as long as no worker pauses a task (Kinds without "paused").
Abs == INSTANCE FencedTask WITH
  epoch  <- issued,
  holder <- [t \in Task |-> IF status[t] = "running" THEN token[t] ELSE 0],
  wins   <- accepted

ImplementsFencedTask == Abs!Spec
=============================================================================
