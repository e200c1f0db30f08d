---------------------------- MODULE IndexingQueue ----------------------------
(***************************************************************************)
(* The indexing jobs of the platform runtime: a table of documents and one *)
(* of jobs in SQLite, the thread that works on them, the requests that     *)
(* submit them and the restart that picks up what was under way            *)
(* (backend/platform: scheduler/sqlite_queue.py, scheduler/retry_worker.py,*)
(* services/document_service.py, api/upload.py).                           *)
(*                                                                         *)
(* Each statement is committed before the next: a step is a statement.     *)
(* Requests run one after another on the event loop, in between the steps  *)
(* of the thread.  A document has one job, whose id is derived from its    *)
(* own.  created_at counts seconds, so which of several jobs is the oldest *)
(* is left open.  Heartbeats, events and the audit log, which raise        *)
(* nothing, are left out.                                                  *)
(***************************************************************************)
EXTENDS Naturals

CONSTANTS
  Document,
  NoDocument,
  MaxAttempts,   \* max_attempts of a job (3)
  MaxSubmits,    \* bound: jobs submitted
  MaxStops,      \* bound: ends of the process
  MaxErrors      \* bound: statements that raise

IndexingAssumption ==
  /\ NoDocument \notin Document /\ MaxAttempts \in Nat \ {0}
  /\ MaxSubmits \in Nat /\ MaxStops \in Nat /\ MaxErrors \in Nat

VARIABLES
  state,      \* documents: state, "absent" without a row
  job,        \* job_queue: [status, attempts], "absent" without a row
  worker,     \* the thread: [at, of, read]: its next statement, the document of its job, and
              \* the attempts it read
  request,    \* the document whose start_indexing has passed the lock
  submits, stops, errors

vars  == <<state, job, worker, request, submits, stops, errors>>

Open    == {"queued", "running"}
Step    == {"down", "start", "idle", "locking", "marking", "indexing", "storing", "completing", "failing", "checking", "retrying"}
Without == {"down", "start", "idle"}     \* where the thread has no job

\* A thread at a statement of no job.
At(s) == [at |-> s, of |-> NoDocument, read |-> 0]

TypeOK ==
  /\ state \in [Document -> {"absent", "UPLOADED", "INDEXING", "INDEXED", "FAILED"}]
  /\ job \in [Document -> [status : Open \cup {"absent", "completed", "failed"}, attempts : Nat]]
  /\ worker \in [at : Step, of : Document \cup {NoDocument}, read : Nat]
  /\ worker.of = NoDocument <=> worker.at \in Without
  /\ request \in Document \cup {NoDocument}
  /\ submits \in 0 .. MaxSubmits /\ stops \in 0 .. MaxStops /\ errors \in 0 .. MaxErrors

Init ==
  /\ state = [d \in Document |-> "absent"]
  /\ job = [d \in Document |-> [status |-> "absent", attempts |-> 0]]
  /\ worker = At("start") /\ request = NoDocument
  /\ submits = 0 /\ stops = 0 /\ errors = 0

----------------------------------------------------------------------------
(* Requests.                                                               *)

Up == worker.at # "down"

upload_document(d) ==
  /\ Up /\ request = NoDocument /\ state[d] = "absent"
  /\ state' = [state EXCEPT ![d] = "UPLOADED"]
  /\ UNCHANGED <<job, worker, request, submits, stops, errors>>

\* check_and_lock_document looks, and locks nothing.
Free(d) == state[d] \notin {"absent", "INDEXING"}

start_indexing(d) ==
  /\ Up /\ request = NoDocument /\ Free(d) /\ submits < MaxSubmits
  /\ request' = d /\ submits' = submits + 1
  /\ UNCHANGED <<state, job, worker, stops, errors>>

\* A job that is there already starts over, whatever its status.
enqueue(d) ==
  /\ request = d
  /\ job' = [job EXCEPT ![d] = [status |-> "queued", attempts |-> 0]]
  /\ request' = NoDocument
  /\ UNCHANGED <<state, worker, submits, stops, errors>>

----------------------------------------------------------------------------
(* The thread.                                                             *)

Goto(s) == worker' = [worker EXCEPT !.at = s]
Quiet   == UNCHANGED <<request, submits, stops, errors>>

\* Faulty variant: what was under way is not picked up.
NotRecovered(d) == job[d]

\* The job of a document after a restart.
Recovered(d) == IF job[d].status = "running" THEN [job[d] EXCEPT !.status = "queued"] ELSE job[d]

recover_running_jobs_on_restart ==
  /\ worker.at = "start" /\ worker' = At("idle")
  /\ job' = [d \in Document |-> Recovered(d)]
  /\ UNCHANGED state /\ Quiet

\* Faulty variant: a job that was tried before is not tried again.
ClaimableFresh(d) == job[d].status = "queued" /\ job[d].attempts = 0

Claimable(d) ==
  \/ job[d].status = "queued"
  \/ job[d].status = "failed" /\ job[d].attempts < MaxAttempts

\* dequeue: the job is read, then locked by its number alone.
SelectJob(d) ==
  /\ worker.at = "idle" /\ Claimable(d)
  /\ worker' = [at |-> "locking", of |-> d, read |-> job[d].attempts]
  /\ UNCHANGED <<state, job>> /\ Quiet

\* Nothing is to be done for a second.
Sleep == worker.at = "idle" /\ (\A d \in Document : ~Claimable(d)) /\ UNCHANGED vars

LockJob ==
  /\ worker.at = "locking" /\ Goto("marking")
  /\ job' = [job EXCEPT ![worker.of] = [status |-> "running", attempts |-> worker.read + 1]]
  /\ UNCHANGED state /\ Quiet

\* update_state(doc_id, ...).
Mark(s) == state' = [state EXCEPT ![worker.of] = s] /\ UNCHANGED job

MarkIndexing == worker.at = "marking" /\ Goto("indexing") /\ Mark("INDEXING") /\ Quiet

\* run_indexing succeeds or raises.
RunIndexing ==
  /\ worker.at = "indexing" /\ \E s \in {"storing", "failing"} : Goto(s)
  /\ UNCHANGED <<state, job>> /\ Quiet

MarkIndexed == worker.at = "storing" /\ Goto("completing") /\ Mark("INDEXED") /\ Quiet

SetStatus(s) == job' = [job EXCEPT ![worker.of].status = s] /\ UNCHANGED state

complete ==
  /\ worker.at = "completing" /\ worker' = At("idle")
  /\ SetStatus("completed") /\ Quiet

MarkFailed == worker.at = "failing" /\ Goto("checking") /\ Mark("FAILED") /\ Quiet

AllTried(n) == n >= MaxAttempts

\* fail: the attempts are read, then the status is written.
CheckAttempts ==
  /\ worker.at = "checking"
  /\ worker' = [worker EXCEPT !.at = "retrying", !.read = job[worker.of].attempts]
  /\ UNCHANGED <<state, job>> /\ Quiet

RetryOrFail ==
  /\ worker.at = "retrying" /\ worker' = At("idle")
  /\ SetStatus(IF AllTried(worker.read) THEN "failed" ELSE "queued") /\ Quiet

----------------------------------------------------------------------------
(* Errors and ends of the process.                                         *)

\* A statement raises: inside the try of execute_indexing_job the document is marked as
\* failed, elsewhere the loop goes on without the job.
Raises ==
  /\ worker.at \notin {"down", "idle", "indexing"} /\ errors < MaxErrors
  /\ errors' = errors + 1
  /\ worker' = IF worker.at \in {"storing", "completing"} THEN [worker EXCEPT !.at = "failing"] ELSE At("idle")
  /\ UNCHANGED <<state, job, request, submits, stops>>

\* The process ends, in a crash or when stop_worker_thread has waited for its 3 seconds.
Stop ==
  /\ Up /\ stops < MaxStops /\ stops' = stops + 1
  /\ worker' = At("down") /\ request' = NoDocument
  /\ UNCHANGED <<state, job, submits, errors>>

Start ==
  /\ worker.at = "down" /\ worker' = At("start")
  /\ UNCHANGED <<state, job, request, submits, stops, errors>>

Work ==
  \/ recover_running_jobs_on_restart \/ LockJob \/ MarkIndexing \/ RunIndexing
  \/ MarkIndexed \/ complete \/ MarkFailed \/ CheckAttempts \/ RetryOrFail
  \/ \E d \in Document : SelectJob(d)

Next ==
  \/ \E d \in Document : upload_document(d) \/ start_indexing(d) \/ enqueue(d)
  \/ Work \/ Sleep \/ Raises \/ Stop \/ Start

Spec == Init /\ [][Next]_vars

\* Fairness: the thread goes on, a process that ended is started again.
FairSpec == Spec /\ WF_vars(Work) /\ WF_vars(Start)

----------------------------------------------------------------------------
Busy(d) == worker.of = d

\* A job that is running and that no thread works on, until the next start.
Abandoned(d) == job[d].status = "running" /\ ~Busy(d) /\ worker.at = "idle"

\* What the two tables say of a document fits together between any two statements, whatever
\* is submitted meanwhile and wherever the process ends: a document is locked against
\* submissions only while it has a job that will unlock it, and a job that has ended says of
\* its document what its last run found (execute_indexing_job, start_indexing).
TablesAgree ==
  \A d \in Document :
    /\ state[d] = "INDEXING" => job[d].status \in Open
    /\ job[d].status = "completed" => state[d] = "INDEXED"
    /\ job[d].status = "failed" => state[d] = "FAILED"

\* A job is tried max_attempts times since it was last submitted, and once more for every end
\* of the process: restarts are the one way round max_attempts
\* (recover_running_jobs_on_restart, fail).
AttemptsPaid == \A d \in Document : job[d].attempts <= MaxAttempts + stops

\* Nothing but a statement that raised leaves a job running that no thread works on.
AbandonedByError == (\E d \in Document : Abandoned(d)) => errors > 0

JobsAccounted == TablesAgree /\ AttemptsPaid /\ AbandonedByError

\* Again and again no job is under way but those an error made the thread abandon: every
\* job submitted ends (worker_loop, recover_running_jobs_on_restart).
JobsEnd == []<>(\A d \in Document : job[d].status \in Open => Abandoned(d))
=============================================================================
