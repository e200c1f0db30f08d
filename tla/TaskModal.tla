------------------------------- MODULE TaskModal -------------------------------
(***************************************************************************)
(* The dialog of one task: its details are fetched when it is opened and   *)
(* after each retry or cancellation, and nothing fetched or sent for a     *)
(* task is cancelled when another is opened (components/TaskModal.js; the  *)
(* component stays mounted, App.js opens it by selectedTaskId).            *)
(*                                                                         *)
(* Progress, payload and logs are shown as they come and left out.  At the *)
(* server a task moves in any way the lifecycle allows a reader to see.    *)
(***************************************************************************)
EXTENDS Naturals, Sequences, FiniteSets

CONSTANTS
  Task,
  MaxCountdown,  \* seconds of the longest rate-limit pause
  MaxFetches,    \* bound: fetches under way
  MaxPosts,      \* bound: retries and cancellations under way
  MaxMoves       \* bound: changes of status at the server

Null    == "none"

DialogAssumption ==
  Null \notin Task /\ MaxCountdown \in Nat /\ MaxFetches \in Nat /\ MaxPosts \in Nat /\ MaxMoves \in Nat

Waiting == {"pending", "stale"}    \* pending: in Redis, and not in it
Ended   == {"failed", "cancelled", "completed"}
Status  == Waiting \cup Ended \cup {"running", "paused_rate_limit"}

VARIABLES
  status,     \* of each task, at the server
  moves,
  taskId,
  details,    \* <<task, status>>, <<>> before any
  loading,
  error,
  countdown,  \* null: Null
  fetches,    \* under way: a bag as a sequence, of <<task, status when it was asked>>
  posts       \* under way: [op, task, force]

vars == <<status, moves, taskId, details, loading, error, countdown, fetches, posts>>

Post == [op : {"retry", "cancel"}, task : Task, force : BOOLEAN]

TypeOK ==
  /\ status \in [Task -> Status] /\ moves \in 0 .. MaxMoves
  /\ taskId \in Task \cup {Null} /\ details \in (Task \X Status) \cup {<<>>}
  /\ loading \in BOOLEAN /\ error \in BOOLEAN
  /\ countdown \in {<<>>} \cup {<<n>> : n \in 0 .. MaxCountdown}
  /\ (countdown # <<>>) = (details # <<>> /\ details[2] = "paused_rate_limit")
  /\ fetches \in Seq(Task \X Status) /\ Len(fetches) <= MaxFetches
  /\ posts \subseteq Post

Init ==
  /\ status \in [Task -> {"stale", "running", "failed"}] /\ moves = 0
  /\ taskId = Null /\ details = <<>> /\ loading = TRUE /\ error = FALSE /\ countdown = <<>>
  /\ fetches = <<>> /\ posts = {}

Without(s, i) == SubSeq(s, 1, i - 1) \o SubSeq(s, i + 1, Len(s))

----------------------------------------------------------------------------
(* The dialog.                                                             *)

\* What it renders: the details, once there are any, whatever else went wrong.
Body ==
  IF taskId = Null THEN "closed"
  ELSE IF loading THEN "loading"
  ELSE IF error /\ details = <<>> THEN "error"
  ELSE "details"

Fields == IF Body = "details" THEN details ELSE <<>>

\* The banner over a pause, and the seconds it counts.
Pause == IF Fields # <<>> /\ Fields[2] = "paused_rate_limit" THEN countdown ELSE <<>>

\* Requeue, retry and cancel buttons, by the status shown.
Offered ==
  LET shown == IF Fields = <<>> THEN Null ELSE Fields[2]
  IN (IF shown \in {"stale", "failed", "cancelled"} THEN {"retry"} ELSE {})
     \cup (IF shown \in Waiting \cup {"running"} THEN {"cancel"} ELSE {})

----------------------------------------------------------------------------
(* Fetching.                                                               *)

Fetch(task) ==
  Len(fetches) < MaxFetches /\ fetches' = Append(fetches, <<task, status[task]>>)

Open(task) ==
  /\ taskId' = task /\ task # taskId
  /\ Fetch(task) /\ loading' = TRUE
  /\ UNCHANGED <<status, moves, details, error, countdown, posts>>

\* All but taskId stays for the next opening.
Close ==
  /\ taskId # Null /\ taskId' = Null
  /\ UNCHANGED <<status, moves, details, loading, error, countdown, fetches, posts>>

\* Whichever task is open by now.
FetchAnswered(i) ==
  /\ i \in DOMAIN fetches /\ fetches' = Without(fetches, i)
  /\ details' = fetches[i] /\ error' = FALSE /\ loading' = FALSE
  /\ \/ fetches[i][2] = "paused_rate_limit" /\ \E n \in 0 .. MaxCountdown : countdown' = <<n>>
     \/ fetches[i][2] # "paused_rate_limit" /\ countdown' = <<>>
  /\ UNCHANGED <<status, moves, taskId, posts>>

\* Faulty variant: a failed fetch leaves no error behind.
FetchFailsQuietly(i) ==
  /\ i \in DOMAIN fetches /\ fetches' = Without(fetches, i)
  /\ loading' = FALSE
  /\ UNCHANGED <<status, moves, taskId, details, error, countdown, posts>>

FetchFails(i) ==
  /\ i \in DOMAIN fetches /\ fetches' = Without(fetches, i)
  /\ error' = TRUE /\ loading' = FALSE
  /\ UNCHANGED <<status, moves, taskId, details, countdown, posts>>

Second ==
  /\ countdown # <<>> /\ countdown # <<0>>
  /\ countdown' = <<countdown[1] - 1>>
  /\ UNCHANGED <<status, moves, taskId, details, loading, error, fetches, posts>>

----------------------------------------------------------------------------
(* Retrying and cancelling.                                                *)

Send(post) ==
  /\ Cardinality(posts) < MaxPosts /\ posts' = posts \cup {post}
  /\ UNCHANGED <<status, moves, taskId, details, loading, error, countdown, fetches>>

\* Whether to force is read off the details shown, the task off the dialog.
handleRetry(exhausted) ==
  /\ "retry" \in Offered
  /\ Send([op |-> "retry", task |-> taskId, force |-> exhausted])

handleCancel ==
  /\ "cancel" \in Offered
  /\ Send([op |-> "cancel", task |-> taskId, force |-> FALSE])

After(op) == IF op = "retry" THEN "pending" ELSE "cancelled"

\* Then the details are fetched, of the task the button was rendered for.
PostAnswered(post) ==
  /\ post \in posts /\ posts' = posts \ {post}
  /\ status' = [status EXCEPT ![post.task] = IF @ = "completed" THEN @ ELSE After(post.op)]
  /\ Len(fetches) < MaxFetches /\ fetches' = Append(fetches, <<post.task, status'[post.task]>>)
  /\ loading' = TRUE
  /\ UNCHANGED <<moves, taskId, details, error, countdown>>

PostFails(post) ==
  /\ post \in posts /\ posts' = posts \ {post}
  /\ error' = TRUE
  /\ UNCHANGED <<status, moves, taskId, details, loading, countdown, fetches>>

Move(task) ==
  /\ moves < MaxMoves /\ moves' = moves + 1
  /\ \E s \in {"running", "paused_rate_limit", "failed", "completed"} : status' = [status EXCEPT ![task] = s]
  /\ UNCHANGED <<taskId, details, loading, error, countdown, fetches, posts>>

Next ==
  \/ \E task \in Task : Open(task) \/ Move(task)
  \/ Close
  \/ \E i \in 1 .. MaxFetches : FetchAnswered(i) \/ FetchFails(i)
  \/ Second
  \/ (\E exhausted \in BOOLEAN : handleRetry(exhausted)) \/ handleCancel
  \/ \E post \in posts : PostAnswered(post) \/ PostFails(post)

Spec == Init /\ [][Next]_vars

----------------------------------------------------------------------------
\* The dialog never has to draw details it has not got, in whatever order the fetches of
\* several tasks, retries and closings end: it reads details.status unguarded once it is
\* neither loading nor in error (TaskModal.js:91-109).
DetailsAreThere == Body = "details" => details # <<>>

\* ... and it never waits for a fetch that is not under way, though all fetches share one
\* loading flag (TaskModal.js:36-47).
LoadingIsFetched == taskId # Null /\ loading => fetches # <<>>

\* The details shown are of the task that is selected ("Selected Task Details Modal",
\* App.js:246; the dialog's title names it, TaskModal.js:87).  The code does not keep
\* this: a late answer for the task before is shown under the new one.
DetailsAreOfTask == Body = "details" => details[1] = taskId

=============================================================================
