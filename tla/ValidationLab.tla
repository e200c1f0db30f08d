---------------------------- MODULE ValidationLab ----------------------------
(***************************************************************************)
(* The laboratory of the operators: the runner of the test suites, the     *)
(* chaos actions and the queue switches with their dialog, and the ledger  *)
(* of what was done (validation/useValidation.js, SubprocessRunner.jsx,    *)
(* ChaosLab.jsx, ValidationLab.js), with the end points it calls           *)
(* (backend/app.py).                                                       *)
(*                                                                         *)
(* A request is served at one moment and answered at a later one; answers  *)
(* overtake each other.  What a chaos action does to the cluster is the    *)
(* coordination modules' business: here it is accepted or refused.  A      *)
(* test's log lines travel with its status and are left out, as is the     *)
(* validation check, which is loaded anew now and then and fills a list.   *)
(***************************************************************************)
EXTENDS Naturals, FiniteSets

CONSTANTS
  Test,         \* the suites; the first shown is First
  First,
  Queue,        \* the queues with a switch
  Chaos,        \* CHAOS_ACTIONS
  MaxRequests,  \* bound: requests under way
  MaxUses,      \* bound: tests started and dialogs confirmed
  MaxMishaps     \* bound: requests that fail

LabAssumption ==
  First \in Test /\ MaxRequests \in Nat /\ MaxUses \in Nat /\ MaxMishaps \in Nat

VARIABLES
  active,         \* ACTIVE_TEST_RUNS: the status of each suite
  paused,         \* scaleflow:paused_queues
  selectedTest, testStatus, isRunningTest,
  pausedQueues,   \* as last loaded
  confirmState,   \* what the open dialog is about to do: <<kind, of>>, or <<>>
  requests,       \* under way, in slots: <<kind, of, answer>>
  ledger,         \* operationsLog, counted: chaos actions begun and ended
  uses, mishaps

vars == <<active, paused, selectedTest, testStatus, isRunningTest, pausedQueues, confirmState,
          requests, ledger, uses, mishaps>>
server == <<active, paused>>
runner == <<selectedTest, testStatus, isRunningTest>>

Slot   == 1 .. MaxRequests
Kind   == {"run", "poll", "pause", "resume", "chaos", "queues"}
Status == {"idle", "running", "success", "failed"}
Vacant == <<>>
Unread  == <<>>      \* not served yet
Refused == <<"no">>
Fine(x) == <<"yes", x>>

Answer(kind) ==
  {Unread, Refused} \cup {Fine(x) : x \in CASE kind = "poll" -> Status [] kind = "queues" -> SUBSET Queue [] OTHER -> {0}}

Of(kind) ==
  CASE kind \in {"run", "poll"} -> Test [] kind \in {"pause", "resume"} -> Queue [] kind = "chaos" -> Chaos [] OTHER -> {"all"}

Request == UNION {{k} \X Of(k) \X Answer(k) : k \in Kind}

TypeOK ==
  /\ active \in [Test -> Status] /\ paused \subseteq Queue
  /\ selectedTest \in Test /\ testStatus \in Status /\ isRunningTest \in BOOLEAN
  /\ pausedQueues \subseteq Queue
  /\ confirmState \in {<<>>} \cup {"chaos"} \X Chaos \cup {"pause", "resume"} \X Queue
  /\ requests \in [Slot -> {Vacant} \cup Request]
  /\ ledger \in [begun : 0 .. MaxUses, ended : 0 .. MaxUses]
  /\ uses \in 0 .. MaxUses /\ mishaps \in 0 .. MaxMishaps

\* The page is mounted: the queues are being loaded.
Init ==
  /\ active = [t \in Test |-> "idle"] /\ paused \in SUBSET Queue
  /\ selectedTest = First /\ testStatus = "idle" /\ isRunningTest = FALSE
  /\ pausedQueues = {} /\ confirmState = <<>>
  /\ requests = [i \in Slot |-> IF i = 1 THEN <<"queues", "all", Unread>> ELSE Vacant]
  /\ ledger = [begun |-> 0, ended |-> 0] /\ uses = 0 /\ mishaps = 0

----------------------------------------------------------------------------
(* Requests.                                                               *)

\* A request is sent in the first slot that is vacant.
Send(kind, of) ==
  LET free == {i \in Slot : requests[i] = Vacant}
  IN \E i \in free : (\A j \in free : i <= j) /\ requests' = [requests EXCEPT ![i] = <<kind, of, Unread>>]

Reply(i, answer) == requests' = [requests EXCEPT ![i] = <<@[1], @[2], answer>>]

\* A suite that runs already is not started once more.
run_test_endpoint(i) ==
  /\ requests[i][1] = "run"
  /\ active' = [active EXCEPT ![requests[i][2]] = "running"] /\ UNCHANGED paused
  /\ Reply(i, Fine(0))

get_test_status_endpoint(i) ==
  requests[i][1] = "poll" /\ Reply(i, Fine(active[requests[i][2]])) /\ UNCHANGED server

pause_queue_endpoint(i) ==
  requests[i][1] = "pause" /\ paused' = paused \cup {requests[i][2]} /\ Reply(i, Fine(0)) /\ UNCHANGED active

resume_queue_endpoint(i) ==
  requests[i][1] = "resume" /\ paused' = paused \ {requests[i][2]} /\ Reply(i, Fine(0)) /\ UNCHANGED active

get_paused_queues_endpoint(i) ==
  requests[i][1] = "queues" /\ Reply(i, Fine(paused)) /\ UNCHANGED server

Served(i) ==
  /\ requests[i] # Vacant /\ requests[i][3] = Unread
  /\ \/ run_test_endpoint(i) \/ get_test_status_endpoint(i)
     \/ pause_queue_endpoint(i) \/ resume_queue_endpoint(i) \/ get_paused_queues_endpoint(i)
     \/ requests[i][1] = "chaos" /\ Reply(i, Fine(0)) /\ UNCHANGED server
  /\ UNCHANGED <<runner, pausedQueues, confirmState, ledger, uses, mishaps>>

\* A request gets lost, or its answer does.
Fails(i) ==
  /\ requests[i] # Vacant /\ requests[i][3] # Refused
  /\ mishaps < MaxMishaps /\ mishaps' = mishaps + 1
  /\ Reply(i, Refused)
  /\ UNCHANGED <<server, runner, pausedQueues, confirmState, ledger, uses>>

\* The process of a suite ends.
Ends(t) ==
  /\ active[t] = "running"
  /\ \E status \in {"success", "failed"} : active' = [active EXCEPT ![t] = status]
  /\ UNCHANGED <<paused, runner, pausedQueues, confirmState, requests, ledger, uses, mishaps>>

----------------------------------------------------------------------------
(* The page.                                                               *)

\* The dialog covers the page.
Uncovered == confirmState = <<>>
Counted   == uses < MaxUses /\ uses' = uses + 1

\* "Execute Test" and the choice of a suite are disabled while one runs.
Startable == Uncovered /\ ~isRunningTest

runTest ==
  /\ Startable /\ Counted
  /\ isRunningTest' = TRUE /\ testStatus' = "running" /\ Send("run", selectedTest)
  /\ UNCHANGED <<server, selectedTest, pausedQueues, confirmState, ledger, mishaps>>

onTestChange(t) ==
  /\ Startable /\ UNCHANGED uses /\ selectedTest' = t
  /\ UNCHANGED <<server, testStatus, isRunningTest, pausedQueues, confirmState, requests, ledger, mishaps>>

\* The tab "Subprocess Suite" chooses the first suite, whether or not one runs.
ResultsTab ==
  /\ Uncovered /\ UNCHANGED uses /\ selectedTest' = First
  /\ UNCHANGED <<server, testStatus, isRunningTest, pausedQueues, confirmState, requests, ledger, mishaps>>

\* The interval of 2 s asks for the suite selected, whether or not the last poll was answered.
pollTest ==
  /\ isRunningTest /\ Send("poll", selectedTest)
  /\ UNCHANGED <<server, runner, pausedQueues, confirmState, ledger, uses, mishaps>>

executeChaosAction(a) ==
  /\ Uncovered /\ UNCHANGED uses /\ confirmState' = <<"chaos", a>>
  /\ UNCHANGED <<server, runner, pausedQueues, requests, ledger, mishaps>>

\* The switch of a queue, by the queues last loaded.
Switch(q) == IF q \in pausedQueues THEN "resume" ELSE "pause"

toggleQueueState(q) ==
  /\ Uncovered /\ UNCHANGED uses /\ confirmState' = <<Switch(q), q>>
  /\ UNCHANGED <<server, runner, pausedQueues, requests, ledger, mishaps>>

onCancel ==
  /\ confirmState # <<>> /\ confirmState' = <<>>
  /\ UNCHANGED <<server, runner, pausedQueues, requests, ledger, uses, mishaps>>

onConfirm ==
  /\ confirmState # <<>> /\ confirmState' = <<>>
  /\ Counted /\ Send(confirmState[1], confirmState[2])
  /\ ledger' = IF confirmState[1] = "chaos" THEN [ledger EXCEPT !.begun = @ + 1] ELSE ledger
  /\ UNCHANGED <<server, runner, pausedQueues, mishaps>>

----------------------------------------------------------------------------
(* Answers.                                                                *)

Done(i) == requests' = [requests EXCEPT ![i] = Vacant]

RunAnswered(i, fine) ==
  /\ Done(i)
  /\ IF fine THEN UNCHANGED runner
     ELSE isRunningTest' = FALSE /\ testStatus' = "failed" /\ UNCHANGED selectedTest
  /\ UNCHANGED <<pausedQueues, ledger>>

\* Nothing compares the answer with the suite that runs by now, or with whether one does.
PollAnswered(i, answer) ==
  /\ Done(i)
  /\ testStatus' = IF answer = Refused THEN testStatus ELSE answer[2]
  /\ isRunningTest' = (isRunningTest /\ answer \in {Fine("running"), Refused})
  /\ UNCHANGED <<selectedTest, pausedQueues, ledger>>

ChaosAnswered(i) ==
  /\ Done(i) /\ ledger' = [ledger EXCEPT !.ended = @ + 1]
  /\ UNCHANGED <<runner, pausedQueues>>

\* After a switch the queues are loaded anew, in the slot of its request.
SwitchAnswered(i, fine) ==
  /\ IF fine THEN requests' = [requests EXCEPT ![i] = <<"queues", "all", Unread>>] ELSE Done(i)
  /\ UNCHANGED <<runner, pausedQueues, ledger>>

QueuesAnswered(i, answer) ==
  /\ Done(i)
  /\ pausedQueues' = IF answer = Refused THEN pausedQueues ELSE answer[2]
  /\ UNCHANGED <<runner, ledger>>

Answered(i) ==
  /\ requests[i] # Vacant /\ requests[i][3] # Unread
  /\ LET kind == requests[i][1]  answer == requests[i][3]  fine == answer # Refused
     IN \/ kind = "run" /\ RunAnswered(i, fine)
        \/ kind = "poll" /\ PollAnswered(i, answer)
        \/ kind = "chaos" /\ ChaosAnswered(i)
        \/ kind \in {"pause", "resume"} /\ SwitchAnswered(i, fine)
        \/ kind = "queues" /\ QueuesAnswered(i, answer)
  /\ UNCHANGED <<server, confirmState, uses, mishaps>>

Next ==
  \/ \E i \in Slot : Served(i) \/ Fails(i) \/ Answered(i)
  \/ \E t \in Test : Ends(t) \/ onTestChange(t)
  \/ runTest \/ ResultsTab \/ pollTest \/ onCancel \/ onConfirm
  \/ \E a \in Chaos : executeChaosAction(a)
  \/ \E q \in Queue : toggleQueueState(q)

Spec == Init /\ [][Next]_vars

\* Fairness: requests are served and answered, suites end, and the interval fires whenever
\* the bound on requests lets it.
Fairness ==
  /\ \A i \in Slot : WF_vars(Served(i) \/ Answered(i))
  /\ WF_vars(\E t \in Test : Ends(t)) /\ SF_vars(pollTest)

FairSpec == Spec /\ Fairness

----------------------------------------------------------------------------
\* The ledger says of every chaos action how it ended, once, however requests fail and
\* dialogs follow each other (executeChaosAction): what has no end is under way.
LedgerTells ==
  ledger.begun - ledger.ended = Cardinality({i \in Slot : requests[i] # Vacant /\ requests[i][1] = "chaos"})

\* The page is not locked for ever by a suite: again and again none runs, whichever suite
\* is polled and whatever answers are late or lost (pollTest).
RunsEnd == []<>~isRunningTest
=============================================================================
