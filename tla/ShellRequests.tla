---------------------------- MODULE ShellRequests ----------------------------
(***************************************************************************)
(* What the frame of the client asks of the server while it is used: the   *)
(* status of the selected pipeline every 3 s, the global search on every   *)
(* key, the integration tests (App.js, layout/AppShell.jsx).  Answers      *)
(* arrive in any order.                                                    *)
(***************************************************************************)
EXTENDS Naturals, Sequences, FiniteSets

CONSTANTS
  Pipeline,
  Query,       \* search texts of two characters or more
  MaxAsks,     \* bound: polls and searches under way
  MaxRuns      \* bound: test runs under way

RequestsAssumption == MaxAsks \in Nat /\ MaxRuns \in Nat

Null   == "none"
Status == {"running", "completed"}

VARIABLES
  status,     \* of each pipeline, at the server
  selected,   \* selectedPipelineId
  details,    \* activePipelineData: <<pipeline, status>>
  polls,      \* answers on their way: a bag as a sequence, of <<pipeline, status when asked>>
  typed,      \* searchQuery; Null: less than two characters
  found,      \* searchResults: the query they are for
  searches,   \* searches under way, likewise
  runs,       \* test runs under way
  testing,
  results,    \* testResults
  shown       \* showTestModal

vars == <<status, selected, details, polls, typed, found, searches, runs, testing, results, shown>>

panel  == <<status, selected, details, polls>>
search == <<typed, found, searches>>
tests  == <<runs, testing, results, shown>>

Details == Pipeline \X Status

TypeOK ==
  /\ status \in [Pipeline -> Status] /\ selected \in Pipeline \cup {Null}
  /\ details \in Details \cup {<<>>}
  /\ polls \in Seq(Details) /\ searches \in Seq(Query)
  /\ typed \in Query \cup {Null} /\ found \in Query \cup {Null}
  /\ Len(polls) <= MaxAsks /\ Len(searches) <= MaxAsks /\ runs \in 0 .. MaxRuns
  /\ testing \in BOOLEAN /\ shown \in BOOLEAN /\ (testing => runs > 0)
  /\ results \in {Null, "passed", "failed"}

Init ==
  /\ status = [p \in Pipeline |-> "running"] /\ selected = Null /\ details = <<>> /\ polls = <<>>
  /\ typed = Null /\ found = Null /\ searches = <<>>
  /\ runs = 0 /\ testing = FALSE /\ results = Null /\ shown = FALSE

Without(s, i) == SubSeq(s, 1, i - 1) \o SubSeq(s, i + 1, Len(s))

----------------------------------------------------------------------------
(* The status of the selected pipeline, beside the document's name.        *)

PipelineCompletes(p) ==
  /\ status[p] = "running" /\ status' = [status EXCEPT ![p] = "completed"]
  /\ UNCHANGED <<selected, details, polls, search, tests>>

Poll(p) == polls' = IF Len(polls) < MaxAsks THEN Append(polls, <<p, status[p]>>) ELSE polls

\* A selection polls at once and starts an interval in place of the old one.
setSelectedPipelineId(p) ==
  /\ p # selected /\ selected' = p
  /\ IF p = Null THEN details' = <<>> /\ UNCHANGED polls ELSE Poll(p) /\ UNCHANGED details
  /\ UNCHANGED <<status, search, tests>>

Interval ==
  /\ selected # Null /\ Len(polls) < MaxAsks
  /\ Poll(selected)
  /\ UNCHANGED <<status, selected, details, search, tests>>

\* Faulty variant: the first details of a pipeline are kept.
loadDetailsOnce(i) ==
  /\ i \in DOMAIN polls
  /\ polls' = Without(polls, i)
  /\ details' = IF details = <<>> \/ details[1] # polls[i][1] THEN polls[i] ELSE details
  /\ UNCHANGED <<status, selected, search, tests>>

\* Nothing compares the answer with the selection.
loadDetails(i) ==
  /\ i \in DOMAIN polls
  /\ polls' = Without(polls, i)
  /\ details' = polls[i] \/ UNCHANGED details   \* or the request fails
  /\ UNCHANGED <<status, selected, search, tests>>

activePipelineStatus == IF details = <<>> THEN "Idle" ELSE details[2]

----------------------------------------------------------------------------
(* The search box.                                                         *)

handleSearchChange(q) ==
  /\ q # typed /\ typed' = q
  /\ IF q = Null THEN found' = Null /\ UNCHANGED searches
     ELSE Len(searches) < MaxAsks /\ searches' = Append(searches, q) /\ UNCHANGED found
  /\ UNCHANGED <<panel, tests>>

\* Nor here: what is listed may be of an earlier text, or of one since erased.
SearchAnswered(i) ==
  /\ i \in DOMAIN searches
  /\ searches' = Without(searches, i)
  /\ found' = searches[i] \/ UNCHANGED found
  /\ UNCHANGED <<typed, panel, tests>>

----------------------------------------------------------------------------
(* The integration tests, which only the palette starts; nothing keeps it   *)
(* from starting a second run.                                             *)

handleRunTests ==
  /\ runs < MaxRuns /\ runs' = runs + 1
  /\ testing' = TRUE /\ results' = Null /\ shown' = FALSE
  /\ UNCHANGED <<panel, search>>

TestsAnswered(outcome) ==
  /\ runs > 0 /\ runs' = runs - 1
  /\ testing' = FALSE /\ results' = outcome /\ shown' = TRUE
  /\ UNCHANGED <<panel, search>>

\* The modal of the results is shown, and closed.
ResultsOpen == shown /\ results # Null

CloseResults ==
  /\ ResultsOpen /\ shown' = FALSE
  /\ UNCHANGED <<runs, testing, results, panel, search>>

Next ==
  \/ \E p \in Pipeline : PipelineCompletes(p)
  \/ \E p \in Pipeline \cup {Null} : setSelectedPipelineId(p)
  \/ Interval
  \/ \E i \in 1 .. MaxAsks : loadDetails(i) \/ SearchAnswered(i)
  \/ \E q \in Query \cup {Null} : handleSearchChange(q)
  \/ handleRunTests \/ TestsAnswered("passed") \/ TestsAnswered("failed") \/ CloseResults

Spec == Init /\ [][Next]_vars

\* Every request is answered, and not always by an error; the interval runs.
PollSucceeds == \E i \in DOMAIN polls : loadDetails(i) /\ details' = polls[i]

FairSpec ==
  /\ Spec
  /\ WF_vars(Interval) /\ WF_vars(loadDetails(1)) /\ SF_vars(PollSucceeds /\ details'[1] = selected)
  /\ WF_vars(TestsAnswered("passed") \/ TestsAnswered("failed"))

----------------------------------------------------------------------------
\* Once the selection and its pipeline rest, the status beside the document's name comes
\* to be that pipeline's for good, whatever polls of earlier selections are still to be
\* answered (AppShell.jsx:84).
Settles ==
  \A p \in Pipeline : <>[](selected = p) => <>[](details # <<>> /\ details[1] = p /\ activePipelineStatus = status[p])

\* A test run ends, also when another one was started meanwhile (App.js:118).
TestsEnd == []<>~testing
=============================================================================
