--------------------------- MODULE PipelineConsole ---------------------------
(***************************************************************************)
(* The execution console of the browser client: the live timeline of the   *)
(* selected pipeline, polled; its replay, fetched once and then stepped,   *)
(* played, searched and compared; the fault list with its retries          *)
(* (contexts/PipelineContext.js, ExecutionConsole.jsx, ErrorPanel.jsx).    *)
(* The task, trace and worker highlighted in all of them are left out.     *)
(*                                                                         *)
(* State set after an await, in one handler or in one effect is committed  *)
(* together and is one step.  Between the commit of a new selection and    *)
(* the effects that clean up after the old one (due) timers and answers    *)
(* may still come in; the user cannot act in that frame.                   *)
(***************************************************************************)
EXTENDS ReplayProjection

CONSTANTS
  Pipeline,
  Log,        \* the events of each pipeline, in the order of time
  JumpLogs,   \* more logs to try the search for a time on
  Cap,        \* rows the timeline keeps (1000)
  Window,     \* rows shown on either side of the replay position (100)
  MaxPolls,   \* bound: timeline requests in flight
  MaxDiffs,   \* bound: differences computed between two clearings
  MaxFaults   \* bound: requests that fail

ASSUME ConsoleAssumption ==
  /\ None \notin Pipeline /\ None \notin TaskId /\ IsFiniteSet(TaskId)
  /\ DOMAIN Log = Pipeline
  /\ \A p \in Pipeline : Log[p] \in Seq(Event) /\ Chronological(Log[p])
  /\ \A log \in JumpLogs : Chronological(log)
  /\ Cap \in Nat \ {0} /\ Window \in Nat /\ MaxPolls \in Nat \ {0} /\ MaxDiffs \in Nat /\ MaxFaults \in Nat

VARIABLES
  selected,   \* selectedPipelineId
  due,        \* selected has changed and its effects have not run
  recorded,   \* the server: events logged of each pipeline
  timeline,   \* timelineEvents
  loading,    \* timelineLoading
  timelineError,
  polling,    \* the pipeline the polling interval is set up for
  polls,      \* timeline requests in flight; abortRef holds the last one's controller
  replay,     \* replay mode: [mode, of, n, at, playing, a, b]
  fetch,      \* the replay request in flight, [of, n]
  replayLoading, replayError,
  cache,      \* diffCacheRef: the differences computed, under the key <<a, b>>
  retrying,   \* a retry of the fault list is on its way (loadingTaskId)
  faults      \* failures so far

pollVars   == <<timeline, loading, timelineError, polling, polls>>
replayVars == <<replay, fetch, replayLoading, replayError, cache>>
vars == <<selected, due, recorded, pollVars, replayVars, retrying, faults>>

Request     == [of : Pipeline, n : Nat]
PollRequest == [of : Pipeline, n : Nat, last : BOOLEAN]
NoReplay == [mode |-> FALSE, of |-> None, n |-> 0, at |-> -1, playing |-> FALSE, a |-> -1, b |-> -1]

TypeOK ==
  /\ selected \in Pipeline \cup {None} /\ due \in BOOLEAN
  /\ recorded \in [Pipeline -> Nat]
  /\ timeline \in Seq([of : Pipeline, n : Nat, time : Nat]) /\ Len(timeline) <= Cap
  /\ loading \in BOOLEAN /\ timelineError \in BOOLEAN /\ polling \in Pipeline \cup {None}
  /\ polls \subseteq PollRequest
  /\ replay \in [mode : BOOLEAN, of : Pipeline \cup {None}, n : Nat, at : Nat \cup {-1},
                 playing : BOOLEAN, a : Nat \cup {-1}, b : Nat \cup {-1}]
  /\ fetch \in Request \cup {None} /\ replayLoading \in BOOLEAN
  /\ replayError \in {"none", "unavailable", "failed"}
  /\ cache \subseteq [a : Nat, b : Nat, of : Pipeline]
  /\ retrying \in BOOLEAN /\ faults \in 0 .. MaxFaults
  \* the timeline is in order of time and holds a row once
  /\ \A j, k \in 1 .. Len(timeline) :
       j < k => timeline[j].time <= timeline[k].time /\ Key(timeline[j]) # Key(timeline[k])

Init ==
  /\ selected = None /\ due = FALSE
  /\ recorded = [p \in Pipeline |-> 0]
  /\ timeline = <<>> /\ loading = FALSE /\ timelineError = FALSE /\ polling = None /\ polls = {}
  /\ replay = NoReplay /\ fetch = None /\ replayLoading = FALSE /\ replayError = "none"
  /\ cache = {} /\ retrying = FALSE /\ faults = 0

----------------------------------------------------------------------------
(* Shared parts.                                                           *)

Fault == faults < MaxFaults /\ faults' = faults + 1

Snaps == [p \in Pipeline |-> Snapshots(Log[p])]
Comparing(r) == r.a # -1 /\ r.b # -1

\* The events the console lists, of the replay or of the timeline, under a filter.
\* The filter changes nothing else, so a click finds any filter in force.
Level == {"all", "error", "warning", "info"}
EventAt(row) == Log[row.of][row.n]
Listed(level) ==
  LET rows == IF replay.mode THEN [k \in 1 .. replay.n |-> [of |-> replay.of, n |-> k]] ELSE timeline
  IN {k \in DOMAIN rows : level = "all" \/ Severity(EventAt(rows[k]).type) = level}

\* The rows on screen, counted in the list: all of the live ones, a window of the
\* replayed ones.
Shown(level) == {k \in 1 .. Cardinality(Listed(level)) :
                   replay.mode => k > replay.at - Window /\ k <= replay.at + Window + 1}

\* The controls that are there and enabled.
Offered ==
  (IF replayLoading THEN {} ELSE {IF replay.mode THEN "exit" ELSE "enter"})
  \cup (IF replay.mode THEN {"restart", "prev", "next", "jump", "a", "b",
                             IF replay.playing THEN "pause" ELSE "play"} ELSE {})
  \cup (IF replay.mode /\ Comparing(replay) THEN {"swap"} ELSE {})
  \cup (IF replay.mode /\ (replay.a # -1 \/ replay.b # -1) THEN {"clear"} ELSE {})

Use(control) == ~due /\ control \in Offered

\* What the viewport shows instead of rows.
Viewport(level) ==
  IF replayError # "none" \/ timelineError THEN "error"
  ELSE IF Shown(level) # {} THEN "rows"
  ELSE IF replayLoading \/ loading THEN "loading" ELSE "empty"

\* The snapshotDiff memo.
Remembered(r) ==
  IF Comparing(r) /\ r.a < r.n /\ r.b < r.n /\ ~\E d \in cache : d.a = r.a /\ d.b = r.b
    THEN cache \cup {[a |-> r.a, b |-> r.b, of |-> r.of]} ELSE cache

\* A step of the replay: the memo belongs to it.
Move(r) ==
  /\ replay' = r
  /\ cache' = Remembered(r) /\ Cardinality(cache') <= MaxDiffs
  /\ UNCHANGED <<selected, due, recorded, retrying, faults>>

Operate(r) == Move(r) /\ UNCHANGED <<pollVars, fetch, replayLoading, replayError>>

----------------------------------------------------------------------------
(* The live timeline.                                                      *)

Rows(p, m) == [k \in 1 .. m |-> [of |-> p, n |-> k, time |-> Log[p][k].time]]

Poll(p) == [of |-> p, n |-> recorded[p], last |-> TRUE]
Aborted == {q \in polls : ~q.last}   \* what aborting abortRef leaves in flight

\* Faulty variant: the interval is not set up again.
StartPollingOnce(p) ==
  polling' = None /\ loading' = TRUE /\ polls' = Aborted \cup {Poll(p)} /\ UNCHANGED timelineError

\* The polling effect, set up again: the last poll is aborted (an older one, still
\* in flight, is not), one is sent at once and the interval restarted.
StartPolling(p) ==
  polling' = p /\ loading' = TRUE /\ polls' = Aborted \cup {Poll(p)} /\ UNCHANGED timelineError
StopPolling == polling' = None /\ polls' = Aborted /\ UNCHANGED <<loading, timelineError>>

\* setInterval: another poll every 2.5 s, whether or not the last was answered.
PollTick ==
  /\ polling # None
  /\ polls' = {[q EXCEPT !.last = FALSE] : q \in polls} \cup {Poll(polling)}
  /\ Cardinality(polls') <= MaxPolls
  /\ UNCHANGED <<selected, due, recorded, timeline, loading, timelineError, polling, replayVars,
                 retrying, faults>>

\* The server read the log at some moment since the request.
PollAnswer(q) ==
  /\ q \in polls /\ polls' = polls \ {q}
  /\ UNCHANGED <<selected, due, recorded, polling, replayVars, retrying, faults>>
  /\ \E m \in q.n .. recorded[q.of] : timeline' = Merge(timeline, Rows(q.of, m), Cap)
  /\ loading' = FALSE /\ timelineError' = FALSE

\* The answer's error is shown until the next good one; nothing else changes.
PollFails(q) ==
  /\ q \in polls /\ Fault
  /\ polls' = polls \ {q} /\ loading' = FALSE /\ timelineError' = TRUE
  /\ UNCHANGED <<selected, due, recorded, timeline, polling, replayVars, retrying>>

----------------------------------------------------------------------------
(* Selecting a pipeline.                                                   *)

\* setSelectedPipelineId, by the pages that list documents and pipelines.
Select(p) ==
  /\ p # selected /\ ~due
  /\ selected' = p /\ due' = TRUE
  /\ UNCHANGED <<recorded, pollVars, replayVars, retrying, faults>>

\* Pipeline Switch Cleanup: the replay is left and its request aborted.  The
\* aborted request returns without resetting replayLoading, and so does this.
CleanUp == replay' = NoReplay /\ replayError' = "none" /\ fetch' = None /\ cache' = {} /\ UNCHANGED replayLoading

RunEffects ==
  /\ due /\ due' = FALSE
  /\ CleanUp
  /\ IF selected = None
     THEN /\ timeline' = <<>> /\ loading' = FALSE /\ timelineError' = FALSE
          /\ polling' = None /\ polls' = Aborted
     ELSE StartPolling(selected) /\ UNCHANGED timeline
  /\ UNCHANGED <<selected, recorded, retrying, faults>>

----------------------------------------------------------------------------
(* Entering and leaving the replay.                                        *)

enterReplayMode ==
  /\ Use("enter") /\ selected # None
  /\ fetch' = [of |-> selected, n |-> recorded[selected]]
  /\ replayLoading' = TRUE /\ replayError' = "none"
  /\ UNCHANGED <<selected, due, recorded, pollVars, replay, cache, retrying, faults>>

\* A replay of m events.  Polling stops when the mode's effects run; a switch
\* that is due sets polling up anew by itself.
ReplayLoaded ==
  /\ fetch # None
  /\ \E m \in fetch.n .. recorded[fetch.of] :
       m > 0 /\ Move([replay EXCEPT !.mode = TRUE, !.of = fetch.of, !.n = m, !.at = 0])
  /\ fetch' = None /\ replayLoading' = FALSE
  /\ IF due THEN UNCHANGED pollVars ELSE StopPolling /\ UNCHANGED timeline
  /\ UNCHANGED replayError

\* 409: the pipeline has no events; or any other error.
ReplayRefused ==
  /\ fetch # None
  /\ \/ fetch.n = 0 /\ replayError' = "unavailable" /\ UNCHANGED faults
     \/ Fault /\ replayError' = "failed"
  /\ fetch' = None /\ replayLoading' = FALSE
  /\ UNCHANGED <<selected, due, recorded, pollVars, replay, cache, retrying>>

exitReplayMode ==
  /\ Use("exit")
  /\ replay' = NoReplay /\ cache' = {}
  /\ StartPolling(selected)
  /\ UNCHANGED <<selected, due, recorded, timeline, fetch, replayLoading, replayError, retrying, faults>>

----------------------------------------------------------------------------
(* Playback.                                                               *)

Final(r) == r.at >= r.n - 1

startReplay == Use("play") /\ Operate([replay EXCEPT !.playing = TRUE, !.at = IF Final(replay) THEN 0 ELSE @])
pauseReplay == Use("pause") /\ Operate([replay EXCEPT !.playing = FALSE])

\* Faulty variant: the timer advances without looking for the end.
TickOn == replay.playing /\ Operate([replay EXCEPT !.at = @ + 1])

\* The playback timer: one step, or the end.
Tick ==
  /\ replay.playing
  /\ Operate(IF Final(replay) THEN [replay EXCEPT !.playing = FALSE] ELSE [replay EXCEPT !.at = @ + 1])

Seek(k) == Operate([replay EXCEPT !.playing = FALSE, !.at = k])

stepForwardReplay  == Use("next") /\ Seek(IF Final(replay) THEN replay.n - 1 ELSE replay.at + 1)
stepBackwardReplay == Use("prev") /\ Seek(IF replay.at > 0 THEN replay.at - 1 ELSE 0)
restartReplay      == Use("restart") /\ Seek(0)

\* handleJumpSubmit: an event's number, or else a time.
JumpToNumber(k) == Use("jump") /\ k \in 1 .. replay.n /\ Seek(k - 1)
JumpToTime(t)   == Use("jump") /\ Seek(Jump(SubSeq(Log[replay.of], 1, replay.n), t))

\* A click on a row in a replay seeks the row's position in the filtered list.
RowClick(level, k) ==
  ~due /\ replay.mode /\ Viewport(level) = "rows" /\ k \in Shown(level) /\ Seek(k - 1)

----------------------------------------------------------------------------
(* Comparing two snapshots; -1 is "-- None --".                            *)

Chosen(k) == IF k \in 0 .. replay.n - 1 THEN k ELSE -1
selectSnapshotAIndex(k) == Use("a") /\ Operate([replay EXCEPT !.playing = FALSE, !.a = Chosen(k)])
selectSnapshotBIndex(k) == Use("b") /\ Operate([replay EXCEPT !.playing = FALSE, !.b = Chosen(k)])
swapSnapshots   == Use("swap") /\ Operate([replay EXCEPT !.a = replay.b, !.b = replay.a])
clearComparison == Use("clear") /\ Operate([replay EXCEPT !.a = -1, !.b = -1])

\* The difference on screen: the one remembered under the key, whatever it is of.
ShownDiff == CHOOSE d \in cache : d.a = replay.a /\ d.b = replay.b

----------------------------------------------------------------------------
(* The diagram and the fault list.                                         *)

\* The task rows under both: live ones as last recorded, overlaid in a replay.
LiveRows(p) == IF recorded[p] = 0 THEN Blank ELSE Snaps[p][recorded[p]]
TaskRows ==
  IF replay.mode THEN ReplayedRows(Snaps[replay.of][replay.at + 1], LiveRows(replay.of))
  ELSE LiveRows(selected).tasks

ErrorItems == {t \in TaskId : TaskRows[t].status \in Failing}

\* activeErrors: live errors, those of the snapshot, or those compared.
ActiveErrors ==
  IF replay.mode /\ Comparing(replay)
    THEN {t \in ErrorItems : Category(Snaps[replay.of][replay.a + 1], Snaps[replay.of][replay.b + 1], t) # None}
  ELSE IF replay.mode THEN FaultsAt(Snaps[replay.of][replay.at + 1], ErrorItems)
  ELSE ErrorItems

\* "Retry Task Stage": every retry button is disabled while one is on its way.
RetryClick(t) ==
  /\ ~due /\ selected # None /\ t \in ActiveErrors /\ ~retrying
  /\ retrying' = TRUE
  /\ UNCHANGED <<selected, due, recorded, pollVars, replayVars, faults>>

\* onRetryTask: a retry that was accepted sets polling up anew, a refused one is
\* shown under the fault.
RetryAnswer ==
  /\ retrying /\ retrying' = FALSE
  /\ \/ IF selected # None /\ ~replay.mode /\ ~due THEN StartPolling(selected) /\ UNCHANGED <<timeline, faults>>
        ELSE UNCHANGED <<pollVars, faults>>
     \/ Fault /\ UNCHANGED pollVars
  /\ UNCHANGED <<selected, due, recorded, replayVars>>

----------------------------------------------------------------------------
\* The server logs the next event of p.
Record(p) ==
  /\ recorded[p] < Len(Log[p])
  /\ recorded' = [recorded EXCEPT ![p] = @ + 1]
  /\ UNCHANGED <<selected, due, pollVars, replayVars, retrying, faults>>

Polls  == PollTick \/ \E q \in polls : PollAnswer(q) \/ PollFails(q)
Enter  == enterReplayMode \/ ReplayLoaded \/ ReplayRefused \/ exitReplayMode
Play   == startReplay \/ pauseReplay \/ Tick \/ stepForwardReplay \/ stepBackwardReplay \/ restartReplay
JumpTo == \E k \in 1 .. replay.n : JumpToNumber(k) \/ JumpToTime(Log[replay.of][k].time + 1)
Compare ==
  \/ \E k \in -1 .. replay.n - 1 : selectSnapshotAIndex(k) \/ selectSnapshotBIndex(k)
  \/ swapSnapshots \/ clearComparison
Click ==
  \/ \E level \in Level : \E k \in Shown(level) : RowClick(level, k)
  \/ \E t \in TaskId : RetryClick(t)

Next ==
  \/ \E p \in Pipeline \cup {None} : Select(p)
  \/ \E p \in Pipeline : Record(p)
  \/ RunEffects \/ Polls \/ Enter \/ Play \/ JumpTo \/ Compare \/ Click \/ RetryAnswer

Spec == Init /\ [][Next]_vars

\* Timers fire, effects run, requests are answered; users need do nothing.
Fairness ==
  /\ WF_vars(RunEffects) /\ WF_vars(PollTick) /\ WF_vars(Tick)
  /\ WF_vars(\E q \in polls : PollAnswer(q))

FairSpec == Spec /\ Fairness

----------------------------------------------------------------------------
(* Properties.                                                             *)

Has(p, n) == \E k \in 1 .. Len(timeline) : Key(timeline[k]) = <<p, n>>
Displaced(row, rows) == Len(rows) = Cap /\ \A k \in 1 .. Len(rows) : rows[k].time >= row.time

\* What is replayed and what is polled is of the selected pipeline, but for the frame
\* before the effects of a new selection, and nothing of a replay survives its end.
OfSelected ==
  /\ ~due => /\ replay.mode => replay.of = selected /\ polling = None
             /\ fetch # None => fetch.of = selected /\ ~replay.mode
             /\ polling \in {None, selected}
  /\ ~replay.mode => replay = NoReplay /\ cache = {}

\* The position and both compared snapshots are of events that were fetched.
PositionsExist ==
  replay.mode => /\ replay.of \in Pipeline /\ replay.n \in 1 .. recorded[replay.of]
                 /\ replay.at \in 0 .. replay.n - 1
                 /\ replay.a \in -1 .. replay.n - 1 /\ replay.b \in -1 .. replay.n - 1

\* Whatever answers come late (enterReplayMode) and however the selection moves
\* (Pipeline Switch Cleanup), what is replayed is the selected pipeline, its position
\* and both compared snapshots exist, and nothing of a replay survives its end.
ReplayIsOfSelected == OfSelected /\ PositionsExist

\* The difference shown is of the two snapshots chosen (diffCacheRef is keyed by their
\* positions alone), and its retry delta is the number of retries logged between them,
\* negative when B is before A.
DiffIsTrue ==
  replay.mode /\ Comparing(replay) =>
    LET log   == Log[replay.of]
        until(k) == Cardinality({j \in 1 .. k + 1 : log[j].task # None /\ (Retries(log[j]) \/ log[j].says)})
        snaps == Snaps[replay.of]
    IN /\ ShownDiff.of = replay.of
       /\ Diff(snaps[replay.a + 1], snaps[replay.b + 1]).retries = until(replay.b) - until(replay.a)

\* handleJumpSubmit's binary search lands on the first event at or after the time, in
\* the replay at hand and in every log of JumpLogs.
JumpAgrees(log) ==
  \A k \in 1 .. Len(log) : \A d \in {-1, 0, 1} : Jump(log, log[k].time + d) = FirstAt(log, log[k].time + d)
JumpLogsAgree == \A log \in JumpLogs : JumpAgrees(log)
JumpFinds == replay.mode => JumpLogsAgree /\ JumpAgrees(SubSeq(Log[replay.of], 1, replay.n))

\* However polls overlap and answers are reordered, the timeline has no gap: a logged
\* event that precedes one on it is on it too, or was pushed out by later ones.
NoGaps ==
  \A k \in 1 .. Len(timeline) : \A n \in 1 .. timeline[k].n - 1 :
    LET p == timeline[k].of IN Has(p, n) \/ Displaced(Log[p][n], timeline)

\* A row leaves the timeline only when no pipeline is selected or later rows push it
\* out (mergeEvents): no answer, failure or replay takes one away.
TimelineKeeps ==
  [][\A k \in 1 .. Len(timeline) :
       \/ \E j \in 1 .. Len(timeline') : timeline'[j] = timeline[k]
       \/ selected = None
       \/ Displaced(timeline[k], timeline')]_vars

\* No live timeline is up: nothing is selected, its effects have not run, or a replay is.
NotLive == selected = None \/ due \/ replay.mode

\* Each event logged of the selected pipeline is on the timeline or was pushed out.
CaughtUp == \A n \in 1 .. recorded[selected] : Has(selected, n) \/ Displaced(Log[selected][n], timeline)

\* The timeline shown live catches up with the log again and again, failed, overlapping
\* and aborted polls and retries notwithstanding; and no playback runs for ever.  Caught
\* up is what the merge leaves (mergeEvents): what is pushed out for good may have been
\* pushed out by rows of a pipeline selected before, which a switch does not clear.
CatchesUp == []<>(NotLive \/ CaughtUp) /\ []<>~replay.playing

\* What CatchesUp leaves open: after a switch the timeline comes to be the selected
\* pipeline's alone ("No execution events have been recorded for this pipeline.",
\* ExecutionConsole.jsx:654), with the events of it that the limit leaves room for.  The
\* code does not keep this: only a deselection clears the timeline (PipelineContext.js:879).
OnlySelected == \A k \in 1 .. Len(timeline) : timeline[k].of = selected
FollowsSwitch == []<>(NotLive \/ (OnlySelected /\ CaughtUp))
=============================================================================
