--------------------------- MODULE PipelineDashboard ---------------------------
(***************************************************************************)
(* The two views of the selected pipeline: the monitor, which fetches      *)
(* details and metrics itself and stops when the pipeline has ended        *)
(* (components/PipelineDashboard.js), and the processing workspace with    *)
(* the buttons that cancel, retry and delete it                            *)
(* (pipeline/ProcessingWorkspace.jsx, pipeline/PipelineControls.jsx).      *)
(*                                                                         *)
(* A request is answered with the state it was asked in; the answer takes  *)
(* any time.                                                               *)
(***************************************************************************)
EXTENDS Naturals, FiniteSets

CONSTANTS
  Pipeline,
  MaxMoves,    \* bound: changes of status at the server
  MaxFetches   \* bound: requests under way, those of effects cleaned up included

Null   == "none"

DashboardAssumption == Null \notin Pipeline /\ MaxMoves \in Nat /\ MaxFetches \in Nat

Ended  == {"completed", "failed", "cancelled"}
Status == Ended \cup {"running", "paused"}

VARIABLES
  status,      \* of each pipeline, at the server
  moves,
  selected,    \* selectedPipelineId
  monitor,     \* the monitor is the view shown; the processing workspace otherwise
  data,        \* pipelineData: <<pipeline, status>>, <<>> for null
  measured,    \* metricsData: the pipeline they are of
  loading,
  fetching,    \* under way: details and metrics of the monitor's live effect,
               \* [step, of, status], and of effects cleaned up since
  timer,       \* the live effect will fetch again
  modal        \* of the controls: Null, "cancel", "delete"

vars == <<status, moves, selected, monitor, data, measured, loading, fetching, timer, modal>>

monitorState == <<data, measured, loading, fetching, timer>>

Request == [live : BOOLEAN, step : {"details", "metrics"}, of : Pipeline, status : Status]

TypeOK ==
  /\ status \in [Pipeline -> Status] /\ moves \in 0 .. MaxMoves
  /\ selected \in Pipeline \cup {Null} /\ monitor \in BOOLEAN
  /\ data \in {<<>>} \cup (Pipeline \X Status) /\ measured \in Pipeline \cup {Null}
  /\ loading \in BOOLEAN /\ fetching \subseteq Request /\ timer \in BOOLEAN
  /\ modal \in {Null, "cancel", "delete"}
  /\ Cardinality({r \in fetching : r.live}) + (IF timer THEN 1 ELSE 0) <= 1

Init ==
  /\ status = [p \in Pipeline |-> "running"] /\ moves = 0
  /\ selected = Null /\ monitor = FALSE
  /\ data = <<>> /\ measured = Null /\ loading = FALSE /\ fetching = {} /\ timer = FALSE /\ modal = Null

----------------------------------------------------------------------------
(* The monitor.                                                            *)

Dashboard ==
  IF ~monitor THEN "elsewhere"
  ELSE IF loading /\ data = <<>> THEN "loading"
  ELSE IF selected = Null \/ data = <<>> THEN "nothing selected"
  ELSE "pipeline"

Ask(p) == [live |-> TRUE, step |-> "details", of |-> p, status |-> status[p]]

\* Clean-up of the effect: isMounted is cleared, the timer too.
Abandoned == {[r EXCEPT !.live = FALSE] : r \in fetching}

\* The effect of a selection, on the monitor: everything shown is dropped first.  A load
\* that a deselection cut short leaves loading set.
Follow(p) ==
  /\ timer' = FALSE
  /\ IF p = Null THEN fetching' = Abandoned /\ UNCHANGED <<data, measured, loading>>
     ELSE fetching' = Abandoned \cup {Ask(p)} /\ data' = <<>> /\ measured' = Null /\ loading' = TRUE

setSelectedPipelineId(p) ==
  /\ p # selected /\ selected' = p
  /\ IF monitor THEN Cardinality(fetching) < MaxFetches /\ Follow(p) ELSE UNCHANGED monitorState
  /\ UNCHANGED <<status, moves, monitor, modal>>

\* Mounting starts from nothing, unmounting forgets; so with the controls and their modal.
ShowMonitor ==
  /\ ~monitor /\ monitor' = TRUE /\ modal' = Null
  /\ data' = <<>> /\ measured' = Null /\ timer' = FALSE
  /\ loading' = (selected # Null)
  /\ fetching' = IF selected = Null THEN {} ELSE {Ask(selected)}
  /\ UNCHANGED <<status, moves, selected>>

LeaveMonitor ==
  /\ monitor /\ monitor' = FALSE
  /\ data' = <<>> /\ measured' = Null /\ loading' = FALSE /\ fetching' = {} /\ timer' = FALSE
  /\ UNCHANGED <<status, moves, selected, modal>>

\* Details have arrived: the metrics are asked for.
DetailsArrive(r) ==
  /\ r \in fetching /\ r.step = "details"
  /\ fetching' = (fetching \ {r}) \cup {[r EXCEPT !.step = "metrics"]}
  /\ UNCHANGED <<status, moves, selected, monitor, data, measured, loading, timer, modal>>

\* Metrics too, or they failed: both are shown, of a live effect, which goes on unless
\* the pipeline has completed or failed.
MetricsArrive(r, found) ==
  /\ r \in fetching /\ r.step = "metrics"
  /\ fetching' = fetching \ {r}
  /\ IF r.live
     THEN /\ data' = <<r.of, r.status>> /\ measured' = IF found THEN r.of ELSE Null
          /\ loading' = FALSE /\ timer' = (r.status \notin {"completed", "failed"})
     ELSE UNCHANGED <<data, measured, loading, timer>>
  /\ UNCHANGED <<status, moves, selected, monitor, modal>>

DetailsFail(r) ==
  /\ r \in fetching /\ r.step = "details"
  /\ fetching' = fetching \ {r} /\ timer' = (timer \/ r.live) /\ loading' = (loading /\ ~r.live)
  /\ UNCHANGED <<status, moves, selected, monitor, data, measured, modal>>

Timeout ==
  /\ timer /\ timer' = FALSE
  /\ fetching' = fetching \cup {Ask(selected)} /\ loading' = TRUE
  /\ UNCHANGED <<status, moves, selected, monitor, data, measured, modal>>

----------------------------------------------------------------------------
(* The controls of the processing workspace, which gets its status from    *)
(* the workspace's own polling: any status the pipeline has had.           *)

Buttons(s) ==
  {"delete"}
  \cup (IF s \in {"running", "paused"} THEN {"cancel"} ELSE {})
  \cup (IF s = "failed" THEN {"retry"} ELSE {})
  \cup (IF s \in Ended THEN {"re-upload"} ELSE {})

Processing == ~monitor /\ selected # Null

confirmModal(type) ==
  /\ Processing /\ type \in {"cancel", "delete"} \cap Buttons(status[selected])
  /\ modal = Null /\ modal' = type
  /\ UNCHANGED <<status, moves, selected, monitor, monitorState>>

closeModal ==
  /\ modal # Null /\ modal' = Null
  /\ UNCHANGED <<status, moves, selected, monitor, monitorState>>

\* The pipeline selected by now is cancelled, whatever its status; for "delete" the
\* workspace asks once more, in a dialog of its own.
handleConfirm ==
  /\ Processing /\ modal # Null /\ modal' = Null
  /\ \/ /\ modal = "cancel" /\ status[selected] \notin Ended
        /\ status' = [status EXCEPT ![selected] = "cancelled"]
     \/ UNCHANGED status     \* "delete", refused by the server, or failed
  /\ UNCHANGED <<moves, selected, monitor, monitorState>>

Retry ==
  /\ Processing /\ "retry" \in Buttons(status[selected])
  /\ status' = [status EXCEPT ![selected] = "running"]
  /\ UNCHANGED <<moves, selected, monitor, monitorState, modal>>

Move(p) ==
  /\ moves < MaxMoves /\ moves' = moves + 1
  /\ \E s \in Status \ {status[p]} : status' = [status EXCEPT ![p] = s]
  /\ UNCHANGED <<selected, monitor, monitorState, modal>>

Next ==
  \/ \E p \in Pipeline \cup {Null} : setSelectedPipelineId(p)
  \/ ShowMonitor \/ LeaveMonitor \/ Timeout
  \/ \E r \in fetching : DetailsArrive(r) \/ DetailsFail(r)
                         \/ \E found \in BOOLEAN : MetricsArrive(r, found)
  \/ \E type \in {"cancel", "delete"} : confirmModal(type)
  \/ closeModal \/ handleConfirm \/ Retry
  \/ \E p \in Pipeline : Move(p)

Spec == Init /\ [][Next]_vars

----------------------------------------------------------------------------
\* What the monitor shows is the selected pipeline, details and metrics alike, however
\* late the answers for pipelines selected before (isMounted, PipelineDashboard.js:35);
\* and it is still fetched, or about to be, until it has completed or failed.
MonitorIsOfSelected ==
  Dashboard = "pipeline" =>
    /\ data[1] = selected /\ measured \in {selected, Null}
    /\ data[2] \notin {"completed", "failed"} => timer \/ \E r \in fetching : r.live /\ r.of = selected

=============================================================================
