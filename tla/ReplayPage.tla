------------------------------ MODULE ReplayPage ------------------------------
(***************************************************************************)
(* The stand-alone replay page: a pipeline's recorded events are loaded,   *)
(* scrubbed and played, and the state after the event shown is asked of    *)
(* the server (components/ReplayPage.js).  The page starts loads and       *)
(* reconstructions freely and cancels none.  No view renders it at         *)
(* present: App.js only imports it.                                        *)
(*                                                                         *)
(* The effects a change of state triggers run in the same step.  The       *)
(* playback speed is left to the fairness of the tick.                     *)
(***************************************************************************)
EXTENDS Integers, Sequences, FiniteSets

CONSTANTS
  Pipeline,
  Recorded,    \* of each pipeline, the types of its events in order
  MaxLoads,    \* bound: loads of events under way
  MaxAsks      \* bound: reconstructions under way

Null == "none"

ReplayAssumption ==
  /\ Null \notin Pipeline /\ \A p \in Pipeline : Recorded[p] \in Seq(STRING \ {Null})
  /\ MaxLoads \in Nat

VARIABLES
  pipelines,   \* those the selector lists
  selected,    \* selectedPipelineId
  details,     \* replayDetails: the pipeline they are of
  index,       \* currentEventIndex, -1 before the first event
  playing,     \* isPlaying
  loading,
  loads,       \* loads under way: a bag as a sequence of pipelines
  rebuilt,     \* reconstructedState, if any: {[of, at]}
  asks         \* reconstructions under way

vars == <<pipelines, selected, details, index, playing, loading, loads, rebuilt, asks>>

Count(p) == Len(Recorded[p])
Position == UNION {0 .. Count(p) - 1 : p \in Pipeline}

\* `of` is the selection and `at` the event asked for: pipeline and number.
Rebuilt == [of : Pipeline, at : UNION {{p} \X (0 .. Count(p) - 1) : p \in Pipeline}]

TypeOK ==
  /\ pipelines \subseteq Pipeline /\ selected \in Pipeline \cup {Null}
  /\ details \in Pipeline \cup {Null}
  /\ index \in Position \cup {-1} /\ playing \in BOOLEAN /\ loading \in BOOLEAN
  /\ loads \in Seq(Pipeline) /\ Len(loads) <= MaxLoads
  /\ rebuilt \subseteq Rebuilt /\ asks \subseteq Rebuilt
  /\ playing => details # Null

Init ==
  /\ pipelines = {} /\ selected = Null /\ details = Null /\ index = -1
  /\ playing = FALSE /\ loading = FALSE /\ loads = <<>> /\ rebuilt = {} /\ asks = {}

----------------------------------------------------------------------------
(* The view.                                                               *)

Shown == ~loading /\ details # Null /\ Count(details) > 0

\* The marks of the timeline, and the one at the position.
Marks  == 0 .. Count(details) - 1
Active == Marks \cap {index}

\* The colour of a mark.
Category(type) ==
  CASE type \in {"task_created", "task_started"}                  -> "blue"
    [] type = "task_completed"                                    -> "green"
    [] type \in {"task_failed", "stale_worker_update_rejected"}   -> "red"
    [] type \in {"task_recovered", "task_retry", "lease_expired"} -> "amber"
    [] OTHER                                                      -> "purple"

Number(type) == Cardinality({i \in DOMAIN Recorded[details] : Recorded[details][i] = type})

\* getCorrectnessStats; the summary takes a rejected result for a clean run.
Stats ==
  [lost |-> Number("lease_expired"), recovered |-> Number("task_recovered"), retried |-> Number("task_retry"),
   clean |-> Number("task_failed") = 0 /\ Number("lease_expired") = 0]

\* The event inspector.
Inspected == IF index >= 0 /\ index < Count(details) THEN Recorded[details][index + 1] ELSE Null

----------------------------------------------------------------------------
(* Effects.                                                                *)

\* Every change of position, events or selection asks for a state, or drops it.
Reconstruct ==
  LET ask == [of |-> selected', at |-> <<details', index'>>]
  IN IF <<selected, details, index>>' = <<selected, details, index>> THEN UNCHANGED <<rebuilt, asks>>
     ELSE IF details' = Null \/ index' < 0 THEN rebuilt' = {} /\ UNCHANGED asks
     ELSE /\ asks' = (IF index' < Count(details') THEN asks \cup {ask} ELSE asks)
          /\ Cardinality(asks') <= MaxAsks
          /\ UNCHANGED rebuilt

\* loadReplayDetails, up to its await: the events shown stay until others arrive.
Load(p) ==
  /\ Len(loads) < MaxLoads /\ loads' = Append(loads, p)
  /\ loading' = TRUE /\ playing' = FALSE /\ index' = -1
  /\ rebuilt' = {} /\ UNCHANGED <<details, asks>>

----------------------------------------------------------------------------
(* Loading.                                                                *)

\* The first pipeline listed is selected when none is.
loadPipelines ==
  /\ pipelines = {} /\ pipelines' = Pipeline
  /\ IF selected = Null THEN (\E p \in Pipeline : selected' = p /\ Load(p))
     ELSE UNCHANGED <<selected, details, index, playing, loading, loads, rebuilt, asks>>

Select(p) ==
  /\ p \in pipelines \ {selected} /\ selected' = p
  /\ Load(p)
  /\ UNCHANGED pipelines

Sync ==
  /\ selected # Null
  /\ Load(selected)
  /\ UNCHANGED <<pipelines, selected>>

Without(s, i) == SubSeq(s, 1, i - 1) \o SubSeq(s, i + 1, Len(s))

\* Faulty variant: a position the user has moved to meanwhile is kept.
DetailsArriveKeeping(i) ==
  /\ i \in DOMAIN loads
  /\ details' = loads[i] /\ loads' = Without(loads, i) /\ loading' = FALSE
  /\ index' = IF Count(loads[i]) > 0 /\ index = -1 THEN Count(loads[i]) - 1 ELSE index
  /\ UNCHANGED <<pipelines, selected, playing>>
  /\ Reconstruct

\* Whichever pipeline is selected by now.
DetailsArrive(i) ==
  /\ i \in DOMAIN loads
  /\ details' = loads[i] /\ loads' = Without(loads, i) /\ loading' = FALSE
  /\ index' = IF Count(loads[i]) > 0 THEN Count(loads[i]) - 1 ELSE index
  /\ UNCHANGED <<pipelines, selected, playing>>
  /\ Reconstruct

DetailsFail(i) ==
  /\ i \in DOMAIN loads
  /\ loads' = Without(loads, i) /\ loading' = FALSE
  /\ UNCHANGED <<pipelines, selected, details, index, playing, rebuilt, asks>>

\* Nor is a state of another event than the one shown by now refused.
StateArrives(a) ==
  /\ a \in asks /\ asks' = asks \ {a}
  /\ rebuilt' = {a} \/ UNCHANGED rebuilt   \* or the request fails
  /\ UNCHANGED <<pipelines, selected, details, index, playing, loading, loads>>

----------------------------------------------------------------------------
(* Playing and scrubbing.                                                  *)

MoveTo(i) ==
  /\ index' = i
  /\ UNCHANGED <<pipelines, selected, details, loading, loads>>
  /\ Reconstruct

\* The interval of the playback effect; it stops itself at the last event.
Tick ==
  /\ playing
  /\ IF index >= Count(details) - 1 THEN playing' = FALSE /\ MoveTo(index)
     ELSE MoveTo(index + 1) /\ UNCHANGED playing

handlePlayToggle ==
  /\ Shown /\ playing' = ~playing
  /\ UNCHANGED <<pipelines, selected, details, index, loading, loads, rebuilt, asks>>

handleStepForward  == Shown /\ index < Count(details) - 1 /\ playing' = FALSE /\ MoveTo(index + 1)
handleStepBackward == Shown /\ index > 0 /\ playing' = FALSE /\ MoveTo(index - 1)
handleResetReplay  == Shown /\ playing' = FALSE /\ MoveTo(0)

\* The slider, and a click on an event of the track.
Scrub(i) == Shown /\ i \in 0 .. Count(details) - 1 /\ playing' = FALSE /\ MoveTo(i)

Next ==
  \/ loadPipelines \/ Sync
  \/ \E p \in Pipeline : Select(p)
  \/ \E i \in 1 .. MaxLoads : DetailsArrive(i) \/ DetailsFail(i)
  \/ \E a \in asks : StateArrives(a)
  \/ Tick \/ handlePlayToggle \/ handleStepForward \/ handleStepBackward \/ handleResetReplay
  \/ \E i \in Position : Scrub(i)

Spec == Init /\ [][Next]_vars

\* Reconstructions are answered and the interval fires, also when the bound on
\* reconstructions holds it up for a while.
FairSpec == Spec /\ SF_vars(Tick) /\ WF_vars(\E a \in asks : StateArrives(a))

----------------------------------------------------------------------------
\* The position is one of the events shown, in whichever order the loads of several
\* selections are answered: a load resets it and the events come with a position of
\* their own.
PositionExists ==
  Shown /\ index # -1 => Active = {index} /\ Inspected # Null

\* The summary (getCorrectnessStats) counts what the track (getEventCategoryColor) marks:
\* its anomalies are the amber marks, and a run it calls clean has no mark in amber or red
\* but those of retries, recoveries and results rejected.
StatsAgree ==
  Shown =>
    LET marked(colours) == {i \in Marks : Category(Recorded[details][i + 1]) \in colours}
    IN /\ Cardinality(marked({"amber"})) = Stats.lost + Stats.recovered + Stats.retried
       /\ Stats.clean = (\A i \in marked({"amber", "red"}) :
            Recorded[details][i + 1] \in {"task_retry", "task_recovered", "stale_worker_update_rejected"})

\* Playback ends by itself.
PlaybackEnds == []<>~playing
=============================================================================
