--------------------------- MODULE TelemetryPolling ---------------------------
(***************************************************************************)
(* How the signed-in client keeps up with the server: the two loads of     *)
(* pollingManager.js into telemetryStore.js, from which the status dot and *)
(* the warning about a stuck queue are drawn.                              *)
(*                                                                         *)
(* A load is a row of requests, each sent when the one before it is        *)
(* answered.  Those are kept whose answer something depends on: "workers"  *)
(* and "queue" of the fast load, "db" of the slow one, which also stands   *)
(* for qdrant and the cluster; what is left out (tasks, pipelines,         *)
(* metrics) is only listed.  Loads may overlap.                            *)
(***************************************************************************)
EXTENDS Naturals, FiniteSets

CONSTANTS
  MaxLoads,     \* bound: loads under way
  MaxChanges    \* bound: changes at the server and failed requests

TelemetryAssumption == MaxLoads \in Nat /\ MaxChanges \in Nat

Slot == 1 .. MaxLoads
Speed == {"fast", "slow"}
Service == {"online", "offline"}

VARIABLES
  server,    \* [workers : standby | busy, queue : empty | full | down, db : online | offline]
  changes,
  watching,  \* "away": the client is not mounted; "hidden", "visible": its window
  timers,    \* fastIntervalId, slowIntervalId: the kinds of load an interval is set for
  loads,     \* of each slot: Idle, or [step, answer, standby]: the request under way, its
             \* answer once it has one, and allWorkersIdle of this load
  store,     \* telemetryStore: redisStatus, dbStatus
  stuck      \* showStuckWarning

vars == <<server, changes, watching, timers, loads, store, stuck>>

Unanswered == "unanswered"
Failed     == "failed"
Load == [step : {"idle", "workers", "queue", "db"}, standby : BOOLEAN,
         answer : {Unanswered, Failed, "standby", "busy", "empty", "full", "down"} \cup Service]
Idle == [step |-> "idle", answer |-> Unanswered, standby |-> FALSE]
First(kind) == [Idle EXCEPT !.step = IF kind = "fast" THEN "workers" ELSE "db"]

TypeOK ==
  /\ server \in [workers : {"standby", "busy"}, queue : {"empty", "full", "down"}, db : Service]
  /\ changes \in 0 .. MaxChanges /\ watching \in {"away", "hidden", "visible"}
  /\ timers \subseteq Speed
  /\ loads \in [Slot -> Load]
  /\ store \in [redis : {"checking"} \cup Service, db : {"checking"} \cup Service]
  /\ stuck \in BOOLEAN

Init ==
  /\ server \in [workers : {"standby", "busy"}, queue : {"empty", "full"}, db : Service]
  /\ changes = 0 /\ watching = "away" /\ timers = {}
  /\ loads = [i \in Slot |-> Idle] /\ stuck = FALSE
  /\ store = [redis |-> "checking", db |-> "checking"]

----------------------------------------------------------------------------
(* What the client shows of it.                                            *)

Health(redis, db) ==
  IF redis /\ db THEN "All systems operational"
  ELSE IF redis \/ db THEN "Degraded performance" ELSE "Systems offline"

\* What has not been checked yet counts as degraded.
Dot ==
  IF {store.redis, store.db} \subseteq Service THEN Health(store.redis = "online", store.db = "online")
  ELSE "Degraded performance"

\* The banner above every view.
Banner == stuck /\ watching # "away"

----------------------------------------------------------------------------
(* The server.                                                             *)

ServerChanges ==
  /\ changes < MaxChanges /\ changes' = changes + 1
  /\ \/ server' = [server EXCEPT !.workers = IF @ = "busy" THEN "standby" ELSE "busy"]
     \/ \E q \in {"empty", "full", "down"} \ {server.queue} : server' = [server EXCEPT !.queue = q]
     \/ server' = [server EXCEPT !.db = IF @ = "online" THEN "offline" ELSE "online"]
  /\ UNCHANGED <<watching, timers, loads, store, stuck>>

Reading(step) == server[step]

Answer(i) ==
  /\ loads[i].step # "idle" /\ loads[i].answer = Unanswered
  /\ loads' = [loads EXCEPT ![i].answer = Reading(loads[i].step)]
  /\ UNCHANGED <<server, changes, watching, timers, store, stuck>>

RequestFails(i) ==
  /\ loads[i].step # "idle" /\ loads[i].answer = Unanswered
  /\ changes < MaxChanges /\ changes' = changes + 1
  /\ loads' = [loads EXCEPT ![i].answer = Failed]
  /\ UNCHANGED <<server, watching, timers, store, stuck>>

----------------------------------------------------------------------------
(* pollingManager.                                                         *)

\* A load takes the first free slot; one too many is not begun.
Add(ls, kind) ==
  LET free == {i \in Slot : ls[i].step = "idle"}
  IN IF free = {} THEN ls
     ELSE [ls EXCEPT ![CHOOSE i \in free : \A j \in free : i <= j] = First(kind)]

\* Mounting: the provider's warning is a fresh one, the store is the module's.
start ==
  /\ watching = "away" /\ watching' \in {"hidden", "visible"}
  /\ loads' = IF watching' = "visible" THEN Add(Add(loads, "fast"), "slow") ELSE loads
  /\ timers' = Speed
  /\ stuck' = FALSE
  /\ UNCHANGED <<server, changes, store>>

\* Unmounting; loads under way go on, for the store, and after the next start.
stop ==
  /\ watching # "away" /\ watching' = "away"
  /\ timers' = {} /\ stuck' = FALSE
  /\ UNCHANGED <<server, changes, loads, store>>

Hide ==
  /\ watching # "away"
  /\ watching' = IF watching = "hidden" THEN "visible" ELSE "hidden"
  /\ UNCHANGED <<server, changes, timers, loads, store, stuck>>

\* setInterval, and triggerFastUpdate after a task is retried or the tests have run
Tick(kind) ==
  /\ kind \in timers /\ watching = "visible"   \* a load in a hidden window returns at once
  /\ loads' = Add(loads, kind)
  /\ UNCHANGED <<server, changes, watching, timers, store, stuck>>

Become(i, load) == loads' = [loads EXCEPT ![i] = load]
SetStuck(b)     == stuck' = (b /\ watching # "away")

\* mergedWorkers: every worker of the list, and the three expected ones, idle or offline;
\* none at all when the request fails.
FetchWorkers(i) ==
  /\ loads[i].step = "workers" /\ loads[i].answer # Unanswered
  /\ Become(i, [step |-> "queue", answer |-> Unanswered, standby |-> loads[i].answer = "standby"])
  /\ UNCHANGED <<store, stuck>>

QueueStats(i) ==
  /\ loads[i].step = "queue" /\ loads[i].answer # Unanswered
  /\ Become(i, Idle)
  /\ store' = [store EXCEPT !.redis = IF loads[i].answer \in {"empty", "full"} THEN "online" ELSE "offline"]
  /\ IF loads[i].answer = Failed THEN UNCHANGED stuck
     ELSE SetStuck(loads[i].answer = "full" /\ loads[i].standby)

DatabaseStatus(i) ==
  /\ loads[i].step = "db" /\ loads[i].answer # Unanswered
  /\ Become(i, Idle)
  /\ store' = [store EXCEPT !.db = IF loads[i].answer = "online" THEN "online" ELSE "offline"]
  /\ UNCHANGED stuck

Arrive(i) ==
  /\ FetchWorkers(i) \/ QueueStats(i) \/ DatabaseStatus(i)
  /\ UNCHANGED <<server, changes, watching, timers>>

Next ==
  \/ ServerChanges \/ start \/ stop \/ Hide
  \/ \E kind \in Speed : Tick(kind)
  \/ \E i \in Slot : Answer(i) \/ RequestFails(i) \/ Arrive(i)

Spec == Init /\ [][Next]_vars

\* Requests are answered, answers arrive, and intervals fire though their slots are
\* taken now and then.
FairSpec ==
  /\ Spec
  /\ \A i \in Slot : WF_vars(Answer(i)) /\ WF_vars(Arrive(i))
  /\ \A kind \in Speed : SF_vars(Tick(kind) /\ loads' # loads)

----------------------------------------------------------------------------
\* Once the window stays in view, the dot and the warning come to say for good what the
\* server's state is: a remount polls again, an overlapping load brings nothing back,
\* and the warning goes when its cause does.
Settles ==
  <>[](watching = "visible")
    => <>[](/\ Dot = Health(server.queue # "down", server.db = "online")
            /\ Banner = (server.queue = "full" /\ server.workers = "standby"))
=============================================================================
