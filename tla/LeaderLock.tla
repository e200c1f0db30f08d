----------------------------- MODULE LeaderLock -----------------------------
(***************************************************************************)
(* The election of services/ha_coordinator_service.py: every orchestrator  *)
(* process beats every Beat seconds, and a beat tries to set (NX, with an  *)
(* expiry of TTL) or to extend one Redis key.  The flag a beat leaves      *)
(* behind, is_leader_instance, is what the recovery, unblock and           *)
(* compaction scanners of app.py consult before each pass.                 *)
(*                                                                         *)
(* Time is counted in ticks.  A beat talks to Redis in steps and other     *)
(* processes may step in between; it takes at most Delay ticks unless the  *)
(* process stalls.  Instance ids are random per process, so a process that *)
(* restarts is another instance.                                           *)
(***************************************************************************)
EXTENDS Integers

CONSTANTS
  Instance,  \* orchestrator processes, restarted ones included
  None,      \* no value under the key
  TTL,       \* REDIS_LEASE_DURATION
  Beat,      \* HEARTBEAT_INTERVAL
  Delay,     \* the longest a beat takes
  Limit      \* bounds on the faults

\* A Redis request or answer lost and retried, all REDIS_RETRY_COUNT attempts
\* failed, the database failed before Redis was asked, a process paused, the key
\* deleted (Redis restarted empty, or /chaos/failover), a process killed.
Fault == {"lost", "unreachable", "dbdown", "stall", "wiped", "crash"}

ASSUME ElectionAssumption ==
  /\ None \notin Instance
  /\ TTL \in Nat /\ Beat \in Nat /\ Delay \in Nat
  /\ Limit \in [Fault -> Nat]

VARIABLES
  pc,      \* where the heartbeat thread is
  timer,   \* ticks left of its sleep, or for its beat to end
  flag,    \* is_leader_instance (and _previous_leader_state, always its equal)
  holder,  \* the value of scaleflow:leader_lock
  ttl,     \* ticks until the key expires
  used     \* how much of each Limit is spent

vars == <<pc, timer, flag, holder, ttl, used>>

Busy  == {"lock", "look", "extend", "save"}
Alive == {i \in Instance : pc[i] \in Busy \cup {"sleep"}}

TypeOK ==
  /\ pc     \in [Instance -> Busy \cup {"new", "sleep", "dead"}]
  /\ timer  \in [Instance -> Nat]
  /\ flag   \in [Instance -> BOOLEAN]
  /\ holder \in Instance \cup {None}
  /\ ttl    \in Nat
  /\ used   \in [Fault -> Nat]

Init ==
  /\ pc     = [i \in Instance |-> "new"]
  /\ timer  = [i \in Instance |-> 0]
  /\ flag   = [i \in Instance |-> FALSE]
  /\ holder = None /\ ttl = 0
  /\ used   = [f \in Fault |-> 0]

----------------------------------------------------------------------------

Spend(f) == used[f] < Limit[f] /\ used' = [used EXCEPT ![f] = @ + 1]

Goto(i, l) == pc' = [pc EXCEPT ![i] = l]

\* A beat begins, with Delay ticks to end.
Begin(i) == Goto(i, "lock") /\ timer' = [timer EXCEPT ![i] = Delay]

\* time.sleep(heartbeat_interval)
Rest(i) == Goto(i, "sleep") /\ timer' = [timer EXCEPT ![i] = Beat]

Lead(i, b) == flag' = [flag EXCEPT ![i] = b]

\* start: a process registers and its heartbeat thread begins.
Start(i) ==
  /\ pc[i] = "new" /\ Begin(i)
  /\ UNCHANGED <<flag, holder, ttl, used>>

Wake(i) ==
  /\ pc[i] = "sleep" /\ timer[i] = 0 /\ Begin(i)
  /\ UNCHANGED <<flag, holder, ttl, used>>

\* SET key id NX EX TTL
TakeKey(i) == holder = None /\ holder' = i /\ ttl' = TTL

Acquire(i) ==
  /\ pc[i] = "lock" /\ TakeKey(i)
  /\ Lead(i, TRUE) /\ Goto(i, "save")
  /\ UNCHANGED <<timer, used>>

Refused(i) ==
  /\ pc[i] = "lock" /\ holder # None
  /\ Goto(i, "look")
  /\ UNCHANGED <<timer, flag, holder, ttl, used>>

\* GET key
Look(i) ==
  /\ pc[i] = "look"
  /\ \/ holder = i /\ Goto(i, "extend") /\ UNCHANGED flag
     \/ holder # i /\ Goto(i, "save") /\ Lead(i, FALSE)
  /\ UNCHANGED <<timer, holder, ttl, used>>

\* Faulty variant: the holder's beat does not extend the key.
ProlongNot == UNCHANGED ttl

\* EXPIRE key TTL: whoever holds it, and nothing when it is gone.
Prolong == ttl' = IF holder = None THEN ttl ELSE TTL

Extend(i) ==
  /\ pc[i] = "extend" /\ Prolong
  /\ Lead(i, TRUE) /\ Goto(i, "save")
  /\ UNCHANGED <<timer, holder, used>>

\* The commit of the instance's row ends the beat.
Save(i) ==
  /\ pc[i] = "save" /\ Rest(i)
  /\ UNCHANGED <<flag, holder, ttl, used>>

\* Redis raises in mid-beat, its command perhaps carried out: the attempt is
\* made again from the SET.
Retry(i) ==
  /\ Spend("lost")
  /\ \/ pc[i] = "lock" /\ TakeKey(i)
     \/ pc[i] \in {"lock", "look", "extend"} /\ UNCHANGED <<holder, ttl>>
     \/ pc[i] = "extend" /\ Prolong /\ UNCHANGED holder
  /\ Goto(i, "lock")
  /\ UNCHANGED <<timer, flag>>

\* The last attempt failed: "leader state preserved".
Preserve(i) ==
  /\ pc[i] \in {"lock", "look", "extend"} /\ Spend("unreachable")
  /\ Goto(i, "save")
  /\ UNCHANGED <<timer, flag, holder, ttl>>

\* The row cannot be read: the beat ends before it asks Redis, the flag stays.
Skip(i) ==
  /\ pc[i] = "lock" /\ Spend("dbdown")
  /\ Rest(i)
  /\ UNCHANGED <<flag, holder, ttl>>

\* The beat takes longer than Delay.
Stall(i) ==
  /\ pc[i] \in Busy /\ timer[i] = 0 /\ Spend("stall")
  /\ timer' = [timer EXCEPT ![i] = Delay]
  /\ UNCHANGED <<pc, flag, holder, ttl>>

Crash(i) ==
  /\ i \in Alive /\ Spend("crash")
  /\ Goto(i, "dead") /\ Lead(i, FALSE)
  /\ timer' = [timer EXCEPT ![i] = 0]
  /\ UNCHANGED <<holder, ttl>>

Wipe ==
  /\ Spend("wiped")
  /\ holder' = None /\ ttl' = 0
  /\ UNCHANGED <<pc, timer, flag>>

\* Faulty variant: a key set without an expiry.
ExpireNever == UNCHANGED <<holder, ttl>>

\* Redis drops the key when its time is up.
Expire ==
  /\ ttl' = IF ttl > 0 THEN ttl - 1 ELSE 0
  /\ holder' = IF ttl > 1 THEN holder ELSE None

\* A tick passes, unless some process is due to act first.
Tick ==
  /\ \A i \in Alive : timer[i] > 0
  /\ timer' = [i \in Instance |-> IF i \in Alive THEN timer[i] - 1 ELSE timer[i]]
  /\ Expire
  /\ UNCHANGED <<pc, flag, used>>

HeartbeatStep(i) ==
  Wake(i) \/ Acquire(i) \/ Refused(i) \/ Look(i) \/ Extend(i) \/ Save(i)

FaultStep(i) == Retry(i) \/ Preserve(i) \/ Skip(i) \/ Stall(i) \/ Crash(i)

Next ==
  \/ \E i \in Instance : Start(i) \/ HeartbeatStep(i) \/ FaultStep(i)
  \/ Wipe
  \/ Tick

Spec == Init /\ [][Next]_vars

\* Fairness: time passes, and a live heartbeat thread goes on.
FairSpec == Spec /\ WF_vars(Tick) /\ \A i \in Instance : WF_vars(HeartbeatStep(i))

----------------------------------------------------------------------------
(* Properties.                                                             *)

\* No beat was missed: requests were lost and processes died, but every live
\* instance has reached Redis in every beat and in time, and the key was not
\* deleted.  Past that the election makes no promise of a single leader.
Unharmed == \A f \in Fault \ {"lost", "crash"} : used[f] = 0

\* "a leader to execute recovery and priority scanner scans": the scanners run
\* in one process at a time.
OneLeader == \A i, j \in Instance : flag[i] /\ flag[j] => i = j
OneLeaderUnharmed == Unharmed => OneLeader

\* A live leader is not deposed: its flag is lost only with its process.
LeaderStays ==
  [][Unharmed => \A i \in Instance : flag[i] => flag'[i] \/ pc'[i] = "dead"]_vars

\* While any process lives, the scanners are not left without a leader for
\* good, whichever processes die and whatever Redis forgets.
Elected == Alive # {} ~> (\E i \in Instance : flag[i]) \/ Alive = {}

\* Why there is one leader: the leader holds the key, and no holder lets it
\* expire before it has extended it.
Need(i) == CASE pc[i] = "sleep" -> timer[i] + Delay
             [] pc[i] = "save"  -> timer[i] + Beat + Delay
             [] OTHER           -> timer[i]

LeaderHolds  == \A i \in Instance : flag[i] => holder = i /\ i \in Alive
HolderLasts  == \A i \in Alive : holder = i => ttl > Need(i)
ExtendsOwn   == \A i \in Instance : pc[i] = "extend" => holder = i
HoldersBegan == \A i \in Instance : pc[i] = "new" => holder # i
BeatsInTime  == \A i \in Alive : timer[i] <= IF pc[i] = "sleep" THEN Beat ELSE Delay
KeyIsTimed   == ttl > 0 <=> holder # None

KeyHeld == LeaderHolds /\ HolderLasts /\ ExtendsOwn /\ HoldersBegan /\ BeatsInTime /\ KeyIsTimed
Held == Unharmed => KeyHeld
=============================================================================
