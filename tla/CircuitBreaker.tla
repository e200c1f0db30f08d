--------------------------- MODULE CircuitBreaker ---------------------------
(***************************************************************************)
(* The breaker of one provider, execution_engine/control_plane/            *)
(* circuit_breaker.py, and the calls of ExecutionWorker.execute_job that   *)
(* pass it (through the broker) and report to it.  Each method holds the   *)
(* breaker's lock, so it is one action; a call and its report are two, and *)
(* the breaker may have opened and half-opened in between.                 *)
(***************************************************************************)
EXTENDS Integers

CONSTANTS
  Call,       \* jobs that may be executed at the same time
  Threshold,  \* failure_threshold
  Probes,     \* probe_successes
  Limit       \* bounds: how often the provider goes down, and answers that count for nothing

BreakerAssumption ==
  Threshold \in Nat \ {0} /\ Probes \in Nat \ {0} /\ Limit \in [{"outage", "noise"} -> Nat]

VARIABLES
  state,     \* _state
  failures,  \* _consecutive_failures; only its comparison with Threshold counts
  probes,    \* _consecutive_probes
  elapsed,   \* time.time() >= _open_until()
  out,       \* calls allowed and not reported
  up,        \* the provider answers and its quota is not used up
  used       \* how much of each Limit is spent

vars == <<state, failures, probes, elapsed, out, up, used>>

State == {"CLOSED", "OPEN", "HALF_OPEN"}

TypeOK ==
  /\ state    \in State
  /\ failures \in 0 .. Threshold
  /\ probes   \in 0 .. Probes
  /\ elapsed  \in BOOLEAN
  /\ out      \subseteq Call
  /\ up       \in BOOLEAN
  /\ used     \in [{"outage", "noise"} -> Nat]

Init ==
  /\ state = "CLOSED" /\ failures = 0 /\ probes = 0 /\ elapsed = FALSE
  /\ out = {} /\ up = TRUE
  /\ used = [l \in {"outage", "noise"} |-> 0]

Spend(l) == used[l] < Limit[l] /\ used' = [used EXCEPT ![l] = @ + 1]

\* Faulty variant: nobody looks whether the timeout is over.
CurrentUnread == [state |-> state, probes |-> probes]

\* _get_state_locked: an OPEN breaker half-opens when it is looked at.
Current ==
  IF state = "OPEN" /\ elapsed THEN [state |-> "HALF_OPEN", probes |-> 0]
                               ELSE [state |-> state, probes |-> probes]

\* broker.acquire, is_allowed: refused only while OPEN.
Ask(c) ==
  /\ c \notin out
  /\ state'  = Current.state
  /\ probes' = Current.probes
  /\ out' = IF Current.state = "OPEN" THEN out ELSE out \cup {c}
  /\ UNCHANGED <<failures, elapsed, up, used>>

\* record_success
CountSuccess ==
  /\ failures' = 0
  /\ IF Current.state = "HALF_OPEN" /\ Current.probes + 1 < Probes
       THEN state' = "HALF_OPEN" /\ probes' = Current.probes + 1
     ELSE IF Current.state = "HALF_OPEN" THEN state' = "CLOSED" /\ probes' = 0
     ELSE state' = Current.state /\ probes' = Current.probes

Succeed(c) ==
  /\ c \in out /\ up
  /\ out' = out \ {c}
  /\ CountSuccess
  /\ UNCHANGED <<elapsed, up, used>>

\* record_failure and record_429.  The count goes up before the state is looked
\* at, and a breaker that half-opens under a late failure opens again at once.
\* The cooldown hint may put an OPEN breaker's timeout off.
CountFailure ==
  /\ failures' = IF failures < Threshold THEN failures + 1 ELSE Threshold
  /\ \/ /\ Current.state # "OPEN" /\ failures' >= Threshold
        /\ state' = "OPEN" /\ probes' = 0 /\ elapsed' = FALSE
     \/ /\ Current.state # "OPEN" /\ failures' < Threshold
        /\ state' = Current.state /\ probes' = Current.probes /\ UNCHANGED elapsed
     \/ /\ state = "OPEN"
        /\ elapsed' = FALSE /\ UNCHANGED <<state, probes>>

Fail(c) ==
  /\ c \in out /\ ~up
  /\ out' = out \ {c}
  /\ CountFailure
  /\ UNCHANGED <<up, used>>

\* An error that is neither a 429 nor of the transport is not reported.
Ignored(c) ==
  /\ c \in out /\ Spend("noise")
  /\ out' = out \ {c}
  /\ UNCHANGED <<state, failures, probes, elapsed, up>>

\* The reset timeout runs out.
Elapse ==
  /\ state = "OPEN" /\ ~elapsed
  /\ elapsed' = TRUE
  /\ UNCHANGED <<state, failures, probes, out, up, used>>

Outage ==
  /\ up /\ Spend("outage")
  /\ up' = FALSE
  /\ UNCHANGED <<state, failures, probes, elapsed, out>>

Repair ==
  /\ ~up
  /\ up' = TRUE
  /\ UNCHANGED <<state, failures, probes, elapsed, out, used>>

Next ==
  \/ \E c \in Call : Ask(c) \/ Succeed(c) \/ Fail(c) \/ Ignored(c)
  \/ Elapse \/ Outage \/ Repair

Spec == Init /\ [][Next]_vars

\* Fairness: jobs keep coming and end, and time passes.  Nothing is assumed of
\* the provider.
FairSpec ==
  /\ Spec
  /\ WF_vars(Elapse)
  /\ \A c \in Call : WF_vars(Ask(c)) /\ WF_vars(Succeed(c) \/ Fail(c))

----------------------------------------------------------------------------
(* Properties.                                                             *)

\* No counter outlives the state it belongs to: a closed breaker is short of its
\* threshold, a half-open one of its probes, however late reports come in.
CountsFit ==
  /\ state = "CLOSED" => failures < Threshold /\ probes = 0
  /\ state = "HALF_OPEN" => probes < Probes
  /\ state = "OPEN" => probes = 0

\* A provider that is up for good is used again for good, whatever calls were
\* in flight when it came back.
Recovers == <>[]up => <>[](state = "CLOSED")
=============================================================================
