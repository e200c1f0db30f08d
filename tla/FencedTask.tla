----------------------------- MODULE FencedTask -----------------------------
(***************************************************************************)
(* What the lease protocol of TaskLifecycle promises of each task: claims  *)
(* are numbered, at most one of them holds the task at a time, and a task  *)
(* is won (its completion is applied) only by the claim that holds it.     *)
(* Workers, queues, scanners and messages are not visible here.            *)
(***************************************************************************)
EXTENDS Naturals

CONSTANT Task

VARIABLES epoch,   \* claims granted
          holder,  \* the claim holding the task, 0 = none
          wins     \* claims whose completion was applied

vars == <<epoch, holder, wins>>

Init ==
  /\ epoch  = [t \in Task |-> 0]
  /\ holder = [t \in Task |-> 0]
  /\ wins   = [t \in Task |-> {}]

Grant(t) ==
  /\ holder[t] = 0
  /\ epoch'  = [epoch EXCEPT ![t] = @ + 1]
  /\ holder' = [holder EXCEPT ![t] = epoch[t] + 1]
  /\ UNCHANGED wins

\* Recovery, the reaper, a failure or a user takes any number of tasks away.
Revoke(S) ==
  /\ \A t \in S : holder[t] # 0
  /\ holder' = [t \in Task |-> IF t \in S THEN 0 ELSE holder[t]]
  /\ UNCHANGED <<epoch, wins>>

Win(t) ==
  /\ holder[t] # 0
  /\ wins'   = [wins EXCEPT ![t] = @ \cup {holder[t]}]
  /\ holder' = [holder EXCEPT ![t] = 0]
  /\ UNCHANGED epoch

Next ==
  \/ \E t \in Task : Grant(t) \/ Win(t)
  \/ \E S \in SUBSET Task : Revoke(S)

Spec == Init /\ [][Next]_vars
=============================================================================
