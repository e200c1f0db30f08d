-------------------------- MODULE MCTaskLifecycle --------------------------
(* Small instances of TaskLifecycle for TLC. *)
EXTENDS TaskLifecycle, TLC

CONSTANTS MaxFaults, MaxPauses, MaxCancels, MaxUserRetries

MCLimit == [e \in {"fault", "pause", "cancel", "retry"} |->
              CASE e = "fault"  -> MaxFaults
                [] e = "pause"  -> MaxPauses
                [] e = "cancel" -> MaxCancels
                [] e = "retry"  -> MaxUserRetries]
Symmetric == Permutations(Worker)
=============================================================================
