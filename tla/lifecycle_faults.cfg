SPECIFICATION Spec
CONSTANTS
  Task = {t1}
  Child = {}
  Worker = {w1, w2}
  NoTask = NoTask
  NoWorker = NoWorker
  MaxRetries = 2
  Strikes = 2
  Kinds = {"completed", "failed", "fatal"}
  OverloadPolicy = "defer"
  MaxFaults = 2
  MaxPauses = 0
  MaxCancels = 0
  MaxUserRetries = 0
  Limit <- MCLimit
SYMMETRY Symmetric
INVARIANTS Fenced AttemptBudget
PROPERTIES OnlyLatestClaimCompletes SettledIsFinal ImplementsFencedTask
CHECK_DEADLOCK FALSE
