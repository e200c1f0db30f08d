SPECIFICATION Spec
CONSTANTS
  Task = {t1}
  Child = {t1}
  Worker = {w1, w2}
  NoTask = NoTask
  NoWorker = NoWorker
  MaxRetries = 1
  Strikes = 1
  Kinds = {"completed", "failed", "paused"}
  OverloadPolicy = "reject"
  MaxFaults = 1
  MaxPauses = 1
  MaxCancels = 1
  MaxUserRetries = 1
  Limit <- MCLimit
SYMMETRY Symmetric
INVARIANTS CompletionBudget Accounts
CHECK_DEADLOCK FALSE
