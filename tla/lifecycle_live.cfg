SPECIFICATION FairSpec
CONSTANTS
  Task = {t1}
  Child = {}
  Worker = {w1}
  NoTask = NoTask
  NoWorker = NoWorker
  MaxRetries = 1
  Strikes = 1
  Kinds = {"completed", "failed", "paused"}
  OverloadPolicy = "defer"
  MaxFaults = 1
  MaxPauses = 1
  MaxCancels = 0
  MaxUserRetries = 0
  Limit <- MCLimit

PROPERTIES EventuallySettled MissingIsHealed
CHECK_DEADLOCK FALSE
