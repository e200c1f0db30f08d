SPECIFICATION FairSpec
CONSTANTS
  Task = {t1}
  Child = {t1}
  Worker = {w1}
  NoTask = NoTask
  NoWorker = NoWorker
  MaxRetries = 1
  Strikes = 1
  Kinds = {"completed"}
  OverloadPolicy = "defer"
  MaxFaults = 0
  MaxPauses = 0
  MaxCancels = 0
  MaxUserRetries = 0
  Limit <- MCLimit

PROPERTY MissingIsHealed
CHECK_DEADLOCK FALSE
