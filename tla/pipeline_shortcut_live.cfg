SPECIFICATION FairSpec
CONSTANTS
  PipelineRow = PipelineRow
  a = a
  b = b
  c = c
  d = d
  Node = {a, b, c}
  Parents <- Shortcut
  MaxRetries = 2
  Overlap = 1
  MaxPauses = 1
  MaxStale = 0
  MaxReaps = 0
  MaxTask = 0
  MaxPipe = 0
  Limit <- MCLimit
PROPERTIES ReadyIsReleased PipelineSettles
CHECK_DEADLOCK FALSE
