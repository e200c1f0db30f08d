SPECIFICATION FairSpec
CONSTANTS
  PipelineRow = PipelineRow
  a = a
  b = b
  c = c
  d = d
  Node = {a, b, c}
  Parents <- Join
  MaxRetries = 1
  Overlap = 2
  MaxPauses = 0
  MaxStale = 0
  MaxReaps = 0
  MaxTask = 0
  MaxPipe = 0
  Limit <- MCLimit
PROPERTY ReadyIsReleased
CHECK_DEADLOCK FALSE
