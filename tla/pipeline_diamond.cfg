SPECIFICATION Spec
CONSTANTS
  PipelineRow = PipelineRow
  a = a
  b = b
  c = c
  d = d
  Node = {a, b, c, d}
  Parents <- Diamond
  MaxRetries = 2
  Overlap = 2
  MaxPauses = 0
  MaxStale = 0
  MaxReaps = 0
  MaxTask = 0
  MaxPipe = 1
  Limit <- MCLimit
INVARIANTS RunsAfterParents
CHECK_DEADLOCK FALSE
