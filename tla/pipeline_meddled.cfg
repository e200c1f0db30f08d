SPECIFICATION Spec
CONSTANTS
  PipelineRow = PipelineRow
  a = a
  b = b
  c = c
  d = d
  Node = {a, b}
  Parents <- Chain
  MaxRetries = 1
  Overlap = 2
  MaxPauses = 0
  MaxStale = 1
  MaxReaps = 1
  MaxTask = 1
  MaxPipe = 0
  Limit <- MCLimit
INVARIANTS CompletedPipelineIsDone Provenance
CHECK_DEADLOCK FALSE
